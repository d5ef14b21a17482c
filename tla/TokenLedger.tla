----------------------------- MODULE TokenLedger ----------------------------
(***************************************************************************)
(* Balances of a fungible token: the transfer shared by the underlying     *)
(* ERC20 tokens and the vault shares, and what it means that balances add  *)
(* up to a total.                                                          *)
(***************************************************************************)
EXTENDS Integers

\* transfer/transferFrom of the underlying tokens (USDC, agEUR, GBPT), whose
\* code is not in the repository: no fee on transfer, no rebasing.  The debit
\* comes first, so a transfer to oneself changes nothing.
Moved(bal, from, to, n) ==
    LET paid == [bal EXCEPT ![from] = @ - n]
    IN  [paid EXCEPT ![to] = @ + n]

\* A transfer reverts unless the sender holds the amount.
CanPay(bal, from, n) == bal[from] >= n

\* The values of f add up to total: some g gives the sum of f over every
\* subset of its domain, which may be infinite.
SumsTo(f, total) ==
    \E g \in [SUBSET DOMAIN f -> Nat] :
        /\ g[{}] = 0
        /\ g[DOMAIN f] = total
        /\ \A T \in SUBSET DOMAIN f : \A x \in (DOMAIN f) \ T :
              g[T \cup {x}] = g[T] + f[x]
=============================================================================
