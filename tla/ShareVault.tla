----------------------------- MODULE ShareVault -----------------------------
(***************************************************************************)
(* One share vault as pure operators: solmate's ERC20 and ERC4626 with the *)
(* totalAssets, borrow and refund of VaultCeFi.  The vault's own           *)
(* specification and the accounts that call vaults inside a larger         *)
(* transaction are both built from them.                                   *)
(*                                                                         *)
(*   v     storage of one vault: totalSupply, balanceOf and borrowedFunds  *)
(*   bal   balances of the vault's underlying token                        *)
(*   self  address of the vault, so bal[self] is what it holds             *)
(*                                                                         *)
(* A call is the set of its outcomes, empty when it reverts; an outcome    *)
(* has the new v, the new bal and the value the call returns.              *)
(***************************************************************************)
EXTENDS FixedPoint, TokenLedger

CONSTANTS
    MAX_BORROW_RATIO,   \* 8000 in the code, over
    BPS                 \* 10000: any pair with the same quotient

ASSUME RatioAssumption ==
    /\ MAX_BORROW_RATIO \in Nat
    /\ BPS \in Nat \ {0}
    /\ MAX_BORROW_RATIO <= BPS

EmptyVault(Holders) == [totalSupply   |-> 0,
                        balanceOf     |-> [h \in Holders |-> 0],
                        borrowedFunds |-> 0]

-----------------------------------------------------------------------------
(* ERC20 shares *)

\* balanceOf[to] += amount is unchecked: it relies on the balances adding up
\* to totalSupply.
Credit(balances, to, n) == [balances EXCEPT ![to] = Wrapped(@ + n)]

_mint(v, to, n) ==
    { [v EXCEPT !.totalSupply = s, !.balanceOf = Credit(v.balanceOf, to, n)] :
        s \in Checked(v.totalSupply + n) }

\* balanceOf[from] -= amount is checked.
Debit(balances, from, n) ==
    { [balances EXCEPT ![from] = b] : b \in Checked(balances[from] - n) }

\* totalSupply -= amount is unchecked for the same reason.
_burn(v, from, n) ==
    { [v EXCEPT !.totalSupply = Wrapped(v.totalSupply - n), !.balanceOf = f] :
        f \in Debit(v.balanceOf, from, n) }

\* transfer and the balance part of transferFrom; both balances are read when
\* they are written, so from = to is a no-op.
transferFromStaleRead(v, from, to, n) ==
    { [v EXCEPT !.balanceOf = [f EXCEPT ![to] = Wrapped(v.balanceOf[to] + n)]] :
        f \in Debit(v.balanceOf, from, n) }

transfer(v, from, to, n) ==
    { [v EXCEPT !.balanceOf = Credit(f, to, n)] : f \in Debit(v.balanceOf, from, n) }

-----------------------------------------------------------------------------
(* Accounting *)

\* What the vault's shares are worth, lent-out funds included (unbounded).
Worth(v, held) == held + v.borrowedFunds

\* VaultCeFi.totalAssets: checked, so it reverts when the sum leaves the word.
totalAssets(v, held) == Checked(Worth(v, held))

convertToShares(v, held, assets) ==
    IF v.totalSupply = 0 THEN {assets}
    ELSE UNION { mulDivDown(assets, v.totalSupply, t) : t \in totalAssets(v, held) }

convertToAssets(v, held, shares) ==
    IF v.totalSupply = 0 THEN {shares}
    ELSE UNION { mulDivDown(shares, t, v.totalSupply) : t \in totalAssets(v, held) }

previewDepositUp(v, held, assets) ==
    IF v.totalSupply = 0 THEN {assets}
    ELSE UNION { mulDivUp(assets, v.totalSupply, t) : t \in totalAssets(v, held) }

previewDeposit(v, held, assets) == convertToShares(v, held, assets)

previewMintDown(v, held, shares) == convertToAssets(v, held, shares)

previewMint(v, held, shares) ==
    IF v.totalSupply = 0 THEN {shares}
    ELSE UNION { mulDivUp(shares, t, v.totalSupply) : t \in totalAssets(v, held) }

previewWithdrawDown(v, held, assets) == convertToShares(v, held, assets)

previewWithdraw(v, held, assets) ==
    IF v.totalSupply = 0 THEN {assets}
    ELSE UNION { mulDivUp(assets, v.totalSupply, t) : t \in totalAssets(v, held) }

previewRedeemUp(v, held, shares) == previewMint(v, held, shares)

previewRedeem(v, held, shares) == convertToAssets(v, held, shares)

-----------------------------------------------------------------------------
(* Deposits and withdrawals; the allowance of a third-party withdrawal is   *)
(* spent by the caller of these operators.                                  *)

\* The underlying moves in and shares are minted to the receiver.
Entered(v, bal, self, caller, receiver, assets, shares, returned) ==
    { [v |-> w, bal |-> Moved(bal, caller, self, assets), ret |-> returned] :
        w \in IF CanPay(bal, caller, assets) THEN _mint(v, receiver, shares) ELSE {} }

\* Shares of the owner are burnt and the underlying moves out.
Left(v, bal, self, receiver, owner, assets, shares, returned) ==
    { [v |-> w, bal |-> Moved(bal, self, receiver, assets), ret |-> returned] :
        w \in IF CanPay(bal, self, assets) THEN _burn(v, owner, shares) ELSE {} }

deposit(v, bal, self, caller, assets, receiver) ==
    UNION { Entered(v, bal, self, caller, receiver, assets, shares, shares) :
              shares \in previewDeposit(v, bal[self], assets) \ {0} }

mint(v, bal, self, caller, shares, receiver) ==
    UNION { Entered(v, bal, self, caller, receiver, assets, shares, assets) :
              assets \in previewMint(v, bal[self], shares) }

withdraw(v, bal, self, assets, receiver, owner) ==
    UNION { Left(v, bal, self, receiver, owner, assets, shares, shares) :
              shares \in previewWithdraw(v, bal[self], assets) }

redeem(v, bal, self, shares, receiver, owner) ==
    UNION { Left(v, bal, self, receiver, owner, assets, shares, assets) :
              assets \in previewRedeem(v, bal[self], shares) \ {0} }
-----------------------------------------------------------------------------
(* The vault owner's calls; who may make them is left to the caller of      *)
(* these operators.                                                         *)

\* borrowCapacityLeft: every operation is checked, so it reverts when the
\* product leaves the word and when more is lent out than the ratio allows now.
borrowCapacityLeftPerLoan(v, held) ==
    UNION { Checked((t * MAX_BORROW_RATIO) \div BPS) :
              t \in { u \in totalAssets(v, held) : u * MAX_BORROW_RATIO \in Uint } }

borrowCapacityLeft(v, held) ==
    UNION { Checked(((t * MAX_BORROW_RATIO) \div BPS) - v.borrowedFunds) :
              t \in { u \in totalAssets(v, held) : u * MAX_BORROW_RATIO \in Uint } }

borrowUnbooked(v, bal, self, caller, amount) ==
    { [v |-> w, bal |-> Moved(bal, self, caller, amount), ret |-> 0] :
        w \in { u \in {v} :
                  /\ CanPay(bal, self, amount)
                  /\ \E capacity \in borrowCapacityLeft(v, bal[self]) :
                        amount <= capacity } }

borrow(v, bal, self, caller, amount) ==
    { [v   |-> [v EXCEPT !.borrowedFunds = b],
       bal |-> Moved(bal, self, caller, amount),
       ret |-> 0] :
        b \in { f \in Checked(v.borrowedFunds + amount) :
                  /\ CanPay(bal, self, amount)
                  /\ \E capacity \in borrowCapacityLeft(v, bal[self]) :
                        amount <= capacity } }

\* uint256(int256(borrowedFunds) - int256(_amountBorrowed)): the difference is
\* checked as a signed number, the cast back to unsigned is not.
borrowedAfterRefund(borrowed, amountBorrowed) ==
    { Wrapped(d) : d \in CheckedInt(AsInt(borrowed) - AsInt(amountBorrowed)) }

\* sum_ = _amountBorrowed + _interests - _losses, both steps checked.
refundSum(amountBorrowed, interests, losses) ==
    UNION { Checked(gross - losses) : gross \in Checked(amountBorrowed + interests) }

refund(v, bal, self, caller, amountBorrowed, interests, losses) ==
    { [v   |-> [v EXCEPT !.borrowedFunds = b],
       bal |-> Moved(bal, caller, self, sum),
       ret |-> sum] :
        b \in borrowedAfterRefund(v.borrowedFunds, amountBorrowed),
        sum \in { n \in refundSum(amountBorrowed, interests, losses) :
                    CanPay(bal, caller, n) } }
=============================================================================
