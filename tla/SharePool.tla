------------------------------ MODULE SharePool ------------------------------
(***************************************************************************)
(* What a lending vault promises, without its arithmetic: a pool of cash   *)
(* and of loans that belongs to the holders of shares.  No rounding, no    *)
(* machine words, no allowances, no token contract, no callers; VaultCeFi  *)
(* implements it.                                                          *)
(***************************************************************************)
EXTENDS Integers

CONSTANTS
    Holders,               \* who can hold shares
    RatioPart, RatioWhole  \* the part of the pool that may be lent out

VARIABLES
    cash,     \* what the pool holds
    lent,     \* what it has lent out, as its books say
    supply,   \* shares in circulation
    shares    \* shares of every holder

vars == <<cash, lent, supply, shares>>

Worth == cash + lent

Init ==
    /\ cash \in Nat
    /\ lent = 0
    /\ supply = 0
    /\ shares = [h \in Holders |-> 0]

\* Shares are sold at their price or above, and bought back at it or below, when
\* total of them are worth worth.
SoldFor(minted, paid, worth, total) ==
    IF total = 0 THEN minted = paid ELSE minted * worth <= paid * total

BoughtFor(burnt, taken, worth, total) == taken * total <= burnt * worth

\* Money buys new shares.
Enter(h) ==
    LET paid == cash' - cash
        minted == supply' - supply
    IN  /\ paid >= 0 /\ minted >= 0
        /\ SoldFor(minted, paid, Worth, supply)
        /\ shares' = [shares EXCEPT ![h] = @ + minted]
        /\ UNCHANGED lent

\* Shares are given back to the pool.
Leave(h) ==
    LET taken == cash - cash'
        burnt == supply - supply'
    IN  /\ taken >= 0 /\ burnt \in 0 .. shares[h]
        /\ BoughtFor(burnt, taken, Worth, supply)
        /\ shares' = [shares EXCEPT ![h] = @ - burnt]
        /\ UNCHANGED lent

Move(from, to) ==
    LET moved == shares[from] - shares'[from]
    IN  /\ from # to
        /\ moved \in 0 .. shares[from]
        /\ shares' = [shares EXCEPT ![from] = @ - moved, ![to] = @ + moved]
        /\ UNCHANGED <<cash, lent, supply>>

\* A loan is booked in full and within the ratio, loans already out included.
Lend ==
    /\ cash' <= cash
    /\ lent' = lent + (cash - cash')
    /\ lent' * RatioWhole <= Worth * RatioPart
    /\ UNCHANGED <<supply, shares>>

\* Donations and interest.
Gain ==
    /\ cash' >= cash /\ lent' >= lent
    /\ UNCHANGED <<supply, shares>>

\* Loans are repaid or written off: the one step in which shares may lose value.
Settle ==
    /\ cash' >= cash /\ lent' < lent
    /\ UNCHANGED <<supply, shares>>

Next ==
    \/ \E h \in Holders : Enter(h) \/ Leave(h)
    \/ \E g, h \in Holders : Move(g, h)
    \/ Lend \/ Gain \/ Settle

Spec == Init /\ [][Next]_vars

-----------------------------------------------------------------------------
(* A holder that is a contract can call twice in one transaction: it leaves *)
(* and enters again, at the price that leaving made.                        *)

Reenter(h) ==
    \E taken \in 0 .. cash, burnt \in 0 .. shares[h] :
        LET rest == supply - burnt
            paid == cash' - (cash - taken)
            minted == supply' - rest
        IN  /\ BoughtFor(burnt, taken, Worth, supply)
            /\ paid >= 0 /\ minted >= 0
            /\ SoldFor(minted, paid, Worth - taken, rest)
            /\ shares' = [shares EXCEPT ![h] = @ - burnt + minted]
            /\ UNCHANGED lent

BatchNext == Next \/ \E h \in Holders : Reenter(h)

BatchSpec == Init /\ [][BatchNext]_vars
=============================================================================
