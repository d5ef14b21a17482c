----------------------------- MODULE FixedPoint -----------------------------
(***************************************************************************)
(* EVM integer arithmetic as the contracts use it: checked and unchecked   *)
(* uint256 results, the int256 casts of VaultCeFi.refund, and the mulDiv   *)
(* of solmate's FixedPointMathLib that prices vault shares.                *)
(*                                                                         *)
(* A computation is a SET OF RESULTS: a singleton when it returns, empty   *)
(* when it reverts.  "The call returns r" reads \E r \in call(...).        *)
(***************************************************************************)
EXTENDS Integers

CONSTANT UintMax      \* type(uint256).max, scaled down for model checking

\* An unsigned word has an even number of values, half of them negative as int256.
ASSUME UintMaxAssumption == UintMax \in Nat \ {0} /\ UintMax % 2 = 1

Uint == 0 .. UintMax

\* Checked arithmetic (Solidity 0.8): a result outside the word reverts.
Checked(n) == {n} \cap Uint

\* unchecked { } arithmetic: the result modulo 2^256.
Unwrapped(n) == n

Wrapped(n) == n % (UintMax + 1)

\* int256(x): the two's complement reading of a word.
AsInt(x) == IF 2 * x <= UintMax THEN x ELSE x - (UintMax + 1)

\* int256 subtraction is checked too, on the signed range.
CheckedInt(n) == IF /\ 0 - (UintMax + 1) <= 2 * n
                    /\ 2 * n <= UintMax
                 THEN {n} ELSE {}

\* mulDiv reverts on a zero denominator and when x * y leaves the word.
mulDivDown(x, y, denominator) ==
    IF denominator # 0 /\ x * y \in Uint
    THEN {(x * y) \div denominator}
    ELSE {}

mulDivUp(x, y, denominator) ==
    IF denominator # 0 /\ x * y \in Uint
    THEN {((x * y) \div denominator)
            + IF (x * y) % denominator > 0 THEN 1 ELSE 0}
    ELSE {}
=============================================================================
