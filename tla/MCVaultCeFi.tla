---------------------------- MODULE MCVaultCeFi -----------------------------
(* Instances of VaultCeFi small enough for TLC. *)
EXTENDS VaultCeFi

CONSTANTS deployer, alice, vaultUSDC

\* Three tokens: two with the saver, one with the admin to pay interest from.
MCInitialBalance == [a \in Addresses |->
                        CASE a = vaultUSDC -> 0 [] a = deployer -> 1 [] OTHER -> 2]

\* Two tokens, one with each user, for the runs with allowances.
MCOneEach == [a \in Addresses |-> IF a = vaultUSDC THEN 0 ELSE 1]
=============================================================================
