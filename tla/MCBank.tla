------------------------------- MODULE MCBank -------------------------------
(* Instances of Bank small enough for TLC. *)
EXTENDS BankHistory, TLC

CONSTANTS deployer, alice, account0, account1, usdc, eur, vaultUSDC, vaultEUR, yearnUSDC

MCAssetOf == (vaultUSDC :> usdc) @@ (vaultEUR :> eur) @@ (yearnUSDC :> usdc)
=============================================================================
