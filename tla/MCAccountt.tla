----------------------------- MODULE MCAccountt -----------------------------
(* Instances of Accountt small enough for TLC. *)
EXTENDS Accountt, TLC

CONSTANTS deployer, alice, account0, sub0, sub1, sub2, usdc, eur, vaultUSDC, vaultEUR

MCAssetOf == [v \in CeFiVaults \cup DeFiVaults |-> IF v = vaultUSDC THEN usdc ELSE eur]

\* One asset, one token with each user.
MCTokens == [x \in Assets |-> [h \in Holders |->
               IF h \in {alice, deployer} THEN 1 ELSE 0]]

\* One asset: two tokens with each user.
MCTokensShared == [x \in Assets |-> [h \in Holders |->
                     IF h \in {alice, deployer} THEN 2 ELSE 0]]

\* Two assets: the saver has two of the first, the pool one of the second.
MCTokensSwap == [x \in Assets |-> [h \in Holders |->
                   CASE x = usdc /\ h = alice -> 2
                     [] x = eur /\ h = Pool -> 1
                     [] OTHER -> 0]]

\* Sub-accounts other than the default one are interchangeable.
SubSymmetry == Permutations({sub1, sub2})
=============================================================================
