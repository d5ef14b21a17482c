-------------------------- MODULE MCUniswapV3Helper -------------------------
(* An instance of UniswapV3Helper small enough for TLC. *)
EXTENDS UniswapV3Helper

CONSTANTS alice, robot, usdc, eur

\* The robot is a contract and an operator of alice's positions.
MCOperatorOf == {<<robot, alice>>}

\* alice has two of the first token, the robot one of the second; the pools
\* trade with what positions bring them.
MCTokens == [x \in Tokens |-> [h \in Holders |->
               CASE x = usdc /\ h = alice -> 2
                 [] x = eur /\ h = robot -> 1
                 [] OTHER -> 0]]

\* Pools that name the pair each time, or in one answer swap it or name none.
Silent == [x \in Tokens |-> Nobody]
Crossed == [x \in Tokens |-> IF x = Token0 THEN Token1 ELSE Token0]
MCPoolAnswers ==
    {HonestPool,
     [HonestPool EXCEPT !.pull = Silent], [HonestPool EXCEPT !.approve = Crossed],
     [HonestPool EXCEPT !.reset = Silent], [HonestPool EXCEPT !.refund = Crossed]}
=============================================================================
