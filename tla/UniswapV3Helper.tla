--------------------------- MODULE UniswapV3Helper --------------------------
(***************************************************************************)
(* The Uniswap helper: two swaps on behalf of a caller, and the custody of *)
(* liquidity positions, which are tokens of the NonfungiblePositionManager.*)
(*                                                                         *)
(* A step is one call of a user.  It is a whole transaction, except when a *)
(* contract retrieves a position: the manager then calls the recipient     *)
(* back in the middle of retrieveNFT, and the steps that contracts take    *)
(* before FinishRetrieve belong to the same transaction.                   *)
(***************************************************************************)
EXTENDS TokenLedger, Sequences, Functions

CONSTANTS
    Users,          \* callers: wallets and contracts
    Contracts,      \* those the manager calls back when they receive a position
    OperatorOf,     \* <<o, h>>: h has approved o for all positions (fixed)
    Nobody,         \* address(0), and any other address without code or key
    Helper,         \* this contract
    Router,         \* SwapRouter
    Manager,        \* NonfungiblePositionManager
    Pool,           \* the pools, which hold the money of swaps and positions
    Token0, Token1, \* the two tokens of the positions
    Positions,      \* token ids
    InitialTokens,  \* token balances at deployment
    Amounts,        \* bound: amounts passed to calls and paid by pools
    Named,          \* bound: addresses that calls name as operator or recipient
    PoolAnswers,    \* bound: how a contract given as _v3Pool answers
    MaxLiquidity,   \* bound: liquidity of a position
    MaxGas          \* bound: calls a contract makes inside a callback

Tokens == {Token0, Token1}
Holders == Users \cup {Helper, Pool, Nobody}

\* mintPosition takes any contract for its _v3Pool and asks it for token0() and
\* token1() again each time it needs them: what it answers for either token when
\* the amounts are pulled, approved, the approvals reset and the rest refunded.
Answers == [Tokens -> Tokens \cup {Nobody}]
Pools == [pull : Answers, approve : Answers, reset : Answers, refund : Answers]

Honest == [x \in Tokens |-> x]
HonestPool == [pull |-> Honest, approve |-> Honest, reset |-> Honest, refund |-> Honest]

ASSUME HelperAssumption ==
    /\ Contracts \subseteq Users
    /\ OperatorOf \subseteq Users \X Users
    /\ Nobody \notin Users \cup Tokens
    /\ Helper \notin Users /\ Pool \notin Users
    /\ Helper # Pool /\ Helper # Nobody /\ Pool # Nobody
    /\ Token0 # Token1
    /\ InitialTokens \in [Tokens -> [Holders -> Nat]]
    /\ Amounts \subseteq Nat
    /\ Named \subseteq Holders
    /\ PoolAnswers \subseteq Pools
    /\ MaxLiquidity \in Nat \ {0}
    /\ MaxGas \in Nat \ {0}

VARIABLES
    deposits,    \* deposits: who a position in custody belongs to
    position,    \* positions of the manager: ERC721 owner, liquidity, tokensOwed
    token,       \* token[x][h]: balance of h at token x
    allowance,   \* allowance[s][x]: what s may take of the helper's x
    callbacks,   \* retrieveNFT calls waiting for their callback, innermost first
    gas          \* calls the running transaction may still make

money == <<token, allowance>>
vars == <<deposits, position, token, allowance, callbacks, gas>>

NoDeposit == [owner |-> Nobody, liquidity |-> 0, tokens |-> {}]
NoPosition == [owner |-> Nobody, liquidity |-> 0, owed |-> [x \in Tokens |-> 0]]

Init ==
    /\ deposits = [id \in Positions |-> NoDeposit]
    /\ position = [id \in Positions |-> NoPosition]
    /\ token = InitialTokens
    /\ allowance = [s \in {Router, Manager} |-> [x \in Tokens |-> 0]]
    /\ callbacks = <<>>
    /\ gas = MaxGas

-----------------------------------------------------------------------------
(* Money.  An amount is a function of the token; a payment is the set of    *)
(* its outcomes, empty when the payer cannot pay.                           *)

Only(x, n) == [y \in Tokens |-> IF y = x THEN n ELSE 0]
Minus(p, q) == [x \in Tokens |-> p[x] - q[x]]
AtMost(p, q) == \A x \in Tokens : p[x] <= q[x]

Zero == [x \in Tokens |-> 0]
Part(amount, S) == [x \in Tokens |-> IF x \in S THEN amount[x] ELSE 0]

\* amount, per side of the pair, in the tokens that a pool answers for the sides.
Side(answer, amount, s, x) == IF answer[s] = x THEN amount[s] ELSE 0
Said(answer, amount) ==
    [x \in Tokens |-> Side(answer, amount, Token0, x) + Side(answer, amount, Token1, x)]

\* approved after the approvals of some sides, Token0's first: the last one for a
\* token stands.
Approve(approved, answer, amount, sides) ==
    [x \in Tokens |-> IF Token1 \in sides /\ answer[Token1] = x THEN amount[Token1]
                      ELSE IF Token0 \in sides /\ answer[Token0] = x THEN amount[Token0]
                      ELSE approved[x]]

Pay(tok, from, to, amount) ==
    IF \A x \in Tokens : CanPay(tok[x], from, amount[x])
    THEN {[x \in Tokens |-> Moved(tok[x], from, to, amount[x])]}
    ELSE {}

\* What the pools hold for themselves: they never pay out what they owe.
Owed(x) == SumFunction([id \in Positions |-> position[id].owed[x]])
Payable ==
    LET spare == [x \in Tokens |-> token[x][Pool] - Owed(x)]
    IN  { p \in [Tokens -> Amounts] : AtMost(p, spare) }

\* Parts of what is offered that the pools take for new liquidity.
Taken(amount) == { p \in [Tokens -> Amounts] :
                     AtMost(p, amount) /\ \E x \in Tokens : p[x] > 0 }

Exists(id) == position[id].owner # Nobody
InCustody(id) == position[id].owner = Helper

\* Who may move a position: its owner and the operators the owner approved.
isApprovedOrOwner(c, id) ==
    c = position[id].owner \/ <<c, position[id].owner>> \in OperatorOf

\* c makes a call.  While a callback runs only contracts do, on the gas that is left.
Running(c) ==
    IF callbacks = <<>> THEN UNCHANGED gas
    ELSE c \in Contracts /\ gas > 0 /\ gas' = gas - 1

-----------------------------------------------------------------------------
(* Swaps *)

\* The router trades used of x for out of y: the pool pays the caller and takes
\* its input from the helper, on the approval approved.
Traded(tok, c, x, y, approved, used, out) ==
    UNION { Pay(paid, Helper, Pool, Only(x, used)) :
              paid \in { p \in Pay(tok, Pool, c, Only(y, out)) : used <= approved } }

\* The pool may take less than amountIn: the rest, and the approval for it, stay.
SwapExactInputSingle(c, x, y, amountIn, amountOutMinimum) ==
    /\ Running(c)
    /\ \E pulled \in Pay(token, c, Helper, Only(x, amountIn)),
          used \in 1 .. amountIn,
          paid \in { p \in Payable : p[y] >= amountOutMinimum } :
          /\ token' \in Traded(pulled, c, x, y, amountIn, used, paid[y])
          /\ allowance' = [allowance EXCEPT ![Router][x] = amountIn - used]
    /\ UNCHANGED <<deposits, position, callbacks>>

RefundAll(amountInMaximum, used) == amountInMaximum
RefundOf(amountInMaximum, used) == amountInMaximum - used

\* The try branch: the router gives exactly amountOut for at most the maximum,
\* the rest is refunded and its approval reset.
SwapExactOutputSucceeds(c, x, y, amountOut, amountInMaximum, pulled) ==
    /\ amountOut > 0 /\ Only(y, amountOut) \in Payable
    /\ \E used \in 1 .. amountInMaximum :
       \E traded \in Traded(pulled, c, x, y, amountInMaximum, used, amountOut) :
          token' \in Pay(traded, Helper, c, Only(x, RefundOf(amountInMaximum, used)))
    /\ allowance' = [allowance EXCEPT ![Router][x] = 0]

\* The catch branch: everything is refunded, the approval stays.
SwapExactOutputFails(c, x, amountInMaximum, pulled) ==
    /\ token' \in Pay(pulled, Helper, c, Only(x, amountInMaximum))
    /\ allowance' = [allowance EXCEPT ![Router][x] = amountInMaximum]

SwapExactOutputSingle(c, x, y, amountOut, amountInMaximum) ==
    /\ Running(c)
    /\ \E pulled \in Pay(token, c, Helper, Only(x, amountInMaximum)) :
          \/ SwapExactOutputSucceeds(c, x, y, amountOut, amountInMaximum, pulled)
          \/ SwapExactOutputFails(c, x, amountInMaximum, pulled)
    /\ UNCHANGED <<deposits, position, callbacks>>

-----------------------------------------------------------------------------
(* Custody *)

\* _createDeposit: the record takes the liquidity of the moment.
NotRecorded(owner, id, liquidity) == deposits
Recorded(owner, id, liquidity) ==
    [deposits EXCEPT ![id] = [owner |-> owner, liquidity |-> liquidity, tokens |-> Tokens]]

\* The handler credits the operator it is told, any address, and does not look at
\* who calls it.  The manager calls it in a safe transfer to the helper.
OnERC721Received(c, operator, id) ==
    /\ Running(c)
    /\ Exists(id)
    /\ deposits' = Recorded(operator, id, position[id].liquidity)
    /\ UNCHANGED <<position, money, callbacks>>

DepositPosition(c, from, id) ==
    /\ Running(c)
    /\ position[id].owner = from /\ from # Helper
    /\ isApprovedOrOwner(c, id)
    /\ position' = [position EXCEPT ![id].owner = Helper]
    /\ deposits' = Recorded(c, id, position[id].liquidity)
    /\ UNCHANGED <<money, callbacks>>

\* A position starts with liquidity and nothing owed to it.
Minted(to) == [owner |-> to, liquidity |-> 1, owed |-> NoPosition.owed]

\* The manager mints to the helper without a callback, so the record is made
\* here.  A side of which nothing is offered is neither pulled nor approved, and
\* one of which nothing is left is neither reset nor refunded.
MintPosition(c, id, amount, pool) ==
    LET approved == Approve(allowance[Manager], pool.approve, amount,
                            { s \in Tokens : amount[s] # 0 })
    IN  /\ Running(c)
        /\ ~Exists(id)
        /\ \E pulled \in Pay(token, c, Helper, Said(pool.pull, amount)),
              used \in { p \in Taken(amount) : AtMost(p, approved) } :
           \E provided \in Pay(pulled, Helper, Pool, used) :
              LET left == Minus(amount, used) IN
              /\ token' \in Pay(provided, Helper, c, Said(pool.refund, left))
              /\ allowance' = [allowance EXCEPT ![Manager] =
                                 Approve(Minus(approved, used), pool.reset, Zero,
                                         { s \in Tokens : left[s] > 0 })]
        /\ position' = [position EXCEPT ![id] = Minted(Helper)]
        /\ deposits' = Recorded(c, id, 1)
        /\ UNCHANGED callbacks

\* _sendToOwner, in the recorded tokens.  Without a record they are address(0),
\* which has no code: the transfers succeed without moving anything.
SentToCaller(tok, c, id, amount) == Pay(tok, Helper, c, Part(amount, deposits[id].tokens))
SentToOwner(tok, c, id, amount) ==
    Pay(tok, Helper, deposits[id].owner, Part(amount, deposits[id].tokens))

\* Anyone may collect for the recorded owner.
CollectAllFees(c, id) ==
    /\ Running(c)
    /\ InCustody(id)
    /\ LET owed == position[id].owed IN
       \E collected \in Pay(token, Pool, Helper, owed) :
          token' \in SentToOwner(collected, c, id, owed)
    /\ position' = [position EXCEPT ![id].owed = NoPosition.owed]
    /\ UNCHANGED <<deposits, allowance, callbacks>>

\* The liquidity that is taken out becomes tokens the pool owes the position.
Decreased(id, liquidity, got) ==
    LET p == position[id]
    IN  [position EXCEPT ![id] =
           [p EXCEPT !.liquidity = p.liquidity - liquidity,
                     !.owed = [x \in Tokens |-> p.owed[x] + got[x]]]]

AnyUser(c, id) == c \in Users
OwnsCurrentDeposit(c, id) ==
    c = deposits[id].owner /\ deposits[id].liquidity = position[id].liquidity
OwnsDeposit(c, id) == c = deposits[id].owner

\* The manager burns no more liquidity than the position has.
Unchecked(id) == 1 .. MaxLiquidity
Burnable(id) == 1 .. position[id].liquidity

\* By the recorded liquidity, whatever the position has now; the record stays.
DecreaseLiquidity(c, id) ==
    /\ Running(c)
    /\ OwnsDeposit(c, id)
    /\ InCustody(id)
    /\ deposits[id].liquidity \in Burnable(id)
    /\ \E got \in Payable : position' = Decreased(id, deposits[id].liquidity, got)
    /\ UNCHANGED <<deposits, money, callbacks>>

\* Open to anyone; what the pool does not take stays with the helper, with the
\* approval for it.  Without a record nothing is pulled or approved, the tokens
\* being address(0), and the manager draws on what an earlier call left.
IncreaseLiquidityCurrentRange(c, id, amount) ==
    LET recorded == deposits[id].tokens
        approved == Approve(allowance[Manager], Honest, amount, recorded)
    IN  /\ Running(c)
        /\ Exists(id) /\ position[id].liquidity < MaxLiquidity
        /\ \E pulled \in Pay(token, c, Helper, Part(amount, recorded)),
              used \in { p \in Taken(amount) : AtMost(p, approved) } :
              /\ token' \in Pay(pulled, Helper, Pool, used)
              /\ allowance' = [allowance EXCEPT ![Manager] = Minus(approved, used)]
        /\ position' = [position EXCEPT ![id].liquidity = @ + 1]
        /\ UNCHANGED <<deposits, callbacks>>

\* The position moves before the record is deleted; a contract is called in
\* between.
RetrieveNFT(c, id) ==
    /\ Running(c)
    /\ OwnsDeposit(c, id)
    /\ InCustody(id)
    /\ position' = [position EXCEPT ![id].owner = c]
    /\ IF c \in Contracts
       THEN callbacks' = <<id>> \o callbacks /\ UNCHANGED deposits
       ELSE deposits' = [deposits EXCEPT ![id] = NoDeposit] /\ UNCHANGED callbacks
    /\ UNCHANGED money

FinishRetrieve ==
    /\ callbacks # <<>>
    /\ deposits' = [deposits EXCEPT ![Head(callbacks)] = NoDeposit]
    /\ callbacks' = Tail(callbacks)
    /\ gas' = IF Tail(callbacks) = <<>> THEN MaxGas ELSE gas
    /\ UNCHANGED <<position, money>>

-----------------------------------------------------------------------------
(* The position manager without the helper: owners and their operators use  *)
(* positions, and anyone may add liquidity to any position.                  *)

\* The recipient is not called back, whoever it is.
ManagerMint(c, to, id, used) ==
    /\ Running(c)
    /\ ~Exists(id)
    /\ used \in Taken(used)
    /\ token' \in Pay(token, c, Pool, used)
    /\ position' = [position EXCEPT ![id] = Minted(to)]
    /\ UNCHANGED <<deposits, allowance, callbacks>>

ManagerIncrease(c, id, used) ==
    /\ Running(c)
    /\ Exists(id) /\ position[id].liquidity < MaxLiquidity
    /\ used \in Taken(used)
    /\ token' \in Pay(token, c, Pool, used)
    /\ position' = [position EXCEPT ![id].liquidity = @ + 1]
    /\ UNCHANGED <<deposits, allowance, callbacks>>

ManagerDecrease(c, id, liquidity) ==
    /\ Running(c)
    /\ isApprovedOrOwner(c, id)
    /\ liquidity \in Burnable(id)
    /\ \E got \in Payable : position' = Decreased(id, liquidity, got)
    /\ UNCHANGED <<deposits, money, callbacks>>

\* All that is owed, to any recipient.  With address(0) for a recipient the manager
\* keeps it; like all that Nobody has, it is gone here.
ManagerCollect(c, to, id) ==
    /\ Running(c)
    /\ isApprovedOrOwner(c, id)
    /\ token' \in Pay(token, Pool, to, position[id].owed)
    /\ position' = [position EXCEPT ![id].owed = NoPosition.owed]
    /\ UNCHANGED <<deposits, allowance, callbacks>>

\* transferFrom does not call the recipient.
TransferPosition(c, from, to, id) ==
    /\ Running(c)
    /\ position[id].owner = from /\ from # Helper
    /\ isApprovedOrOwner(c, id)
    /\ position' = [position EXCEPT ![id].owner = to]
    /\ UNCHANGED <<deposits, money, callbacks>>

\* Trades of others earn fees for a position with liquidity.
EarnFees(id) ==
    /\ callbacks = <<>>
    /\ position[id].liquidity > 0
    /\ \E fees \in Payable : position' = Decreased(id, 0, fees)
    /\ UNCHANGED <<deposits, money, callbacks, gas>>

SwapCall(c) ==
    \E x \in Tokens : \E y \in Tokens \ {x}, n, m \in Amounts :
        \/ SwapExactInputSingle(c, x, y, n, m)
        \/ SwapExactOutputSingle(c, x, y, n, m)

\* Calls that run the helper's custody code.
HelperCall(c) ==
    \E id \in Positions :
        \/ \E from \in Users : DepositPosition(c, from, id)
        \/ \E o \in Named : OnERC721Received(c, o, id)
        \/ CollectAllFees(c, id)
        \/ DecreaseLiquidity(c, id)
        \/ RetrieveNFT(c, id)
        \/ \E amount \in [Tokens -> Amounts] :
              \/ \E pool \in PoolAnswers : MintPosition(c, id, amount, pool)
              \/ IncreaseLiquidityCurrentRange(c, id, amount)

ManagerCall(c) ==
    \E id \in Positions :
        \/ \E used \in [Tokens -> Amounts] :
              \/ \E to \in Named \ {Nobody} : ManagerMint(c, to, id, used)
              \/ ManagerIncrease(c, id, used)
        \/ \E liquidity \in 1 .. MaxLiquidity : ManagerDecrease(c, id, liquidity)
        \/ \E to \in Named : ManagerCollect(c, to, id)
        \/ \E from \in Users, to \in Named \ {Nobody} : TransferPosition(c, from, to, id)

Call(c) == SwapCall(c) \/ HelperCall(c) \/ ManagerCall(c)

Next ==
    \/ \E c \in Users : Call(c)
    \/ FinishRetrieve
    \/ \E id \in Positions : EarnFees(id)

Spec == Init /\ [][Next]_vars

\* A transaction ends, and a depositor who wants a position back keeps asking:
\* others may always be first, so strong fairness.
FairSpec ==
    /\ Spec
    /\ WF_vars(FinishRetrieve)
    /\ \A u \in Users, id \in Positions : SF_vars(RetrieveNFT(u, id))

-----------------------------------------------------------------------------
(* Properties *)

TypeOK ==
    /\ deposits \in [Positions -> [owner : Holders, liquidity : Nat, tokens : {{}, Tokens}]]
    /\ position \in [Positions -> [owner     : Holders,
                                  liquidity : 0 .. MaxLiquidity,
                                  owed      : [Tokens -> Nat]]]
    /\ token \in [Tokens -> [Holders -> Nat]]
    /\ allowance \in [{Router, Manager} -> [Tokens -> Nat]]
    /\ callbacks \in Seq(Positions)
    /\ gas \in 0 .. MaxGas

\* Whose a position is, in custody or not.
Claimant(id) == IF InCustody(id) THEN deposits[id].owner ELSE position[id].owner

\* Nobody but the claimant can make a call that takes a user's position away or
\* liquidity out of it, and an operator can only while the user holds it: custody
\* ends the operator's power.  Two things are let through.  The record of a
\* position that comes back while it is retrieved is deleted after it.  And the
\* handler, which is open to anyone, gives a position in custody to whoever it is
\* told, though never its liquidity in the same call; RecordIsTheDepositors says
\* what the code means there.
MayDispose(c, h, id) ==
    \/ c = h
    \/ <<c, h>> \in OperatorOf /\ ~InCustody(id)

Shrinks(id) == position'[id].liquidity < position[id].liquidity

ClaimIsKept(h, id) ==
    Claimant(id)' # h \/ Shrinks(id) =>
        /\ \A c \in Users :
              \/ MayDispose(c, h, id)
              \/ ~Shrinks(id) /\ \E o \in Named : OnERC721Received(c, o, id)
              \/ ~Call(c)
        /\ FinishRetrieve => ~Shrinks(id) /\ Head(callbacks) = id

ClaimsMoveByConsent ==
    [][\A id \in Positions : Claimant(id) \in Users => ClaimIsKept(Claimant(id), id)]_vars

\* What the pools owe a position in custody goes to its recorded owner in full and
\* to no one else, whoever collects it (without a record, to the helper); only the
\* owner of a position that is not in custody, or an operator, can collect it.
PaidToClaimant(id, x) ==
    LET n == position[id].owed[x] - position'[id].owed[x]
        payee == IF x \in deposits[id].tokens THEN deposits[id].owner ELSE Helper
    IN  n > 0 => IF InCustody(id) THEN token'[x] = Moved(token[x], Pool, payee, n)
                 ELSE \A c \in Users : isApprovedOrOwner(c, id) \/ ~Call(c)

OwedIsPaidToClaimant ==
    [][\A id \in Positions, x \in Tokens : PaidToClaimant(id, x)]_vars

\* The helper's own code never leaves a position in its custody without a record,
\* where its owner could not retrieve it: that takes a transfer or a mint of the
\* manager that does not call the helper back, or a position that is sent back
\* while it is being retrieved.
Stray(id) == InCustody(id) /\ deposits[id].tokens = {}

StrayIsKnown(id) ==
    Stray(id)' /\ ~Stray(id) =>
        /\ \A c \in Users : ~ HelperCall(c)
        /\ FinishRetrieve => Head(callbacks) = id

CustodyIsRecorded == [][\A id \in Positions : StrayIsKnown(id)]_vars

\* A pool that does not name the same pair every time it is asked.
MintsWithLyingPool ==
    \E id \in Positions : ~Exists(id) /\
       \E c \in Users, p \in [Tokens -> Amounts], pool \in PoolAnswers \ {HonestPool} :
          MintPosition(c, id, p, pool)

LeavesRest(x) ==
    \E c \in Users :
        \/ \E y \in Tokens \ {x}, n, m \in Amounts : SwapExactInputSingle(c, x, y, n, m)
        \/ \E id \in Positions :
              \/ /\ x \in deposits[id].tokens
                 /\ \E p \in [Tokens -> Amounts] : IncreaseLiquidityCurrentRange(c, id, p)
              \/ /\ x \notin deposits[id].tokens \/ deposits[id].owner = Helper
                 /\ CollectAllFees(c, id)
              \/ ManagerCollect(c, Helper, id)

SpendsRest(x) ==
    \E c \in Users, id \in Positions, p \in [Tokens -> Amounts] :
        x \notin deposits[id].tokens /\ IncreaseLiquidityCurrentRange(c, id, p)

KeepsOnlyLeftovers(x) ==
    /\ token'[x][Helper] > token[x][Helper] => LeavesRest(x) \/ MintsWithLyingPool
    /\ token'[x][Helper] < token[x][Helper] => SpendsRest(x) \/ MintsWithLyingPool

\* Every call gives back what it took and did not use, and none spends what
\* others left, on the approvals earlier calls left: the helper's tokens grow
\* only by the rest of an exact-input swap or of an increase, by what a position
\* without an owner of its own collects or somebody collects to the helper, and
\* shrink only in an increase without a record.  A mint keeps to this when its
\* _v3Pool names the same pair each time; with one that does not it may do both.
HelperKeepsOnlyLeftovers == [][\A x \in Tokens : KeepsOnlyLeftovers(x)]_vars

\* A depositor who keeps asking gets the position back, whatever others collect,
\* add or retrieve, unless the record changes hands.
DepositsComeBack ==
    \A id \in Positions, u \in Users :
        (InCustody(id) /\ deposits[id].owner = u) ~>
            (position[id].owner = u \/ deposits[id].owner # u)

-----------------------------------------------------------------------------
(* Statements of the source *)

\* "must be the owner of the NFT" (retrieveNFT, decreaseLiquidity): the record
\* those two go by is the depositor's.  While a position stays in custody nobody
\* else's call takes the record away from a user.
RecordIsTheDepositors ==
    [][ \A id \in Positions :
          LET h == deposits[id].owner IN
          h \in Users /\ InCustody(id) /\ InCustody(id)' /\ deposits'[id].owner # h =>
             FinishRetrieve \/ \A c \in Users \ {h} : ~ Call(c) ]_vars
=============================================================================
