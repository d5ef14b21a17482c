------------------------ MODULE UniswapV3HelperProofs ------------------------
(***************************************************************************)
(* The custody of positions and the money that goes through the helper,    *)
(* proved for every set of wallets, contracts, operators, tokens and       *)
(* positions, every depth of callbacks and every amount.  TypeOK is        *)
(* inductive; with it each step is looked at by itself, also the steps     *)
(* taken inside a callback of retrieveNFT.                                 *)
(***************************************************************************)
EXTENDS UniswapV3Helper, TokenLedgerLemmas, SequenceTheorems

Money == [Tokens -> [Holders -> Nat]]
Amount == [Tokens -> Nat]
Deposit == [owner : Holders, liquidity : Nat, tokens : {{}, Tokens}]
Position == [owner     : Holders,
             liquidity : 0 .. MaxLiquidity,
             owed      : Amount]

\* The steps by kind, for the proofs by cases.
SwapNext == \E c \in Users : SwapCall(c)
HelperNext == \E c \in Users : HelperCall(c)
ManagerNext == \E c \in Users : ManagerCall(c)
FeesNext == \E id \in Positions : EarnFees(id)

LEMMA NextCases ==
    ASSUME Next
    PROVE SwapNext \/ HelperNext \/ ManagerNext \/ FinishRetrieve \/ FeesNext
  BY DEF Next, Call, SwapNext, HelperNext, ManagerNext, FeesNext

\* The parties are distinct.
LEMMA Parties ==
    /\ Users \subseteq Holders /\ Named \subseteq Holders
    /\ Helper \in Holders /\ Pool \in Holders /\ Nobody \in Holders
    /\ Helper \notin Users /\ Nobody \notin Users /\ Nobody # Helper
    /\ Tokens # {} /\ Token0 \in Tokens /\ Token1 \in Tokens
  BY HelperAssumption DEF Holders, Tokens

-----------------------------------------------------------------------------
(* Amounts and payments *)

\* A payment that can be made leaves natural balances.
LEMMA PayType ==
    ASSUME NEW tok \in Money, NEW from \in Holders, NEW to \in Holders,
           NEW amount \in Amount, NEW after \in Pay(tok, from, to, amount)
    PROVE after \in Money
<1>1. /\ \A x \in Tokens : CanPay(tok[x], from, amount[x])
      /\ after = [x \in Tokens |-> Moved(tok[x], from, to, amount[x])]
  BY DEF Pay
<1>2. ASSUME NEW x \in Tokens PROVE Moved(tok[x], from, to, amount[x]) \in [Holders -> Nat]
  <2>1. tok[x] \in [Holders -> Nat] /\ amount[x] \in Nat
    BY DEF Money, Amount
  <2>. QED  BY <1>1, <2>1, MovedBalances
<1>. QED  BY <1>1, <1>2 DEF Money

\* Amounts of one token, of all, and what is left of them.
LEMMA OnlyType == ASSUME NEW x, NEW n \in Nat PROVE Only(x, n) \in Amount
  BY DEF Only, Amount

LEMMA AmountType ==
    /\ [Tokens -> Amounts] \subseteq Amount
    /\ Payable \subseteq Amount
    /\ \A p : Taken(p) \subseteq Amount
<1>1. [Tokens -> Amounts] \subseteq Amount
  BY HelperAssumption DEF Amount
<1>. QED  BY <1>1 DEF Payable, Taken

LEMMA MinusType ==
    ASSUME NEW p \in Amount, NEW q \in Amount, AtMost(q, p)
    PROVE Minus(p, q) \in Amount
  BY DEF Minus, AtMost, Amount

LEMMA PartType == ASSUME NEW p \in Amount, NEW S PROVE Part(p, S) \in Amount
  BY DEF Part, Amount

\* What is pulled and refunded, in the tokens that a pool names.
LEMMA SaidType ==
    ASSUME NEW p \in Amount, NEW answer
    PROVE Said(answer, p) \in Amount
<1>1. p[Token0] \in Nat /\ p[Token1] \in Nat
  BY Parties DEF Amount
<1>2. ASSUME NEW x \in Tokens
      PROVE Side(answer, p, Token0, x) + Side(answer, p, Token1, x) \in Nat
  BY <1>1 DEF Side
<1>. QED  BY <1>2 DEF Said, Amount

LEMMA ApproveType ==
    ASSUME NEW p \in Amount, NEW q \in Amount, NEW answer, NEW sides
    PROVE Approve(p, answer, q, sides) \in Amount
<1>1. q[Token0] \in Nat /\ q[Token1] \in Nat
  BY Parties DEF Amount
<1>. QED  BY <1>1 DEF Approve, Amount

LEMMA ZeroType == Zero \in Amount
  BY DEF Zero, Amount

\* A trade pays out of the pool and takes its input from the helper.
LEMMA TradedType ==
    ASSUME NEW tok \in Money, NEW c \in Users, NEW x, NEW y,
           NEW approved \in Nat, NEW used \in Nat, NEW out \in Nat,
           NEW after \in Traded(tok, c, x, y, approved, used, out)
    PROVE after \in Money
<1>1. PICK paid \in Pay(tok, Pool, c, Only(y, out)) :
          after \in Pay(paid, Helper, Pool, Only(x, used))
  BY DEF Traded
<1>2. paid \in Money
  BY Parties, OnlyType, PayType
<1>. QED  BY <1>1, <1>2, Parties, OnlyType, PayType

-----------------------------------------------------------------------------
(* Every step keeps the money in its type *)

MoneyType == token \in Money /\ allowance \in [{Router, Manager} -> Amount]

\* TypeOK in the terms of this module.
LEMMA Types ==
    ASSUME TypeOK
    PROVE /\ MoneyType
          /\ deposits \in [Positions -> Deposit]
          /\ position \in [Positions -> Position]
          /\ callbacks \in Seq(Positions) /\ gas \in 0 .. MaxGas
  BY DEF TypeOK, MoneyType, Money, Amount, Deposit, Position

\* An exact-input swap: the approval left is what the router did not take.
LEMMA ExactInputMoney ==
    ASSUME TypeOK, NEW c \in Users, NEW x \in Tokens, NEW y \in Tokens, NEW n \in Amounts,
           NEW m \in Amounts, SwapExactInputSingle(c, x, y, n, m)
    PROVE MoneyType'
<1>1. PICK pulled \in Pay(token, c, Helper, Only(x, n)), used \in 1 .. n, paid \in Payable :
          /\ token' \in Traded(pulled, c, x, y, n, used, paid[y])
          /\ allowance' = [allowance EXCEPT ![Router][x] = n - used]
  BY DEF SwapExactInputSingle
<1>2. n \in Nat /\ used \in Nat /\ n - used \in Nat /\ paid[y] \in Nat
  BY AmountType, HelperAssumption DEF Amount
<1>3. pulled \in Money
  BY <1>2, Types, Parties, OnlyType, PayType DEF MoneyType
<1>4. token' \in Money
  BY <1>1, <1>2, <1>3, TradedType
<1>5. allowance' \in [{Router, Manager} -> Amount]
  BY <1>1, <1>2, Types DEF MoneyType, Amount
<1>. QED  BY <1>4, <1>5 DEF MoneyType

\* An exact-output swap, in both branches.
LEMMA ExactOutputMoney ==
    ASSUME TypeOK, NEW c \in Users, NEW x \in Tokens, NEW y \in Tokens, NEW n \in Amounts,
           NEW m \in Amounts, SwapExactOutputSingle(c, x, y, n, m)
    PROVE MoneyType'
<1>1. PICK pulled \in Pay(token, c, Helper, Only(x, m)) :
          \/ SwapExactOutputSucceeds(c, x, y, n, m, pulled)
          \/ SwapExactOutputFails(c, x, m, pulled)
  BY DEF SwapExactOutputSingle
<1>2. n \in Nat /\ m \in Nat
  BY HelperAssumption
<1>3. pulled \in Money
  BY <1>2, Types, Parties, OnlyType, PayType DEF MoneyType
<1>4. CASE SwapExactOutputSucceeds(c, x, y, n, m, pulled)
  <2>. PICK used \in 1 .. m : \E traded \in Traded(pulled, c, x, y, m, used, n) :
            token' \in Pay(traded, Helper, c, Only(x, RefundOf(m, used)))
    BY <1>4 DEF SwapExactOutputSucceeds
  <2>1. PICK traded \in Traded(pulled, c, x, y, m, used, n) :
            token' \in Pay(traded, Helper, c, Only(x, RefundOf(m, used)))
    OBVIOUS
  <2>2. used \in Nat /\ RefundOf(m, used) \in Nat
    BY <1>2 DEF RefundOf
  <2>3. traded \in Money
    BY <1>2, <1>3, <2>2, TradedType
  <2>4. token' \in Money
    BY <2>1, <2>2, <2>3, Parties, OnlyType, PayType
  <2>5. allowance' \in [{Router, Manager} -> Amount]
    BY <1>4, Types DEF SwapExactOutputSucceeds, MoneyType, Amount
  <2>. QED  BY <2>4, <2>5 DEF MoneyType
<1>5. CASE SwapExactOutputFails(c, x, m, pulled)
  <2>1. token' \in Money
    BY <1>2, <1>3, <1>5, Parties, OnlyType, PayType DEF SwapExactOutputFails
  <2>2. allowance' \in [{Router, Manager} -> Amount]
    BY <1>2, <1>5, Types DEF SwapExactOutputFails, MoneyType, Amount
  <2>. QED  BY <2>1, <2>2 DEF MoneyType
<1>. QED  BY <1>1, <1>4, <1>5

\* Minting through the helper, whatever tokens the pool names.
LEMMA MintMoney ==
    ASSUME TypeOK, NEW c \in Users, NEW id \in Positions, NEW amount \in [Tokens -> Amounts],
           NEW pool, MintPosition(c, id, amount, pool)
    PROVE MoneyType'
<1>. DEFINE approved == Approve(allowance[Manager], pool.approve, amount,
                                { s \in Tokens : amount[s] # 0 })
<1>. PICK pulled \in Pay(token, c, Helper, Said(pool.pull, amount)),
          used \in { p \in Taken(amount) : AtMost(p, approved) } :
        \E provided \in Pay(pulled, Helper, Pool, used) :
            /\ token' \in Pay(provided, Helper, c, Said(pool.refund, Minus(amount, used)))
            /\ allowance' = [allowance EXCEPT ![Manager] =
                               Approve(Minus(approved, used), pool.reset, Zero,
                                       { s \in Tokens : Minus(amount, used)[s] > 0 })]
  BY DEF MintPosition
<1>1. PICK provided \in Pay(pulled, Helper, Pool, used) :
          token' \in Pay(provided, Helper, c, Said(pool.refund, Minus(amount, used)))
  OBVIOUS
<1>2. amount \in Amount /\ used \in Amount /\ AtMost(used, amount)
  BY AmountType DEF Taken
<1>3. Minus(amount, used) \in Amount
  BY <1>2, MinusType
<1>4. allowance[Manager] \in Amount
  BY Types DEF MoneyType
<1>5. approved \in Amount /\ AtMost(used, approved)
  BY <1>2, <1>4, ApproveType
<1>6. Minus(approved, used) \in Amount
  BY <1>2, <1>5, MinusType
<1>7. pulled \in Money
  BY <1>2, SaidType, Types, Parties, PayType DEF MoneyType
<1>8. provided \in Money
  BY <1>2, <1>7, Parties, PayType
<1>9. token' \in Money
  BY <1>1, <1>3, <1>8, SaidType, Parties, PayType
<1>. HIDE DEF approved
<1>10. allowance' \in [{Router, Manager} -> Amount]
  <2>. DEFINE after == Approve(Minus(approved, used), pool.reset, Zero,
                               { s \in Tokens : Minus(amount, used)[s] > 0 })
  <2>1. after \in Amount
    BY <1>6, ZeroType, ApproveType
  <2>2. allowance' = [allowance EXCEPT ![Manager] = after]
    OBVIOUS
  <2>. HIDE DEF after
  <2>. QED  BY <2>1, <2>2, Types DEF MoneyType
<1>. QED  BY <1>9, <1>10 DEF MoneyType

\* Adding liquidity takes no more than is approved, with and without a record.
LEMMA IncreaseMoney ==
    ASSUME TypeOK, NEW c \in Users, NEW id \in Positions, NEW amount \in [Tokens -> Amounts],
           IncreaseLiquidityCurrentRange(c, id, amount)
    PROVE MoneyType'
<1>. DEFINE recorded == deposits[id].tokens
            approved == Approve(allowance[Manager], Honest, amount, recorded)
<1>1. PICK pulled \in Pay(token, c, Helper, Part(amount, recorded)),
           used \in { p \in Taken(amount) : AtMost(p, approved) } :
          /\ token' \in Pay(pulled, Helper, Pool, used)
          /\ allowance' = [allowance EXCEPT ![Manager] = Minus(approved, used)]
  BY DEF IncreaseLiquidityCurrentRange
<1>2. amount \in Amount /\ used \in Amount /\ allowance[Manager] \in Amount
  BY AmountType, Types DEF MoneyType
<1>3. approved \in Amount /\ AtMost(used, approved)
  BY <1>2, ApproveType
<1>. HIDE DEF approved, recorded
<1>4. pulled \in Money
  BY <1>2, PartType, Types, Parties, PayType DEF MoneyType
<1>5. token' \in Money
  BY <1>1, <1>2, <1>4, Parties, PayType
<1>6. Minus(approved, used) \in Amount
  BY <1>2, <1>3, MinusType
<1>. QED  BY <1>1, <1>5, <1>6, Types DEF MoneyType

\* What a position is owed is an amount, so that it can be collected.
LEMMA CollectMoney ==
    ASSUME TypeOK, NEW c \in Users, NEW id \in Positions, CollectAllFees(c, id)
    PROVE MoneyType'
<1>. DEFINE owed == position[id].owed
            sent == Part(owed, deposits[id].tokens)
<1>1. PICK collected \in Pay(token, Pool, Helper, owed) :
          token' \in Pay(collected, Helper, deposits[id].owner, sent)
  BY DEF CollectAllFees, SentToOwner
<1>2. owed \in Amount /\ sent \in Amount /\ deposits[id].owner \in Holders
  BY Types, PartType DEF Position, Deposit
<1>. HIDE DEF owed, sent
<1>3. collected \in Money
  BY <1>2, Types, Parties, PayType DEF MoneyType
<1>4. token' \in Money
  BY <1>1, <1>2, <1>3, Parties, PayType
<1>. QED  BY <1>4, Types DEF CollectAllFees, MoneyType

\* Callers of the manager pay the pools, and the pools pay anyone.
LEMMA ManagerMoney ==
    ASSUME TypeOK, NEW to \in Holders, NEW amount \in Amount, UNCHANGED allowance,
           token' \in Pay(token, to, Pool, amount) \/ token' \in Pay(token, Pool, to, amount)
    PROVE MoneyType'
<1>1. token' \in Money
  BY Types, Parties, PayType DEF MoneyType
<1>. QED  BY <1>1, Types DEF MoneyType

\* The calls that leave the money alone.
LEMMA HelperMoney ==
    ASSUME NEW c \in Users, HelperCall(c)
    PROVE \/ UNCHANGED money
          \/ \E id \in Positions : CollectAllFees(c, id)
          \/ \E id \in Positions, amount \in [Tokens -> Amounts] :
                \/ \E pool \in PoolAnswers : MintPosition(c, id, amount, pool)
                \/ IncreaseLiquidityCurrentRange(c, id, amount)
  BY DEF HelperCall, DepositPosition, OnERC721Received, DecreaseLiquidity, RetrieveNFT

LEMMA ManagerCallMoney ==
    ASSUME NEW c \in Users, ManagerCall(c)
    PROVE \/ UNCHANGED money
          \/ \E id \in Positions, used \in [Tokens -> Amounts] :
                \/ \E to \in Named \ {Nobody} : ManagerMint(c, to, id, used)
                \/ ManagerIncrease(c, id, used)
          \/ \E id \in Positions, to \in Named : ManagerCollect(c, to, id)
  BY DEF ManagerCall, ManagerDecrease, TransferPosition

\* Every step.
LEMMA NextMoney == ASSUME TypeOK, Next PROVE MoneyType'
<1>1. CASE UNCHANGED money
  BY <1>1, Types DEF money, MoneyType
<1>2. CASE SwapNext
  BY <1>2, ExactInputMoney, ExactOutputMoney DEF SwapNext, SwapCall
<1>3. CASE HelperNext
  BY <1>1, <1>3, HelperMoney, CollectMoney, MintMoney, IncreaseMoney DEF HelperNext
<1>4. CASE ManagerNext
  <2>1. ASSUME NEW c \in Users, NEW id \in Positions, NEW used \in [Tokens -> Amounts],
               \/ \E to \in Named \ {Nobody} : ManagerMint(c, to, id, used)
               \/ ManagerIncrease(c, id, used)
        PROVE MoneyType'
    <3>1. used \in Amount /\ c \in Holders
      BY AmountType, Parties
    <3>2. UNCHANGED allowance /\ token' \in Pay(token, c, Pool, used)
      BY <2>1 DEF ManagerMint, ManagerIncrease
    <3>. QED  BY <3>1, <3>2, ManagerMoney
  <2>2. ASSUME NEW c \in Users, NEW id \in Positions, NEW to \in Named,
               ManagerCollect(c, to, id)
        PROVE MoneyType'
    <3>1. position[id].owed \in Amount /\ to \in Holders
      BY Types, Parties DEF Position
    <3>. QED  BY <2>2, <3>1, ManagerMoney DEF ManagerCollect
  <2>. QED  BY <1>1, <1>4, <2>1, <2>2, ManagerCallMoney DEF ManagerNext
<1>5. CASE FinishRetrieve \/ FeesNext
  BY <1>1, <1>5 DEF FinishRetrieve, FeesNext, EarnFees
<1>. QED  BY <1>2, <1>3, <1>4, <1>5, NextCases

\* A caller is never the helper, nor an operator of anyone but a user.
LEMMA Callers ==
    ASSUME NEW c \in Users, NEW id \in Positions, isApprovedOrOwner(c, id)
    PROVE position[id].owner \in Users /\ ~InCustody(id) /\ Exists(id)
  BY HelperAssumption, Parties DEF isApprovedOrOwner, InCustody, Exists

-----------------------------------------------------------------------------
(* What a step does to positions and records.  An action touches one        *)
(* position, the one it names.                                              *)

\* Only the position id is written.
Writes(id) ==
    /\ position' \in [Positions -> Position]
    /\ \A i \in Positions \ {id} : position'[i] = position[i]

\* Liquidity is taken out within what the position has, fees are added.
LEMMA DecreasedEffect ==
    ASSUME TypeOK, NEW id \in Positions, NEW n \in 0 .. position[id].liquidity,
           NEW got \in Amount, position' = Decreased(id, n, got)
    PROVE /\ Writes(id)
          /\ position'[id].owner = position[id].owner
          /\ position'[id].liquidity = position[id].liquidity - n
<1>. DEFINE p == position[id]
            q == [p EXCEPT !.liquidity = p.liquidity - n,
                           !.owed = [x \in Tokens |-> p.owed[x] + got[x]]]
<1>1. position \in [Positions -> Position] /\ p \in Position
  BY Types
<1>2. position' = [position EXCEPT ![id] = q]
  BY DEF Decreased
<1>3. p.liquidity - n \in 0 .. MaxLiquidity
  BY <1>1, HelperAssumption DEF Position
<1>4. [x \in Tokens |-> p.owed[x] + got[x]] \in Amount
  BY <1>1 DEF Position, Amount
<1>5. q \in Position /\ q.owner = p.owner /\ q.liquidity = p.liquidity - n
  BY <1>1, <1>3, <1>4 DEF Position
<1>. HIDE DEF q
<1>. QED  BY <1>1, <1>2, <1>5 DEF Writes

\* A position changes hands.
LEMMA MovedEffect ==
    ASSUME TypeOK, NEW id \in Positions, NEW to \in Holders,
           position' = [position EXCEPT ![id].owner = to]
    PROVE /\ Writes(id)
          /\ position'[id].owner = to
          /\ position'[id].liquidity = position[id].liquidity
  BY Types DEF Writes, Position

\* What is owed is collected.
LEMMA CollectedEffect ==
    ASSUME TypeOK, NEW id \in Positions,
           position' = [position EXCEPT ![id].owed = NoPosition.owed]
    PROVE /\ Writes(id)
          /\ position'[id].owner = position[id].owner
          /\ position'[id].liquidity = position[id].liquidity
<1>. DEFINE nothing == NoPosition.owed
<1>1. nothing \in Amount
  BY DEF NoPosition, Amount
<1>. HIDE DEF nothing
<1>2. position' = [position EXCEPT ![id].owed = nothing]
  BY DEF nothing
<1>. QED  BY <1>1, <1>2, Types DEF Writes, Position

\* Liquidity is added.
LEMMA IncreasedEffect ==
    ASSUME TypeOK, NEW id \in Positions, position[id].liquidity < MaxLiquidity,
           position' = [position EXCEPT ![id].liquidity = position[id].liquidity + 1]
    PROVE /\ Writes(id)
          /\ position'[id].owner = position[id].owner
          /\ position'[id].liquidity = position[id].liquidity + 1
<1>. DEFINE p == position[id]
            n == p.liquidity + 1
<1>1. position \in [Positions -> Position] /\ p \in Position
  BY Types
<1>2. n \in 0 .. MaxLiquidity
  BY <1>1, HelperAssumption DEF Position
<1>3. position' = [position EXCEPT ![id].liquidity = n]
  OBVIOUS
<1>. HIDE DEF n
<1>4. /\ position' \in [Positions -> Position]
      /\ position'[id].owner = p.owner
      /\ position'[id].liquidity = n
      /\ \A i \in Positions \ {id} : position'[i] = position[i]
  BY <1>1, <1>2, <1>3 DEF Position
<1>. QED  BY <1>4 DEF Writes, n

\* A position is minted, to anyone.
LEMMA MintedEffect ==
    ASSUME TypeOK, NEW id \in Positions, NEW to \in Holders,
           position' = [position EXCEPT ![id] = Minted(to)]
    PROVE Writes(id) /\ position'[id].owner = to /\ position'[id].liquidity = 1
<1>. DEFINE nothing == [x \in Tokens |-> 0]
<1>1. nothing \in Amount /\ 1 \in 0 .. MaxLiquidity
  BY HelperAssumption DEF Amount
<1>2. Minted(to) = [owner |-> to, liquidity |-> 1, owed |-> nothing]
  BY DEF Minted, NoPosition
<1>. HIDE DEF nothing
<1>3. Minted(to) \in Position /\ Minted(to).owner = to /\ Minted(to).liquidity = 1
  BY <1>1, <1>2 DEF Position
<1>. QED  BY <1>3, Types DEF Writes

\* A record is written for anyone, or deleted.
LEMMA RecordType ==
    ASSUME TypeOK, NEW id \in Positions, NEW owner \in Holders, NEW n \in Nat
    PROVE /\ Recorded(owner, id, n) \in [Positions -> Deposit]
          /\ [deposits EXCEPT ![id] = NoDeposit] \in [Positions -> Deposit]
          /\ Recorded(owner, id, n)[id] = [owner |-> owner, liquidity |-> n, tokens |-> Tokens]
          /\ \A i \in Positions \ {id} : Recorded(owner, id, n)[i] = deposits[i]
  BY Types, Parties DEF Recorded, Deposit, NoDeposit

\* The liquidity a record takes over is a number, and no more than the maximum.
LEMMA LiquidityType ==
    ASSUME TypeOK, NEW id \in Positions
    PROVE position[id].liquidity \in Nat /\ position[id].liquidity <= MaxLiquidity
  BY Types, HelperAssumption DEF Position

-----------------------------------------------------------------------------
(* What the calls of c do to the types, the claims and the records.  Only   *)
(* those of the position a call names need a look.                          *)

CustodyTypes ==
    /\ position' \in [Positions -> Position]
    /\ deposits' \in [Positions -> Deposit]

\* c takes nothing of id from a user without being allowed to.
ClaimFor(c, id) ==
    Claimant(id) \in Users /\ (Claimant(id)' # Claimant(id) \/ Shrinks(id)) =>
        \/ MayDispose(c, Claimant(id), id)
        \/ ~Shrinks(id) /\ \E o \in Named : OnERC721Received(c, o, id)

NoNewStray(id) == Stray(id)' => Stray(id)

\* Nothing about the claim is touched.
Untouched(id) == Claimant(id)' = Claimant(id) /\ ~Shrinks(id) /\ NoNewStray(id)

ClaimsKept(c) == CustodyTypes /\ \A i \in Positions : ClaimFor(c, i)
RecordsKept == \A i \in Positions : NoNewStray(i)

\* Only the record of id is written.
WritesRecord(id) ==
    /\ deposits' \in [Positions -> Deposit]
    /\ \A i \in Positions \ {id} : deposits'[i] = deposits[i]

\* A position that keeps its owner, its record and its liquidity, or gets more.
LEMMA SameClaim ==
    ASSUME NEW id \in Positions,
           position'[id].owner = position[id].owner,
           ~(position'[id].liquidity < position[id].liquidity),
           deposits'[id] = deposits[id]
    PROVE Untouched(id)
<1>1. InCustody(id)' <=> InCustody(id)
  BY DEF InCustody
<1>2. Claimant(id)' = Claimant(id)
  BY <1>1 DEF Claimant
<1>3. Stray(id)' <=> Stray(id)
  BY <1>1 DEF Stray
<1>. QED  BY <1>2, <1>3 DEF Untouched, NoNewStray, Shrinks

\* The other positions are untouched.
LEMMA OthersUntouched ==
    ASSUME TypeOK, NEW id \in Positions, Writes(id), WritesRecord(id)
    PROVE CustodyTypes /\ \A i \in Positions \ {id} : Untouched(i)
<1>1. CustodyTypes
  BY DEF Writes, WritesRecord, CustodyTypes
<1>2. ASSUME NEW i \in Positions \ {id} PROVE Untouched(i)
  <2>1. position'[i] = position[i] /\ deposits'[i] = deposits[i]
    BY DEF Writes, WritesRecord
  <2>2. position[i].liquidity \in Nat
    BY LiquidityType
  <2>3. ~(position'[i].liquidity < position[i].liquidity)
    BY <2>1, <2>2
  <2>. QED  BY <2>1, <2>3, SameClaim
<1>. QED  BY <1>1, <1>2

LEMMA KeptByOne ==
    ASSUME TypeOK, NEW c, NEW id \in Positions, Writes(id), WritesRecord(id), ClaimFor(c, id)
    PROVE ClaimsKept(c) /\ (NoNewStray(id) => RecordsKept)
  BY OthersUntouched DEF Untouched, ClaimFor, ClaimsKept, RecordsKept

\* No claim is touched by anyone who leaves all of them alone.
LEMMA AllUntouched ==
    ASSUME CustodyTypes, \A i \in Positions : Untouched(i)
    PROVE RecordsKept /\ \A c : ClaimsKept(c)
  BY DEF Untouched, ClaimFor, ClaimsKept, RecordsKept

\* No position and no record changes: swaps.
LEMMA UntouchedByNone ==
    ASSUME TypeOK, UNCHANGED <<deposits, position>>
    PROVE CustodyTypes /\ \A i \in Positions : Untouched(i)
<1>1. CustodyTypes
  BY Types DEF CustodyTypes
<1>2. ASSUME NEW i \in Positions PROVE Untouched(i)
  <2>1. position[i].liquidity \in Nat
    BY LiquidityType
  <2>2. ~(position'[i].liquidity < position[i].liquidity)
    BY <2>1
  <2>. QED  BY <2>2, SameClaim
<1>. QED  BY <1>1, <1>2

\* Collecting, adding liquidity and earning fees touch no claim.
LEMMA UntouchedByQuiet ==
    ASSUME TypeOK, NEW id \in Positions, Writes(id), UNCHANGED deposits,
           position'[id].owner = position[id].owner,
           ~(position'[id].liquidity < position[id].liquidity)
    PROVE CustodyTypes /\ \A i \in Positions : Untouched(i)
<1>1. WritesRecord(id)
  BY Types DEF WritesRecord
<1>2. Untouched(id)
  BY SameClaim
<1>. QED  BY <1>1, <1>2, OthersUntouched

LEMMA CollectKeeps ==
    ASSUME TypeOK, NEW id \in Positions, UNCHANGED deposits,
           position' = [position EXCEPT ![id].owed = NoPosition.owed]
    PROVE RecordsKept /\ \A c : ClaimsKept(c)
<1>1. position[id].liquidity \in Nat
  BY LiquidityType
<1>2. /\ Writes(id)
      /\ position'[id].owner = position[id].owner
      /\ position'[id].liquidity = position[id].liquidity
  BY CollectedEffect
<1>3. ~(position'[id].liquidity < position[id].liquidity)
  BY <1>1, <1>2
<1>. QED  BY <1>2, <1>3, UntouchedByQuiet, AllUntouched

LEMMA IncreaseKeeps ==
    ASSUME TypeOK, NEW id \in Positions, UNCHANGED deposits,
           position[id].liquidity < MaxLiquidity,
           position' = [position EXCEPT ![id].liquidity = position[id].liquidity + 1]
    PROVE RecordsKept /\ \A c : ClaimsKept(c)
<1>1. position[id].liquidity \in Nat
  BY LiquidityType
<1>2. /\ Writes(id)
      /\ position'[id].owner = position[id].owner
      /\ position'[id].liquidity = position[id].liquidity + 1
  BY IncreasedEffect
<1>3. ~(position'[id].liquidity < position[id].liquidity)
  BY <1>1, <1>2
<1>. QED  BY <1>2, <1>3, UntouchedByQuiet, AllUntouched

LEMMA FeesKeep == ASSUME TypeOK, NEW id \in Positions, EarnFees(id) PROVE CustodyTypes
<1>1. PICK fees \in Payable : position' = Decreased(id, 0, fees)
  BY DEF EarnFees
<1>2. position[id].liquidity \in Nat /\ fees \in Amount
  BY LiquidityType, AmountType
<1>3. Writes(id)
  BY <1>1, <1>2, DecreasedEffect
<1>. QED  BY <1>3, Types DEF Writes, EarnFees, CustodyTypes

\* Liquidity is taken out by the depositor, or by the owner or an operator.
LEMMA DecreaseKeeps ==
    ASSUME TypeOK, NEW c \in Users, NEW id \in Positions, NEW n \in 1 .. MaxLiquidity,
           (DecreaseLiquidity(c, id) /\ n = deposits[id].liquidity) \/ ManagerDecrease(c, id, n)
    PROVE ClaimsKept(c) /\ RecordsKept
<1>1. PICK got \in Payable : position' = Decreased(id, n, got)
  BY DEF DecreaseLiquidity, ManagerDecrease
<1>2. position[id].liquidity \in Nat /\ got \in Amount /\ n \in 0 .. position[id].liquidity
  BY LiquidityType, AmountType DEF DecreaseLiquidity, ManagerDecrease, Burnable
<1>3. Writes(id) /\ position'[id].owner = position[id].owner
  BY <1>1, <1>2, DecreasedEffect
<1>4. UNCHANGED deposits /\ WritesRecord(id)
  BY Types DEF WritesRecord, DecreaseLiquidity, ManagerDecrease
<1>5. MayDispose(c, Claimant(id), id)
  BY Parties, Callers
     DEF Claimant, InCustody, DecreaseLiquidity, ManagerDecrease, OwnsDeposit, MayDispose,
         isApprovedOrOwner
<1>6. Stray(id)' <=> Stray(id)
  BY <1>3, <1>4 DEF InCustody, Stray
<1>7. ClaimFor(c, id) /\ NoNewStray(id)
  BY <1>5, <1>6 DEF ClaimFor, NoNewStray
<1>. QED  BY <1>3, <1>4, <1>7, KeptByOne

\* A new record is not the missing one.
LEMMA NewRecord ==
    ASSUME TypeOK, NEW owner \in Holders, NEW id \in Positions, NEW n \in Nat,
           deposits' = Recorded(owner, id, n)
    PROVE WritesRecord(id) /\ NoNewStray(id)
<1>1. /\ WritesRecord(id)
      /\ deposits'[id] = [owner |-> owner, liquidity |-> n, tokens |-> Tokens]
  BY RecordType DEF WritesRecord
<1>2. deposits'[id].tokens # {}
  BY <1>1, Parties
<1>. QED  BY <1>1, <1>2 DEF Stray, NoNewStray

\* A deposit and a transfer, by the owner or an operator of the owner.
LEMMA DepositKeeps ==
    ASSUME TypeOK, NEW c \in Users, NEW from \in Users, NEW id \in Positions,
           DepositPosition(c, from, id)
    PROVE ClaimsKept(c) /\ RecordsKept
<1>1. position[id].liquidity \in Nat /\ Writes(id)
  BY LiquidityType, MovedEffect, Parties DEF DepositPosition
<1>2. WritesRecord(id) /\ NoNewStray(id)
  BY <1>1, NewRecord, Parties DEF DepositPosition
<1>3. MayDispose(c, Claimant(id), id)
  BY DEF Claimant, InCustody, MayDispose, DepositPosition, isApprovedOrOwner
<1>4. ClaimFor(c, id)
  BY <1>3 DEF ClaimFor
<1>. QED  BY <1>1, <1>2, <1>4, KeptByOne

LEMMA TransferKeeps ==
    ASSUME TypeOK, NEW c \in Users, NEW from \in Users, NEW to \in Holders,
           NEW id \in Positions, TransferPosition(c, from, to, id)
    PROVE ClaimsKept(c)
<1>1. Writes(id)
  BY MovedEffect DEF TransferPosition
<1>2. WritesRecord(id)
  BY Types DEF WritesRecord, TransferPosition
<1>3. MayDispose(c, Claimant(id), id)
  BY DEF Claimant, InCustody, MayDispose, TransferPosition, isApprovedOrOwner
<1>4. ClaimFor(c, id)
  BY <1>3 DEF ClaimFor
<1>. QED  BY <1>1, <1>2, <1>4, KeptByOne

\* A record written from outside, without touching the position.
LEMMA HandlerKeeps ==
    ASSUME TypeOK, NEW c \in Users, NEW o \in Named, NEW id \in Positions,
           OnERC721Received(c, o, id)
    PROVE ClaimsKept(c) /\ RecordsKept
<1>1. position[id].liquidity \in Nat /\ UNCHANGED position /\ Writes(id)
  BY LiquidityType, Types DEF Writes, OnERC721Received
<1>2. WritesRecord(id) /\ NoNewStray(id)
  BY <1>1, NewRecord, Parties DEF OnERC721Received
<1>3. ~Shrinks(id)
  BY <1>1 DEF Shrinks
<1>4. ClaimFor(c, id)
  BY <1>3 DEF ClaimFor
<1>. QED  BY <1>1, <1>2, <1>4, KeptByOne

\* A new position belonged to nobody.
LEMMA MintKeeps ==
    ASSUME TypeOK, NEW c \in Users, NEW id \in Positions, ~Exists(id),
           NEW to \in Holders, position' = [position EXCEPT ![id] = Minted(to)],
           deposits' = Recorded(c, id, 1) \/ UNCHANGED deposits
    PROVE ClaimsKept(c) /\ (deposits' = Recorded(c, id, 1) => RecordsKept)
<1>1. Writes(id)
  BY MintedEffect
<1>2. WritesRecord(id) /\ (deposits' = Recorded(c, id, 1) => NoNewStray(id))
  BY NewRecord, Parties, Types DEF WritesRecord
<1>3. Claimant(id) = Nobody
  BY Parties DEF Claimant, InCustody, Exists
<1>4. ClaimFor(c, id)
  BY <1>3, Parties DEF ClaimFor
<1>. QED  BY <1>1, <1>2, <1>4, KeptByOne

\* A depositor takes the position back, with the record or leaving it for the
\* end of the callback.
LEMMA RetrieveKeeps ==
    ASSUME TypeOK, NEW c \in Users, NEW id \in Positions, RetrieveNFT(c, id)
    PROVE ClaimsKept(c) /\ RecordsKept
<1>1. Writes(id) /\ position'[id].owner = c
  BY MovedEffect, Parties DEF RetrieveNFT
<1>2. deposits' = deposits \/ deposits' = [deposits EXCEPT ![id] = NoDeposit]
  BY DEF RetrieveNFT
<1>3. WritesRecord(id)
  BY <1>2, RecordType, Parties, Types DEF WritesRecord
<1>4. Claimant(id) = c /\ NoNewStray(id)
  BY <1>1, Parties DEF Claimant, InCustody, Stray, NoNewStray, RetrieveNFT, OwnsDeposit
<1>5. ClaimFor(c, id)
  BY <1>4 DEF ClaimFor, MayDispose
<1>. QED  BY <1>1, <1>3, <1>4, <1>5, KeptByOne

\* The record is deleted after the callback, in which the position may have come
\* back.
LEMMA FinishKeeps ==
    ASSUME TypeOK, FinishRetrieve
    PROVE /\ CustodyTypes
          /\ \A i \in Positions : ~Shrinks(i) /\ (Untouched(i) \/ Head(callbacks) = i)
<1>1. PICK id \in Positions : id = Head(callbacks)
  BY Types DEF FinishRetrieve
<1>2. UNCHANGED position /\ deposits' = [deposits EXCEPT ![id] = NoDeposit]
  BY <1>1 DEF FinishRetrieve
<1>3. WritesRecord(id)
  BY <1>2, RecordType, Parties, Types DEF WritesRecord
<1>4. Writes(id)
  BY <1>2, Types DEF Writes
<1>5. ASSUME NEW i \in Positions PROVE ~Shrinks(i)
  <2>1. position[i].liquidity \in Nat
    BY LiquidityType
  <2>. QED  BY <1>2, <2>1 DEF Shrinks
<1>. QED  BY <1>1, <1>3, <1>4, <1>5, OthersUntouched

-----------------------------------------------------------------------------
(* Every step *)

LEMMA SwapKeeps == ASSUME TypeOK, SwapNext PROVE RecordsKept /\ \A c : ClaimsKept(c)
  BY UntouchedByNone, AllUntouched
     DEF SwapNext, SwapCall, SwapExactInputSingle, SwapExactOutputSingle

LEMMA HelperKeeps ==
    ASSUME TypeOK, NEW c \in Users, HelperCall(c)
    PROVE ClaimsKept(c) /\ RecordsKept
<1>1. ASSUME NEW id \in Positions, CollectAllFees(c, id) PROVE ClaimsKept(c) /\ RecordsKept
  BY <1>1, CollectKeeps DEF CollectAllFees
<1>2. ASSUME NEW id \in Positions, DecreaseLiquidity(c, id) PROVE ClaimsKept(c) /\ RecordsKept
  <2>1. deposits[id].liquidity \in 1 .. MaxLiquidity
    BY <1>2, LiquidityType, HelperAssumption DEF DecreaseLiquidity, Burnable
  <2>. QED  BY <1>2, <2>1, DecreaseKeeps
<1>3. ASSUME NEW id \in Positions, NEW amount, NEW pool, MintPosition(c, id, amount, pool)
      PROVE ClaimsKept(c) /\ RecordsKept
  <2>1. /\ ~Exists(id) /\ position' = [position EXCEPT ![id] = Minted(Helper)]
        /\ deposits' = Recorded(c, id, 1)
    BY <1>3 DEF MintPosition
  <2>. QED  BY <2>1, MintKeeps, Parties
<1>4. ASSUME NEW id \in Positions, NEW amount, IncreaseLiquidityCurrentRange(c, id, amount)
      PROVE ClaimsKept(c) /\ RecordsKept
  BY <1>4, IncreaseKeeps DEF IncreaseLiquidityCurrentRange
<1>. QED  BY <1>1, <1>2, <1>3, <1>4, DepositKeeps, HandlerKeeps, RetrieveKeeps DEF HelperCall

LEMMA ManagerKeeps ==
    ASSUME TypeOK, NEW c \in Users, ManagerCall(c)
    PROVE ClaimsKept(c)
<1>1. ASSUME NEW id \in Positions, NEW to \in Named, NEW used, ManagerMint(c, to, id, used)
      PROVE ClaimsKept(c)
  <2>1. /\ ~Exists(id) /\ position' = [position EXCEPT ![id] = Minted(to)]
        /\ UNCHANGED deposits
    BY <1>1 DEF ManagerMint
  <2>. QED  BY <2>1, MintKeeps, Parties
<1>2. ASSUME NEW id \in Positions, NEW used, ManagerIncrease(c, id, used) PROVE ClaimsKept(c)
  BY <1>2, IncreaseKeeps DEF ManagerIncrease
<1>3. ASSUME NEW id \in Positions, NEW to, ManagerCollect(c, to, id) PROVE ClaimsKept(c)
  BY <1>3, CollectKeeps DEF ManagerCollect
<1>4. ASSUME NEW id \in Positions, NEW from \in Users, NEW to \in Named,
             TransferPosition(c, from, to, id)
      PROVE ClaimsKept(c)
  BY <1>4, TransferKeeps, Parties
<1>. QED  BY <1>1, <1>2, <1>3, <1>4, DecreaseKeeps DEF ManagerCall

LEMMA CallKeeps == ASSUME TypeOK, NEW c \in Users, Call(c) PROVE ClaimsKept(c)
  BY SwapKeeps, HelperKeeps, ManagerKeeps DEF Call, SwapNext

LEMMA NextTypes == ASSUME TypeOK, Next PROVE CustodyTypes
  BY CallKeeps, FinishKeeps, FeesKeep DEF Next, ClaimsKept

\* A call inside a callback uses gas, the end of the outermost one returns it.
LEMMA RunningType ==
    ASSUME TypeOK, NEW c, Running(c), callbacks' \in Seq(Positions)
    PROVE callbacks' \in Seq(Positions) /\ gas' \in 0 .. MaxGas
  BY Types, HelperAssumption DEF Running

LEMMA NextCalls ==
    ASSUME TypeOK, Next
    PROVE callbacks' \in Seq(Positions) /\ gas' \in 0 .. MaxGas
<1>1. ASSUME NEW c, Running(c), UNCHANGED callbacks
      PROVE callbacks' \in Seq(Positions) /\ gas' \in 0 .. MaxGas
  BY <1>1, Types, RunningType
<1>2. CASE FinishRetrieve
  BY <1>2, Types, HelperAssumption DEF FinishRetrieve
<1>3. ASSUME NEW c \in Users, NEW id \in Positions, RetrieveNFT(c, id)
      PROVE callbacks' \in Seq(Positions) /\ gas' \in 0 .. MaxGas
  <2>1. callbacks' = <<id>> \o callbacks \/ callbacks' = callbacks
    BY <1>3 DEF RetrieveNFT
  <2>2. <<id>> \in Seq(Positions) /\ callbacks \in Seq(Positions)
    BY Types
  <2>3. <<id>> \o callbacks \in Seq(Positions)
    BY <2>2, ConcatProperties
  <2>4. callbacks' \in Seq(Positions)
    BY <2>1, <2>2, <2>3
  <2>. QED  BY <1>3, <2>4, RunningType DEF RetrieveNFT
<1>4. CASE SwapNext
  BY <1>1, <1>4 DEF SwapNext, SwapCall, SwapExactInputSingle, SwapExactOutputSingle
<1>5. CASE HelperNext
  BY <1>1, <1>3, <1>5
     DEF HelperNext, HelperCall, DepositPosition, OnERC721Received, CollectAllFees,
         DecreaseLiquidity, MintPosition, IncreaseLiquidityCurrentRange
<1>6. CASE ManagerNext
  BY <1>1, <1>6
     DEF ManagerNext, ManagerCall, ManagerMint, ManagerIncrease, ManagerDecrease,
         ManagerCollect, TransferPosition
<1>7. CASE FeesNext
  BY <1>7, Types DEF FeesNext, EarnFees
<1>. QED  BY <1>2, <1>4, <1>5, <1>6, <1>7, NextCases

LEMMA InitType == ASSUME Init PROVE TypeOK
<1>1. deposits \in [Positions -> Deposit]
  BY Parties DEF Init, Deposit, NoDeposit
<1>2. position \in [Positions -> Position]
  BY HelperAssumption, Parties DEF Init, Position, NoPosition, Amount
<1>3. token \in [Tokens -> [Holders -> Nat]]
  BY HelperAssumption DEF Init
<1>4. allowance \in [{Router, Manager} -> [Tokens -> Nat]]
  BY DEF Init
<1>5. callbacks \in Seq(Positions) /\ gas \in 0 .. MaxGas
  BY HelperAssumption DEF Init
<1>. QED  BY <1>1, <1>2, <1>3, <1>4, <1>5 DEF TypeOK, Deposit, Position, Amount

LEMMA NextType == ASSUME TypeOK, [Next]_vars PROVE TypeOK'
<1>1. CASE Next
  <2>1. MoneyType'
    BY <1>1, NextMoney
  <2>2. CustodyTypes
    BY <1>1, NextTypes
  <2>3. callbacks' \in Seq(Positions) /\ gas' \in 0 .. MaxGas
    BY <1>1, NextCalls
  <2>. QED  BY <2>1, <2>2, <2>3
            DEF TypeOK, MoneyType, Money, Amount, CustodyTypes, Deposit, Position
<1>2. CASE UNCHANGED vars
  BY <1>2 DEF TypeOK, vars
<1>. QED  BY <1>1, <1>2

-----------------------------------------------------------------------------
(* The theorems on custody *)

\* No position has more liquidity than was added to it, no one is owed or has a
\* negative amount, and the helper's approvals stay numbers, whatever order
\* calls and callbacks take (every handler of UniswapV3Helper).
THEOREM TypeCorrect == Spec => []TypeOK
  BY InitType, NextType, PTL DEF Spec

\* Whoever can make a call that takes a user's position away, or liquidity out of
\* it, is the user, or an operator of the user while the position is not in
\* custody, also inside a callback of retrieveNFT; but for the open handler, which
\* can give a position in custody to anyone (onERC721Received, decreaseLiquidity,
\* retrieveNFT, and the manager's calls).
THEOREM ClaimsNeedConsent == Spec => ClaimsMoveByConsent
<1>1. ASSUME TypeOK, [Next]_vars
      PROVE [\A id \in Positions : Claimant(id) \in Users => ClaimIsKept(Claimant(id), id)]_vars
  <2>. SUFFICES ASSUME Next, NEW id \in Positions, Claimant(id) \in Users,
                       Claimant(id)' # Claimant(id) \/ Shrinks(id)
                PROVE /\ \A c \in Users :
                            \/ MayDispose(c, Claimant(id), id)
                            \/ ~Shrinks(id) /\ \E o \in Named : OnERC721Received(c, o, id)
                            \/ ~Call(c)
                      /\ FinishRetrieve => ~Shrinks(id) /\ Head(callbacks) = id
    BY <1>1 DEF ClaimIsKept
  <2>1. ASSUME NEW c \in Users, Call(c)
        PROVE \/ MayDispose(c, Claimant(id), id)
              \/ ~Shrinks(id) /\ \E o \in Named : OnERC721Received(c, o, id)
    BY <1>1, <2>1, CallKeeps DEF ClaimsKept, ClaimFor
  <2>2. FinishRetrieve => ~Shrinks(id) /\ Head(callbacks) = id
    BY <1>1, FinishKeeps DEF Untouched
  <2>. QED  BY <2>1, <2>2
<1>. QED  BY <1>1, TypeCorrect, PTL DEF Spec, ClaimsMoveByConsent

\* No call of the helper leaves a position in its custody without a record
\* (_createDeposit, mintPosition, retrieveNFT); the deletion at the end of a
\* retrieval can, of the position that was sent back meanwhile.
THEOREM RecordsCoverCustody == Spec => CustodyIsRecorded
<1>1. ASSUME TypeOK, [Next]_vars
      PROVE [\A id \in Positions : StrayIsKnown(id)]_vars
  <2>1. ASSUME NEW id \in Positions, Stray(id)', ~Stray(id)
        PROVE /\ \A c \in Users : ~ HelperCall(c)
              /\ FinishRetrieve => Head(callbacks) = id
    BY <1>1, <2>1, HelperKeeps, FinishKeeps DEF RecordsKept, NoNewStray, Untouched
  <2>. QED  BY <2>1 DEF StrayIsKnown
<1>. QED  BY <1>1, TypeCorrect, PTL DEF Spec, CustodyIsRecorded

-----------------------------------------------------------------------------
(* The money: what the pools owe is paid to the claimant, and the helper gives  *)
(* back what it took and did not use                                            *)

\* Users trade with the pools and the helper, and are neither.
LEMMA Traders ==
    /\ Users \subseteq Holders /\ Helper \in Holders /\ Pool \in Holders
    /\ Helper # Pool /\ Helper \notin Users /\ Pool \notin Users
  BY HelperAssumption DEF Holders

\* A payment moves its amount, at every token.
LEMMA PayMoves ==
    ASSUME NEW tok \in Money, NEW from \in Holders, NEW to \in Holders,
           NEW amount \in Amount, NEW after \in Pay(tok, from, to, amount)
    PROVE \A x \in Tokens : /\ CanPay(tok[x], from, amount[x])
                            /\ after[x] = Moved(tok[x], from, to, amount[x])
  BY DEF Pay

\* What passes through a holder, or is nothing.
LEMMA MovedOn ==
    ASSUME NEW bal \in [Holders -> Nat], NEW from \in Holders, NEW via \in Holders \ {from},
           NEW to \in Holders, NEW n \in Nat, CanPay(bal, from, n)
    PROVE /\ Moved(Moved(bal, from, via, n), via, to, n) = Moved(bal, from, to, n)
          /\ Moved(Moved(bal, from, via, n), via, to, 0) = Moved(bal, from, via, n)
<1>. DEFINE first == Moved(bal, from, via, n)
<1>1. /\ first \in [Holders -> Nat]
      /\ first[from] = bal[from] - n /\ first[via] = bal[via] + n
      /\ \A h \in Holders \ {from, via} : first[h] = bal[h]
  BY MovedBalances
<1>. HIDE DEF first
<1>2. Moved(first, via, to, 0) = first
  <2>1. CanPay(first, via, 0)
    BY <1>1 DEF CanPay
  <2>2. /\ Moved(first, via, to, 0) \in [Holders -> Nat]
        /\ \A h \in Holders : Moved(first, via, to, 0)[h] = first[h]
    BY <1>1, <2>1, MovedBalances
  <2>. QED  BY <1>1, <2>2
<1>3. Moved(first, via, to, n) = Moved(bal, from, to, n)
  <2>1. CanPay(first, via, n)
    BY <1>1 DEF CanPay
  <2>2. /\ Moved(first, via, to, n) \in [Holders -> Nat]
        /\ Moved(bal, from, to, n) \in [Holders -> Nat]
    BY <1>1, <2>1, MovedBalances
  <2>3. ASSUME NEW h \in Holders PROVE Moved(first, via, to, n)[h] = Moved(bal, from, to, n)[h]
    <3>1. first[h] \in Nat /\ bal[h] \in Nat
      BY <1>1
    <3>2. CASE to = from
      BY <1>1, <2>1, <3>1, <3>2, MovedBalances
    <3>3. CASE to = via
      BY <1>1, <2>1, <3>1, <3>3, MovedBalances
    <3>4. CASE to # from /\ to # via
      <4>1. /\ Moved(first, via, to, n)[via] = first[via] - n
            /\ Moved(first, via, to, n)[to] = first[to] + n
            /\ \A g \in Holders \ {via, to} : Moved(first, via, to, n)[g] = first[g]
        BY <1>1, <2>1, <3>4, MovedBalances
      <4>2. /\ Moved(bal, from, to, n)[from] = bal[from] - n
            /\ Moved(bal, from, to, n)[to] = bal[to] + n
            /\ \A g \in Holders \ {from, to} : Moved(bal, from, to, n)[g] = bal[g]
        BY <3>4, MovedBalances
      <4>. QED  BY <1>1, <3>1, <3>4, <4>1, <4>2
    <3>. QED  BY <3>2, <3>3, <3>4
  <2>. QED  BY <2>2, <2>3
<1>. QED  BY <1>2, <1>3 DEF first

\* A payment moves its amount from one holder to another, at every token.
LEMMA PayEffect ==
    ASSUME NEW tok \in Money, NEW from \in Holders, NEW to \in Holders \ {from},
           NEW amount \in Amount, NEW after \in Pay(tok, from, to, amount)
    PROVE /\ after \in Money
          /\ \A x \in Tokens :
                /\ after[x][from] = tok[x][from] - amount[x]
                /\ after[x][to] = tok[x][to] + amount[x]
                /\ \A h \in Holders \ {from, to} : after[x][h] = tok[x][h]
<1>1. /\ \A x \in Tokens : CanPay(tok[x], from, amount[x])
      /\ after = [x \in Tokens |-> Moved(tok[x], from, to, amount[x])]
  BY DEF Pay
<1>2. ASSUME NEW x \in Tokens
      PROVE /\ after[x][from] = tok[x][from] - amount[x]
            /\ after[x][to] = tok[x][to] + amount[x]
            /\ \A h \in Holders \ {from, to} : after[x][h] = tok[x][h]
  <2>1. tok[x] \in [Holders -> Nat] /\ amount[x] \in Nat /\ from # to
    BY DEF Money, Amount
  <2>2. after[x] = Moved(tok[x], from, to, amount[x])
    BY <1>1
  <2>. QED  BY <1>1, <2>1, <2>2, MovedBalances
<1>. QED  BY <1>2, PayType

\* Balances are numbers.
LEMMA HelperBalance ==
    ASSUME NEW tok \in Money, NEW x \in Tokens, NEW h \in Holders
    PROVE tok[x][h] \in Nat
  BY DEF Money

\* A trade takes its input from the helper, and nothing else.
LEMMA TradedEffect ==
    ASSUME NEW tok \in Money, NEW c \in Users, NEW x, NEW y,
           NEW approved \in Nat, NEW used \in Nat, NEW out \in Nat,
           NEW after \in Traded(tok, c, x, y, approved, used, out)
    PROVE /\ after \in Money
          /\ \A z \in Tokens : after[z][Helper] = tok[z][Helper] - Only(x, used)[z]
<1>1. PICK paid \in Pay(tok, Pool, c, Only(y, out)) :
          after \in Pay(paid, Helper, Pool, Only(x, used))
  BY DEF Traded
<1>2. /\ paid \in Money
      /\ \A z \in Tokens : paid[z][Helper] = tok[z][Helper]
  BY Traders, OnlyType, PayEffect
<1>. QED  BY <1>1, <1>2, Traders, OnlyType, PayEffect

-----------------------------------------------------------------------------
(* What the helper keeps *)

LEMMA ExactInputLeaves ==
    ASSUME TypeOK, NEW c \in Users, NEW x \in Tokens, NEW y \in Tokens \ {x},
           NEW n \in Amounts, NEW m \in Amounts, SwapExactInputSingle(c, x, y, n, m),
           NEW z \in Tokens
    PROVE KeepsOnlyLeftovers(z)
<1>1. PICK pulled \in Pay(token, c, Helper, Only(x, n)), used \in 1 .. n, paid \in Payable :
          token' \in Traded(pulled, c, x, y, n, used, paid[y])
  BY DEF SwapExactInputSingle
<1>2. n \in Nat /\ used \in Nat /\ used <= n /\ paid[y] \in Nat
  BY AmountType, HelperAssumption DEF Amount
<1>3. /\ pulled \in Money
      /\ pulled[z][Helper] = token[z][Helper] + Only(x, n)[z]
  BY <1>2, Types, Traders, OnlyType, PayEffect DEF MoneyType
<1>4. token'[z][Helper] = pulled[z][Helper] - Only(x, used)[z]
  <2>1. PICK out \in Nat : token' \in Traded(pulled, c, x, y, n, used, out)
    BY <1>1, <1>2
  <2>2. \A w \in Tokens : token'[w][Helper] = pulled[w][Helper] - Only(x, used)[w]
    BY <1>2, <1>3, <2>1, TradedEffect
  <2>. QED  BY <2>2
<1>5. token[z][Helper] \in Nat
  BY Types, Traders, HelperBalance DEF MoneyType
<1>6. CASE z = x
  <2>1. LeavesRest(z)
    BY <1>6 DEF LeavesRest
  <2>2. token'[z][Helper] = token[z][Helper] + n - used
    BY <1>2, <1>3, <1>4, <1>5, <1>6 DEF Only
  <2>. QED  BY <1>2, <1>5, <2>1, <2>2 DEF KeepsOnlyLeftovers
<1>7. CASE z # x
  <2>1. token'[z][Helper] = token[z][Helper]
    BY <1>3, <1>4, <1>5, <1>7 DEF Only
  <2>. QED  BY <1>5, <2>1 DEF KeepsOnlyLeftovers
<1>. QED  BY <1>6, <1>7

\* A step after which the helper has what it had before.
LEMMA NothingKept ==
    ASSUME TypeOK, NEW z \in Tokens, token'[z][Helper] = token[z][Helper]
    PROVE KeepsOnlyLeftovers(z)
  BY Types, Traders, HelperBalance DEF MoneyType, KeepsOnlyLeftovers

LEMMA ExactOutputLeaves ==
    ASSUME TypeOK, NEW c \in Users, NEW x \in Tokens, NEW y \in Tokens,
           NEW n \in Amounts, NEW m \in Amounts, SwapExactOutputSingle(c, x, y, n, m),
           NEW z \in Tokens
    PROVE KeepsOnlyLeftovers(z)
<1>1. PICK pulled \in Pay(token, c, Helper, Only(x, m)) :
          \/ SwapExactOutputSucceeds(c, x, y, n, m, pulled)
          \/ SwapExactOutputFails(c, x, m, pulled)
  BY DEF SwapExactOutputSingle
<1>2. n \in Nat /\ m \in Nat /\ token[z][Helper] \in Nat
  BY HelperAssumption, Types, Traders, HelperBalance DEF MoneyType
<1>3. /\ pulled \in Money
      /\ pulled[z][Helper] = token[z][Helper] + Only(x, m)[z]
  BY <1>2, Types, Traders, OnlyType, PayEffect DEF MoneyType
<1>4. CASE SwapExactOutputSucceeds(c, x, y, n, m, pulled)
  <2>. PICK used \in 1 .. m : \E traded \in Traded(pulled, c, x, y, m, used, n) :
            token' \in Pay(traded, Helper, c, Only(x, RefundOf(m, used)))
    BY <1>4 DEF SwapExactOutputSucceeds
  <2>1. PICK traded \in Traded(pulled, c, x, y, m, used, n) :
            token' \in Pay(traded, Helper, c, Only(x, m - used))
    BY DEF RefundOf
  <2>2. used \in Nat /\ m - used \in Nat
    BY <1>2
  <2>3. /\ traded \in Money
        /\ traded[z][Helper] = pulled[z][Helper] - Only(x, used)[z]
    BY <1>2, <1>3, <2>2, TradedEffect
  <2>4. token'[z][Helper] = traded[z][Helper] - Only(x, m - used)[z]
    BY <2>1, <2>2, <2>3, Traders, OnlyType, PayEffect
  <2>5. Only(x, m)[z] = Only(x, used)[z] + Only(x, m - used)[z] /\ Only(x, used)[z] \in Nat
        /\ Only(x, m - used)[z] \in Nat
    BY <1>2, <2>2 DEF Only
  <2>6. token'[z][Helper] = token[z][Helper]
    BY <1>2, <1>3, <2>3, <2>4, <2>5
  <2>. QED  BY <2>6, NothingKept
<1>5. CASE SwapExactOutputFails(c, x, m, pulled)
  <2>1. token'[z][Helper] = pulled[z][Helper] - Only(x, m)[z]
    BY <1>2, <1>3, <1>5, Traders, OnlyType, PayEffect DEF SwapExactOutputFails
  <2>2. Only(x, m)[z] \in Nat
    BY <1>2 DEF Only
  <2>3. token'[z][Helper] = token[z][Helper]
    BY <1>2, <1>3, <2>1, <2>2
  <2>. QED  BY <2>3, NothingKept
<1>. QED  BY <1>1, <1>4, <1>5

\* A pool that names its own tokens.
LEMMA SaidHonest ==
    ASSUME NEW p \in Amount, NEW z \in Tokens
    PROVE Said(Honest, p)[z] = p[z]
<1>1. /\ Honest[Token0] = Token0 /\ Honest[Token1] = Token1 /\ Token0 # Token1
      /\ z = Token0 \/ z = Token1
      /\ p[Token0] \in Nat /\ p[Token1] \in Nat
  BY Parties, HelperAssumption DEF Honest, Tokens, Amount
<1>. QED  BY <1>1 DEF Said, Side

LEMMA MintLeaves ==
    ASSUME TypeOK, NEW c \in Users, NEW id \in Positions, NEW amount \in [Tokens -> Amounts],
           NEW pool \in PoolAnswers, MintPosition(c, id, amount, pool), NEW z \in Tokens
    PROVE KeepsOnlyLeftovers(z)
<1>. CASE pool # HonestPool
  BY DEF MintPosition, KeepsOnlyLeftovers, MintsWithLyingPool
<1>. CASE pool = HonestPool
  <2>. PICK pulled \in Pay(token, c, Helper, Said(Honest, amount)), used \in Taken(amount) :
          \E provided \in Pay(pulled, Helper, Pool, used) :
              token' \in Pay(provided, Helper, c, Said(Honest, Minus(amount, used)))
    BY DEF MintPosition, HonestPool
  <2>1. PICK provided \in Pay(pulled, Helper, Pool, used) :
            token' \in Pay(provided, Helper, c, Said(Honest, Minus(amount, used)))
    OBVIOUS
  <2>2. amount \in Amount /\ used \in Amount /\ AtMost(used, amount)
    BY AmountType DEF Taken
  <2>3. Minus(amount, used) \in Amount /\ Minus(amount, used)[z] = amount[z] - used[z]
    BY <2>2, MinusType DEF Minus
  <2>4. pulled \in Money /\ pulled[z][Helper] = token[z][Helper] + amount[z]
    <3>1. Said(Honest, amount) \in Amount /\ Said(Honest, amount)[z] = amount[z]
      BY <2>2, SaidType, SaidHonest
    <3>2. token \in Money
      BY Types DEF MoneyType
    <3>. HIDE DEF Honest
    <3>. QED  BY <3>1, <3>2, Traders, PayEffect
  <2>5. provided \in Money /\ provided[z][Helper] = pulled[z][Helper] - used[z]
    BY <2>2, <2>4, Traders, PayEffect
  <2>6. token'[z][Helper] = provided[z][Helper] - (amount[z] - used[z])
    BY <2>1, <2>3, <2>5, SaidType, SaidHonest, Traders, PayEffect
  <2>7. amount[z] \in Nat /\ used[z] \in Nat /\ token[z][Helper] \in Nat
    BY <2>2, Types, Traders, HelperBalance DEF MoneyType, Amount
  <2>8. token'[z][Helper] = token[z][Helper]
    BY <2>4, <2>5, <2>6, <2>7
  <2>. QED  BY <2>8, NothingKept
<1>. QED  OBVIOUS

LEMMA IncreaseLeaves ==
    ASSUME TypeOK, NEW c \in Users, NEW id \in Positions, NEW amount \in [Tokens -> Amounts],
           IncreaseLiquidityCurrentRange(c, id, amount), NEW z \in Tokens
    PROVE KeepsOnlyLeftovers(z)
<1>. DEFINE offered == Part(amount, deposits[id].tokens)
<1>1. PICK pulled \in Pay(token, c, Helper, offered), used \in Taken(amount) :
          token' \in Pay(pulled, Helper, Pool, used)
  BY DEF IncreaseLiquidityCurrentRange
<1>2. amount \in Amount /\ used \in Amount /\ AtMost(used, amount) /\ offered \in Amount
  BY AmountType, PartType DEF Taken
<1>3. /\ amount[z] \in Nat /\ used[z] \in Nat /\ used[z] <= amount[z]
      /\ token[z][Helper] \in Nat /\ token \in Money
  BY <1>2, Types, Traders, HelperBalance DEF MoneyType, Amount, AtMost
<1>4. offered[z] = IF z \in deposits[id].tokens THEN amount[z] ELSE 0
  BY DEF Part
<1>. HIDE DEF offered
<1>5. pulled \in Money /\ pulled[z][Helper] = token[z][Helper] + offered[z]
  BY <1>1, <1>2, <1>3, Traders, PayEffect
<1>6. token'[z][Helper] = pulled[z][Helper] - used[z]
  BY <1>1, <1>2, <1>5, Traders, PayEffect
<1>7. CASE z \in deposits[id].tokens
  <2>1. LeavesRest(z)
    BY <1>7 DEF LeavesRest
  <2>. QED  BY <1>3, <1>4, <1>5, <1>6, <1>7, <2>1 DEF KeepsOnlyLeftovers
<1>8. CASE z \notin deposits[id].tokens
  <2>1. SpendsRest(z)
    BY <1>8 DEF SpendsRest
  <2>. QED  BY <1>3, <1>4, <1>5, <1>6, <1>8, <2>1 DEF KeepsOnlyLeftovers
<1>. QED  BY <1>7, <1>8

-----------------------------------------------------------------------------
(* What positions are owed *)

\* What a collection writes: nothing is owed any more.
LEMMA CollectedOwed ==
    ASSUME TypeOK, NEW id \in Positions, NEW x \in Tokens,
           position' = [position EXCEPT ![id].owed = NoPosition.owed]
    PROVE position'[id].owed[x] = 0 /\ position[id].owed \in Amount /\ position[id].owed[x] \in Nat
<1>1. position'[id].owed = NoPosition.owed
  BY Types DEF Position
<1>. QED  BY <1>1, Types DEF NoPosition, Position, Amount

\* Collecting pays the recorded owner, or leaves what a stray position earned.
LEMMA CollectPays ==
    ASSUME TypeOK, NEW c \in Users, NEW id \in Positions, CollectAllFees(c, id)
    PROVE \A x \in Tokens : PaidToClaimant(id, x) /\ KeepsOnlyLeftovers(x)
<1>. SUFFICES ASSUME NEW x \in Tokens
              PROVE PaidToClaimant(id, x) /\ KeepsOnlyLeftovers(x)
  OBVIOUS
<1>. DEFINE owed == position[id].owed
            h == deposits[id].owner
            sent == Part(owed, deposits[id].tokens)
            payee == IF x \in deposits[id].tokens THEN h ELSE Helper
<1>1. PICK collected \in Pay(token, Pool, Helper, owed) :
          token' \in Pay(collected, Helper, h, sent)
  BY DEF CollectAllFees, SentToOwner
<1>2. /\ owed \in Amount /\ owed[x] \in Nat /\ token \in Money
      /\ position'[id].owed[x] = 0
      /\ sent \in Amount /\ h \in Holders
      /\ sent[x] = IF x \in deposits[id].tokens THEN owed[x] ELSE 0
  <2>1. position' = [position EXCEPT ![id].owed = NoPosition.owed]
    BY DEF CollectAllFees
  <2>. QED  BY <2>1, CollectedOwed, PartType, Types DEF MoneyType, Deposit, Part
<1>. HIDE DEF sent
<1>3. /\ CanPay(token[x], Pool, owed[x])
      /\ collected[x] = Moved(token[x], Pool, Helper, owed[x])
      /\ token'[x] = Moved(collected[x], Helper, h, sent[x])
  <2>1. collected \in Money
    BY <1>2, Traders, PayType
  <2>2. /\ CanPay(token[x], Pool, owed[x])
        /\ collected[x] = Moved(token[x], Pool, Helper, owed[x])
    BY <1>2, Traders, PayMoves
  <2>3. token'[x] = Moved(collected[x], Helper, h, sent[x])
    BY <1>1, <1>2, <2>1, Traders, PayMoves
  <2>. QED  BY <2>2, <2>3
<1>4. token[x] \in [Holders -> Nat]
  BY <1>2 DEF Money
<1>5. token'[x] = Moved(token[x], Pool, payee, owed[x])
  BY <1>2, <1>3, <1>4, Traders, MovedOn
<1>6. InCustody(id)
  BY DEF CollectAllFees
<1>7. PaidToClaimant(id, x)
  BY <1>2, <1>5, <1>6 DEF PaidToClaimant
<1>8. CASE payee = Helper
  <2>1. LeavesRest(x)
    BY <1>8 DEF LeavesRest
  <2>2. token'[x][Helper] = token[x][Helper] + owed[x] /\ token[x][Helper] \in Nat
    BY <1>2, <1>3, <1>4, <1>5, <1>8, Traders, MovedBalances
  <2>. QED  BY <1>2, <1>7, <2>1, <2>2 DEF KeepsOnlyLeftovers
<1>9. CASE payee # Helper
  <2>1. payee \in Holders /\ Helper \in Holders \ {Pool, payee}
    BY <1>2, <1>9, Traders
  <2>. HIDE DEF payee
  <2>2. token'[x][Helper] = token[x][Helper]
    BY <1>2, <1>3, <1>4, <1>5, <2>1, Traders, MovedBalances
  <2>. QED  BY <1>7, <2>2, NothingKept
<1>. QED  BY <1>8, <1>9

\* Whoever collects at the manager is not collecting for the helper's custody.
LEMMA ManagerCollectLeaves ==
    ASSUME TypeOK, NEW c \in Users, NEW id \in Positions, NEW to \in Named,
           ManagerCollect(c, to, id), NEW x \in Tokens
    PROVE KeepsOnlyLeftovers(x)
<1>. DEFINE owed == position[id].owed
<1>1. owed \in Amount /\ owed[x] \in Nat /\ token \in Money /\ token[x] \in [Holders -> Nat]
  BY Types DEF Position, Amount, MoneyType, Money
<1>2. CanPay(token[x], Pool, owed[x]) /\ token'[x] = Moved(token[x], Pool, to, owed[x])
  BY <1>1, Parties, PayMoves DEF ManagerCollect
<1>. HIDE DEF owed
<1>3. CASE to = Helper
  <2>1. LeavesRest(x)
    BY <1>3 DEF LeavesRest
  <2>2. token'[x][Helper] = token[x][Helper] + owed[x] /\ token[x][Helper] \in Nat
    BY <1>1, <1>2, <1>3, Traders, MovedBalances
  <2>. QED  BY <1>1, <2>1, <2>2 DEF KeepsOnlyLeftovers
<1>4. CASE to # Helper
  <2>1. to \in Holders /\ Helper \in Holders \ {Pool, to}
    BY <1>4, Parties, Traders
  <2>2. token'[x][Helper] = token[x][Helper]
    BY <1>1, <1>2, <2>1, Traders, MovedBalances
  <2>. QED  BY <2>2, NothingKept
<1>. QED  BY <1>3, <1>4

\* A position that was never minted is empty, so a mint takes nothing from it.
Unminted == \A id \in Positions : ~Exists(id) => position[id] = NoPosition

\* A step writes positions that exist after it, and what is owed only grows,
\* but for the positions of S.
WritesMinted == \A i \in Positions : position'[i] = position[i] \/ Exists(i)'
OwedGrows(i) == \A x \in Tokens : position'[i].owed[x] >= position[i].owed[x]
OwesBut(S) == WritesMinted /\ \A i \in Positions \ S : OwedGrows(i)
Owes == OwesBut({})

LEMMA OwedType ==
    ASSUME TypeOK, NEW i \in Positions, NEW x \in Tokens
    PROVE position[i].owed[x] \in Nat
  BY Types DEF Position, Amount

LEMMA UnchangedOwes == ASSUME TypeOK, UNCHANGED position PROVE Owes
  BY OwedType DEF Owes, OwesBut, WritesMinted, OwedGrows

LEMMA MovedOwes ==
    ASSUME TypeOK, NEW id \in Positions, NEW to \in Holders \ {Nobody},
           position' = [position EXCEPT ![id].owner = to]
    PROVE Owes
<1>1. ASSUME NEW i \in Positions
      PROVE /\ position'[i].owed = position[i].owed
            /\ position'[i] = position[i] \/ position'[i].owner = to
  BY Types DEF Position
<1>. QED  BY <1>1, OwedType, Parties DEF Owes, OwesBut, WritesMinted, OwedGrows, Exists

LEMMA IncreasedOwes ==
    ASSUME TypeOK, NEW id \in Positions, Exists(id),
           position' = [position EXCEPT ![id].liquidity = position[id].liquidity + 1]
    PROVE Owes
<1>1. ASSUME NEW i \in Positions
      PROVE /\ position'[i].owed = position[i].owed /\ position'[i].owner = position[i].owner
            /\ i # id => position'[i] = position[i]
  BY Types DEF Position
<1>. QED  BY <1>1, OwedType DEF Owes, OwesBut, WritesMinted, OwedGrows, Exists

LEMMA DecreasedOwes ==
    ASSUME TypeOK, NEW id \in Positions, Exists(id), NEW n, NEW got \in Amount,
           position' = Decreased(id, n, got)
    PROVE Owes
<1>. DEFINE p == position[id]
            more == [x \in Tokens |-> p.owed[x] + got[x]]
            q == [p EXCEPT !.liquidity = p.liquidity - n, !.owed = more]
<1>1. position \in [Positions -> Position] /\ p \in Position
  BY Types
<1>2. position' = [position EXCEPT ![id] = q]
  BY DEF Decreased
<1>3. q.owner = p.owner /\ q.owed = more
  BY <1>1 DEF Position
<1>4. \A x \in Tokens : more[x] >= p.owed[x]
  BY OwedType DEF Amount
<1>. HIDE DEF q, more
<1>5. position'[id] = q /\ \A i \in Positions \ {id} : position'[i] = position[i]
  BY <1>1, <1>2
<1>. QED  BY <1>3, <1>4, <1>5, OwedType DEF Owes, OwesBut, WritesMinted, OwedGrows, Exists

LEMMA MintedOwes ==
    ASSUME TypeOK, Unminted, NEW id \in Positions, ~Exists(id),
           NEW to \in Holders \ {Nobody}, position' = [position EXCEPT ![id] = Minted(to)]
    PROVE Owes
<1>1. Minted(to).owner = to /\ Minted(to).owed = NoPosition.owed
  BY DEF Minted
<1>2. position'[id] = Minted(to) /\ \A i \in Positions \ {id} : position'[i] = position[i]
  BY Types
<1>3. position[id].owed = NoPosition.owed
  BY DEF Unminted
<1>. QED  BY <1>1, <1>2, <1>3, OwedType, Parties DEF Owes, OwesBut, WritesMinted, OwedGrows, Exists

\* Collecting lowers what is owed, of one position.
LEMMA CollectedOwes ==
    ASSUME TypeOK, NEW id \in Positions, Exists(id),
           position' = [position EXCEPT ![id].owed = NoPosition.owed]
    PROVE OwesBut({id})
<1>. DEFINE nothing == NoPosition.owed
<1>. HIDE DEF nothing
<1>1. position' = [position EXCEPT ![id].owed = nothing]
  BY DEF nothing
<1>2. /\ position'[id].owner = position[id].owner
      /\ \A i \in Positions \ {id} : position'[i] = position[i]
  BY <1>1, Types DEF Position
<1>. QED  BY <1>2, OwedType DEF OwesBut, WritesMinted, OwedGrows, Exists

\* What c can lower: what the helper collects, and what c owns or operates.
MayCollect(c) == { i \in Positions : CollectAllFees(c, i) \/ isApprovedOrOwner(c, i) }

LEMMA OwesMore ==
    ASSUME NEW S, NEW T, S \subseteq T, OwesBut(S)
    PROVE OwesBut(T)
  BY DEF OwesBut

LEMMA OwesAll == ASSUME NEW T, Owes PROVE OwesBut(T)
  BY OwesMore DEF Owes

LEMMA HelperOwes ==
    ASSUME TypeOK, Unminted, NEW c \in Users, HelperCall(c)
    PROVE OwesBut(MayCollect(c))
<1>1. CASE UNCHANGED position
  BY <1>1, UnchangedOwes, OwesAll
<1>2. ASSUME NEW id \in Positions, NEW to \in Holders \ {Nobody},
             position' = [position EXCEPT ![id].owner = to]
      PROVE OwesBut(MayCollect(c))
  BY <1>2, MovedOwes, OwesAll
<1>3. ASSUME NEW id \in Positions, DecreaseLiquidity(c, id) PROVE OwesBut(MayCollect(c))
  <2>1. Exists(id)
    BY <1>3, Parties DEF DecreaseLiquidity, InCustody, Exists
  <2>. QED  BY <1>3, <2>1, DecreasedOwes, AmountType, OwesAll DEF DecreaseLiquidity
<1>4. ASSUME NEW id \in Positions, NEW amount, IncreaseLiquidityCurrentRange(c, id, amount)
      PROVE OwesBut(MayCollect(c))
  BY <1>4, IncreasedOwes, OwesAll DEF IncreaseLiquidityCurrentRange
<1>5. ASSUME NEW id \in Positions, NEW amount, NEW pool, MintPosition(c, id, amount, pool)
      PROVE OwesBut(MayCollect(c))
  <2>1. ~Exists(id) /\ position' = [position EXCEPT ![id] = Minted(Helper)]
    BY <1>5 DEF MintPosition
  <2>. QED  BY <2>1, MintedOwes, OwesAll, Parties
<1>6. ASSUME NEW id \in Positions, CollectAllFees(c, id) PROVE OwesBut(MayCollect(c))
  <2>1. Exists(id) /\ position' = [position EXCEPT ![id].owed = NoPosition.owed]
    BY <1>6, Parties DEF CollectAllFees, InCustody, Exists
  <2>2. {id} \subseteq MayCollect(c)
    BY <1>6 DEF MayCollect
  <2>. QED  BY <2>1, <2>2, CollectedOwes, OwesMore
<1>7. \/ UNCHANGED position
      \/ \E id \in Positions, to \in Holders \ {Nobody} :
            position' = [position EXCEPT ![id].owner = to]
      \/ \E id \in Positions : CollectAllFees(c, id) \/ DecreaseLiquidity(c, id)
      \/ \E id \in Positions, amount \in [Tokens -> Amounts] :
            \/ \E pool \in PoolAnswers : MintPosition(c, id, amount, pool)
            \/ IncreaseLiquidityCurrentRange(c, id, amount)
  <2>1. Helper \in Holders \ {Nobody} /\ c \in Holders \ {Nobody}
    BY Parties
  <2>. QED  BY <2>1 DEF HelperCall, DepositPosition, OnERC721Received, RetrieveNFT
<1>. QED  BY <1>1, <1>2, <1>3, <1>4, <1>5, <1>6, <1>7

LEMMA ManagerOwes ==
    ASSUME TypeOK, Unminted, NEW c \in Users, ManagerCall(c)
    PROVE OwesBut(MayCollect(c))
<1>1. ASSUME NEW id \in Positions, NEW to \in Named \ {Nobody}, NEW used,
             ManagerMint(c, to, id, used)
      PROVE OwesBut(MayCollect(c))
  <2>1. ~Exists(id) /\ position' = [position EXCEPT ![id] = Minted(to)]
    BY <1>1 DEF ManagerMint
  <2>. QED  BY <2>1, MintedOwes, OwesAll, Parties
<1>2. ASSUME NEW id \in Positions, NEW used, ManagerIncrease(c, id, used)
      PROVE OwesBut(MayCollect(c))
  BY <1>2, IncreasedOwes, OwesAll DEF ManagerIncrease
<1>3. ASSUME NEW id \in Positions, NEW n, ManagerDecrease(c, id, n)
      PROVE OwesBut(MayCollect(c))
  <2>1. Exists(id)
    BY <1>3, Callers DEF ManagerDecrease
  <2>. QED  BY <1>3, <2>1, DecreasedOwes, AmountType, OwesAll DEF ManagerDecrease
<1>4. ASSUME NEW id \in Positions, NEW to, ManagerCollect(c, to, id)
      PROVE OwesBut(MayCollect(c))
  <2>1. Exists(id) /\ position' = [position EXCEPT ![id].owed = NoPosition.owed]
    BY <1>4, Callers DEF ManagerCollect
  <2>2. {id} \subseteq MayCollect(c)
    BY <1>4 DEF ManagerCollect, MayCollect
  <2>. QED  BY <2>1, <2>2, CollectedOwes, OwesMore
<1>5. ASSUME NEW from \in Users, NEW to \in Named \ {Nobody}, NEW id \in Positions,
             TransferPosition(c, from, to, id)
      PROVE OwesBut(MayCollect(c))
  BY <1>5, MovedOwes, OwesAll, Parties DEF TransferPosition
<1>. QED  BY <1>1, <1>2, <1>3, <1>4, <1>5 DEF ManagerCall

LEMMA CallOwes ==
    ASSUME TypeOK, Unminted, NEW c \in Users, Call(c)
    PROVE OwesBut(MayCollect(c))
<1>1. CASE SwapCall(c)
  <2>1. UNCHANGED position
    BY <1>1 DEF SwapCall, SwapExactInputSingle, SwapExactOutputSingle
  <2>. QED  BY <2>1, UnchangedOwes, OwesAll
<1>. QED  BY <1>1, HelperOwes, ManagerOwes DEF Call

LEMMA OtherStepsOwe ==
    ASSUME TypeOK, Unminted, FinishRetrieve \/ FeesNext
    PROVE Owes
<1>1. CASE FinishRetrieve
  BY <1>1, UnchangedOwes DEF FinishRetrieve
<1>2. ASSUME NEW id \in Positions, EarnFees(id) PROVE Owes
  <2>1. Exists(id)
    BY <1>2 DEF EarnFees, Unminted, NoPosition
  <2>. QED  BY <1>2, <2>1, DecreasedOwes, AmountType DEF EarnFees
<1>. QED  BY <1>1, <1>2 DEF FeesNext

LEMMA NextUnminted == ASSUME TypeOK, Unminted, [Next]_vars PROVE Unminted'
<1>1. CASE UNCHANGED vars
  BY <1>1 DEF vars, Unminted, Exists
<1>2. ASSUME WritesMinted PROVE Unminted'
  BY <1>2 DEF WritesMinted, Unminted, Exists
<1>3. ASSUME Next PROVE WritesMinted
  BY <1>3, CallOwes, OtherStepsOwe DEF Next, FeesNext, Owes, OwesBut
<1>. QED  BY <1>1, <1>2, <1>3

\* What is owed shrinks only by being paid to the claimant, or collected by
\* those who may.
LEMMA NextPays ==
    ASSUME TypeOK, Unminted, Next
    PROVE \A id \in Positions, x \in Tokens : PaidToClaimant(id, x)
<1>. SUFFICES ASSUME NEW i \in Positions, NEW x \in Tokens PROVE PaidToClaimant(i, x)
  OBVIOUS
<1>1. ASSUME OwedGrows(i) PROVE PaidToClaimant(i, x)
  <2>1. position[i].owed[x] \in Nat /\ position'[i].owed[x] \in Nat
    <3>1. position \in [Positions -> Position] /\ position' \in [Positions -> Position]
      BY Types, NextTypes DEF CustodyTypes
    <3>. QED  BY <3>1 DEF Position, Amount
  <2>. QED  BY <1>1, <2>1 DEF PaidToClaimant, OwedGrows
<1>2. ASSUME NEW c \in Users, Call(c)
      PROVE OwedGrows(i) \/ CollectAllFees(c, i) \/ isApprovedOrOwner(c, i)
  BY <1>2, CallOwes DEF OwesBut, MayCollect
<1>3. CASE FinishRetrieve \/ FeesNext
  BY <1>1, <1>3, OtherStepsOwe DEF Owes, OwesBut
<1>4. CASE InCustody(i)
  <2>1. ASSUME NEW c \in Users, Call(c) PROVE PaidToClaimant(i, x)
    BY <1>1, <1>2, <1>4, <2>1, CollectPays, Callers
  <2>. QED  BY <1>3, <2>1 DEF Next, FeesNext
<1>5. CASE ~InCustody(i) /\ ~OwedGrows(i)
  <2>1. ASSUME NEW c \in Users, Call(c) PROVE isApprovedOrOwner(c, i)
    BY <1>2, <1>5, <2>1 DEF CollectAllFees
  <2>. QED  BY <1>5, <2>1 DEF PaidToClaimant
<1>. QED  BY <1>1, <1>4, <1>5

\* The helper's own tokens, in every step.
LEMMA NextLeaves ==
    ASSUME TypeOK, Next
    PROVE \A z \in Tokens : KeepsOnlyLeftovers(z)
<1>. SUFFICES ASSUME NEW z \in Tokens PROVE KeepsOnlyLeftovers(z)
  OBVIOUS
<1>1. CASE UNCHANGED money
  BY <1>1, NothingKept DEF money
<1>2. CASE SwapNext
  BY <1>2, ExactInputLeaves, ExactOutputLeaves DEF SwapNext, SwapCall
<1>3. CASE HelperNext
  BY <1>1, <1>3, HelperMoney, CollectPays, MintLeaves, IncreaseLeaves DEF HelperNext
<1>4. CASE ManagerNext
  <2>1. ASSUME NEW c \in Users, NEW id \in Positions, NEW used \in [Tokens -> Amounts],
               \/ \E to \in Named \ {Nobody} : ManagerMint(c, to, id, used)
               \/ ManagerIncrease(c, id, used)
        PROVE KeepsOnlyLeftovers(z)
    <3>1. used \in Amount /\ token \in Money
      BY AmountType, Types DEF MoneyType
    <3>2. token' \in Pay(token, c, Pool, used)
      BY <2>1 DEF ManagerMint, ManagerIncrease
    <3>3. token'[z][Helper] = token[z][Helper]
      BY <3>1, <3>2, Traders, PayEffect
    <3>. QED  BY <3>3, NothingKept
  <2>. QED  BY <1>1, <1>4, <2>1, ManagerCallMoney, ManagerCollectLeaves DEF ManagerNext
<1>5. CASE FinishRetrieve \/ FeesNext
  BY <1>1, <1>5 DEF FinishRetrieve, FeesNext, EarnFees, money
<1>. QED  BY <1>2, <1>3, <1>4, <1>5, NextCases

-----------------------------------------------------------------------------
(* The theorems on money *)

\* A position that was not minted is empty (mint of the position manager).
THEOREM UnmintedIsEmpty == Spec => []Unminted
<1>1. Init => Unminted
  BY DEF Init, Unminted
<1>2. TypeOK /\ Unminted /\ [Next]_vars => Unminted'
  BY NextUnminted
<1>. QED  BY <1>1, <1>2, TypeCorrect, PTL DEF Spec

\* What is owed to a position in custody is paid to its recorded owner in full and
\* nothing else moves at that token, whoever collects (collectAllFees,
\* _sendToOwner); of other positions only owners and operators can collect.
THEOREM OwedReachesClaimant == Spec => OwedIsPaidToClaimant
<1>1. ASSUME TypeOK, Unminted, [Next]_vars
      PROVE [\A id \in Positions, x \in Tokens : PaidToClaimant(id, x)]_vars
  BY <1>1, NextPays
<1>. QED  BY <1>1, TypeCorrect, UnmintedIsEmpty, PTL DEF Spec, OwedIsPaidToClaimant

\* What a call took and did not use goes back, but for the rests the property
\* names, and no call spends what others left, but an increase without a record
\* and a mint whose _v3Pool changes its answers (both swaps, mintPosition,
\* increaseLiquidityCurrentRange, collectAllFees).
THEOREM OnlyLeftoversAreKept == Spec => HelperKeepsOnlyLeftovers
<1>1. ASSUME TypeOK, [Next]_vars
      PROVE [\A x \in Tokens : KeepsOnlyLeftovers(x)]_vars
  BY <1>1, NextLeaves
<1>. QED  BY <1>1, TypeCorrect, PTL DEF Spec, HelperKeepsOnlyLeftovers
=============================================================================
