-------------------------- MODULE AccounttPoolProofs --------------------------
(***************************************************************************)
(* Every vault of the composition implements SharePool, whatever accounts, *)
(* users and its owner do: the calls of a transaction are steps of the     *)
(* pool, and the two that an internal transfer makes of one vault are one  *)
(* step of its batches.                                                    *)
(***************************************************************************)
EXTENDS AccounttProofs

\* What a transaction, from world w to a later world z, is to the pool of v.
Same(w, z, v) == Held(z, v) = Held(w, v) /\ z.vault[v] = w.vault[v]

Enters(w, z, v, h) ==
    \E paid \in Nat, minted \in Nat :
        /\ Held(z, v) = Held(w, v) + paid
        /\ z.vault[v].totalSupply = w.vault[v].totalSupply + minted
        /\ IF w.vault[v].totalSupply = 0 THEN minted = paid
           ELSE minted * Worth(w.vault[v], Held(w, v)) <= paid * w.vault[v].totalSupply
        /\ z.vault[v].balanceOf = Raised(w.vault[v].balanceOf, h, minted)
        /\ z.vault[v].borrowedFunds = w.vault[v].borrowedFunds

Leaves(w, z, v, h) ==
    \E taken \in Nat, burnt \in Nat :
        /\ Held(z, v) = Held(w, v) - taken
        /\ z.vault[v].totalSupply = w.vault[v].totalSupply - burnt
        /\ burnt <= w.vault[v].balanceOf[h]
        /\ taken * w.vault[v].totalSupply <= burnt * Worth(w.vault[v], Held(w, v))
        /\ z.vault[v].balanceOf = Lowered(w.vault[v].balanceOf, h, burnt)
        /\ z.vault[v].borrowedFunds = w.vault[v].borrowedFunds

PoolStep(v) == UNCHANGED Fund(v)!vars \/ Fund(v)!BatchNext

-----------------------------------------------------------------------------
(* The calls *)

\* Tokens that nobody sends to a vault are nothing to it.
LEMMA PaidElsewhere ==
    ASSUME NEW w, Good(w), NEW x \in Assets, NEW from \in Holders \ CeFiVaults,
           NEW to \in Holders \ CeFiVaults, NEW n \in Nat, NEW z \in Paid(w, x, from, to, n)
    PROVE Good(z) /\ \A v \in CeFiVaults : Same(w, z, v)
<1>1. Good(z) /\ z.vault = w.vault
  BY PaidIsFair
<1>2. CASE from = to
  <2>1. /\ CanPay(w.token[x], from, n) /\ w.token[x] \in [Holders -> Nat]
        /\ w \in Worlds /\ z = [w EXCEPT !.token[x] = Moved(w.token[x], from, to, n)]
    BY DEF Paid, Good, Worlds, Ledger
  <2>2. Moved(w.token[x], from, to, n) = w.token[x]
    <3>. DEFINE bal == w.token[x]
    <3>1. bal \in [Holders -> Nat] /\ CanPay(bal, from, n) /\ from \in Holders
      BY <2>1
    <3>. HIDE DEF bal
    <3>2. Moved(bal, from, to, n) = bal
      BY <1>2, <3>1, MovedBalances
    <3>. QED  BY <3>2 DEF bal
  <2>3. z.token = w.token
    BY <2>1, <2>2 DEF Worlds
  <2>. QED  BY <1>1, <2>3 DEF Same, Held
<1>3. CASE from # to
  <2>1. Shift(w, z, x, from, to, n)
    BY <1>3, PaidShifts
  <2>2. \A v \in CeFiVaults : /\ AssetOf[v] \in Assets /\ v \in Holders /\ v # from /\ v # to
                              /\ w.token[AssetOf[v]][v] \in Nat
    BY Parties, GoodVault DEF Held
  <2>3. \A v \in CeFiVaults : z.token[AssetOf[v]][v] = w.token[AssetOf[v]][v]
    BY <2>1, <2>2 DEF Shift
  <2>. QED  BY <1>1, <2>3 DEF Same, Held
<1>. QED  BY <1>2, <1>3

\* A deposit enters the pool of its vault and leaves the others alone.
LEMMA InvestedEnters ==
    ASSUME NEW w, Good(w), NEW v \in CeFiVaults, NEW c \in Users \cup Accounts,
           NEW receiver \in Holders, NEW n \in Nat,
           NEW out \in deposit(w.vault[v], w.token[AssetOf[v]], v, c, n, receiver)
    PROVE LET z == VaultCalled(w, v, out) IN
          /\ Enters(w, z, v, receiver)
          /\ \A u \in CeFiVaults \ {v} : Same(w, z, u)
<1>. DEFINE s == w.vault[v]
            bal == w.token[AssetOf[v]]
            z == VaultCalled(w, v, out)
<1>1. /\ c \in Holders /\ c # v /\ v \in Holders
      /\ s \in Store(Holders) /\ Sound(s) /\ bal \in [Holders -> Nat]
      /\ Held(w, v) = bal[v]
  BY Parties, GoodVault DEF Ledger
<1>2. EntryFacts(s, bal, v, c, receiver, n, out.ret, out)
  BY <1>1, DepositOutcome
<1>3. /\ out.v \in Store(Holders) /\ Sound(out.v) /\ out.bal \in [Holders -> Nat]
      /\ out.v.borrowedFunds = s.borrowedFunds
      /\ out.v.totalSupply = s.totalSupply + out.ret
      /\ out.bal[v] = bal[v] + n
      /\ out.v.balanceOf = Raised(s.balanceOf, receiver, out.ret)
  BY <1>1, <1>2, EntryEffect
<1>4. /\ out.ret \in Nat /\ CanPay(bal, c, n) /\ out.bal = Moved(bal, c, v, n)
      /\ s.totalSupply = 0 => out.ret = n
      /\ s.totalSupply # 0 => out.ret * Worth(s, bal[v]) <= n * s.totalSupply
  BY <1>2 DEF EntryFacts
<1>5. Outcome(w, v, out)
  <2>. HIDE DEF s, bal
  <2>1. \A h \in Holders \ {c, v} : out.bal[h] = bal[h]
    BY <1>1, <1>4, MovedBalances
  <2>2. \A u \in CeFiVaults \ {v} : u \in Holders \ {c, v}
    BY Parties
  <2>. QED  BY <1>3, <2>1, <2>2 DEF Outcome, Ledger, bal
<1>6. /\ z.vault[v] = out.v /\ Held(z, v) = out.bal[v]
      /\ \A u \in CeFiVaults \ {v} : Same(w, z, u)
  BY <1>5, CallIsGood DEF Same
<1>. QED  BY <1>1, <1>3, <1>4, <1>6 DEF Enters

\* Shares given back for tokens that go to an account or a user.
LEMMA ExitLeaves ==
    ASSUME NEW w, Good(w), NEW v \in CeFiVaults, NEW h \in Users \cup Accounts,
           NEW assets, NEW shares, NEW out,
           ExitFacts(w.vault[v], w.token[AssetOf[v]], v, h, h, assets, shares, out)
    PROVE LET z == VaultCalled(w, v, out) IN
          /\ Leaves(w, z, v, h)
          /\ \A u \in CeFiVaults \ {v} : Same(w, z, u)
<1>. DEFINE s == w.vault[v]
            bal == w.token[AssetOf[v]]
            z == VaultCalled(w, v, out)
<1>1. /\ h \in Holders /\ h # v /\ v \in Holders
      /\ s \in Store(Holders) /\ Sound(s) /\ bal \in [Holders -> Nat]
      /\ Held(w, v) = bal[v] /\ s.totalSupply \in Nat /\ Worth(s, Held(w, v)) \in Nat
  BY Parties, GoodVault DEF Ledger
<1>2. /\ out.v \in Store(Holders) /\ Sound(out.v) /\ out.bal \in [Holders -> Nat]
      /\ out.v.borrowedFunds = s.borrowedFunds
      /\ out.v.totalSupply = s.totalSupply - shares
      /\ out.bal[v] = bal[v] - assets
      /\ shares <= s.balanceOf[h]
      /\ out.v.balanceOf = Lowered(s.balanceOf, h, shares)
  BY <1>1, ExitEffect
<1>3. /\ assets \in Nat /\ shares \in Nat /\ CanPay(bal, v, assets)
      /\ out.bal = Moved(bal, v, h, assets)
      /\ s.totalSupply # 0 => assets * s.totalSupply <= shares * Worth(s, bal[v])
  BY DEF ExitFacts
<1>4. assets * s.totalSupply <= shares * Worth(s, Held(w, v))
  <2>. DEFINE S == s.totalSupply
              W == Worth(s, Held(w, v))
  <2>1. S \in Nat /\ W \in Nat /\ (S # 0 => assets * S <= shares * W)
    BY <1>1, <1>3
  <2>. HIDE DEF S, W
  <2>2. shares * W >= 0 /\ (S = 0 => assets * S = 0)
    BY <1>3, <2>1
  <2>3. assets * S <= shares * W
    BY <2>1, <2>2
  <2>. QED  BY <2>3 DEF S, W
<1>5. Outcome(w, v, out)
  <2>. HIDE DEF s, bal
  <2>1. \A g \in Holders \ {h, v} : out.bal[g] = bal[g]
    BY <1>1, <1>3, MovedBalances
  <2>2. \A u \in CeFiVaults \ {v} : u \in Holders \ {h, v}
    BY Parties
  <2>. QED  BY <1>2, <2>1, <2>2 DEF Outcome, Ledger, bal
<1>6. /\ z.vault[v] = out.v /\ Held(z, v) = out.bal[v]
      /\ \A u \in CeFiVaults \ {v} : Same(w, z, u)
  BY <1>5, CallIsGood DEF Same
<1>. QED  BY <1>1, <1>2, <1>3, <1>4, <1>6 DEF Leaves

\* An account's debit leaves the pool of its vault, if it has one.
LEMMA DebitedLeaves ==
    ASSUME NEW w, Good(w), NEW a \in Accounts, NEW info \in LinkType, NEW x,
           NEW n \in Nat, NEW booked, NEW d \in Debited(w, a, info, x, n, booked),
           NEW v \in CeFiVaults
    PROVE Same(w, d.world, v) \/ Leaves(w, d.world, v, a)
<1>1. CASE invests(info, x)
  <2>. DEFINE u == info.vault
  <2>1. PICK out \in withdraw(w.vault[u], w.token[AssetOf[u]], u, n, a, a) :
            d.world = VaultCalled(w, u, out)
    BY <1>1 DEF Debited, updateVaultWithdraw
  <2>2. /\ u \in CeFiVaults /\ u \in Holders /\ a \in Holders
        /\ w.vault[u] \in Store(Holders) /\ w.token[AssetOf[u]] \in [Holders -> Nat]
    BY <1>1, LinkedVault, Parties, GoodVault DEF Ledger
  <2>3. ExitFacts(w.vault[u], w.token[AssetOf[u]], u, a, a, n, out.ret, out)
    BY <2>2, WithdrawOutcome
  <2>. QED  BY <2>1, <2>2, <2>3, ExitLeaves
<1>2. CASE ~invests(info, x)
  <2>1. d.world = w
    BY <1>2 DEF Debited
  <2>. QED  BY <2>1 DEF Same
<1>. QED  BY <1>1, <1>2

\* And its credit enters it.
LEMMA CreditedEnters ==
    ASSUME NEW w, Good(w), NEW a \in Accounts, NEW info \in LinkType, NEW x,
           NEW n \in Nat, NEW z \in Credited(w, a, info, x, n), NEW v \in CeFiVaults
    PROVE Same(w, z, v) \/ Enters(w, z, v, a)
<1>1. CASE invests(info, x)
  <2>. DEFINE u == info.vault
  <2>1. PICK out \in deposit(w.vault[u], w.token[AssetOf[u]], u, a, n, a) :
            z = VaultCalled(w, u, out)
    BY <1>1 DEF Credited, updateVaultDeposit, Invested
  <2>2. u \in CeFiVaults /\ a \in Holders
    BY <1>1, LinkedVault, Parties
  <2>. QED  BY <2>1, <2>2, InvestedEnters
<1>2. CASE ~invests(info, x)
  BY <1>2 DEF Credited, Same
<1>. QED  BY <1>1, <1>2

-----------------------------------------------------------------------------
(* Steps of the pool *)

\* What a committed transaction leaves in the world.
LEMMA Committed ==
    ASSUME NEW z, Good(z), Commit(z) PROVE World' = z
  BY DEF World, Commit, Good, Worlds

\* The pool of a vault, as the world has it.
LEMMA PoolOfVault ==
    ASSUME IInv, NEW v \in CeFiVaults
    PROVE /\ Held(World, v) = token[AssetOf[v]][v] /\ Held(World', v) = token'[AssetOf[v]][v]
          /\ World.vault[v] = vault[v] /\ World'.vault[v] = vault'[v]
          /\ token[AssetOf[v]][v] \in Nat
          /\ vault[v].totalSupply \in Nat /\ vault[v].borrowedFunds \in Nat
          /\ vault[v].balanceOf \in [Holders -> Nat]
          /\ \A h \in Holders : vault[v].balanceOf[h] <= vault[v].totalSupply
<1>1. Good(World)
  BY DEF IInv
<1>2. /\ Held(World, v) = token[AssetOf[v]][v] /\ Held(World', v) = token'[AssetOf[v]][v]
      /\ World.vault[v] = vault[v] /\ World'.vault[v] = vault'[v]
  BY DEF World, Held
<1>3. vault[v] \in Store(Holders) /\ Sound(vault[v]) /\ token[AssetOf[v]][v] \in Nat
  BY <1>1, <1>2, GoodVault
<1>4. \A h \in Holders : vault[v].balanceOf[h] <= vault[v].totalSupply
  BY <1>3, StoreOfNaturals, PartsWithinTotal DEF Sound
<1>. QED  BY <1>2, <1>3, <1>4, StoreOfNaturals

LEMMA SameIsNoStep ==
    ASSUME IInv, NEW v \in CeFiVaults, Same(World, World', v) PROVE PoolStep(v)
  BY PoolOfVault DEF Same, PoolStep, Fund!vars

LEMMA EnteringIsAStep ==
    ASSUME IInv, NEW v \in CeFiVaults, NEW h \in Holders, Enters(World, World', v, h)
    PROVE PoolStep(v)
<1>. DEFINE s == vault[v]
            c == token[AssetOf[v]][v]
<1>1. PICK paid \in Nat, minted \in Nat :
        /\ token'[AssetOf[v]][v] = c + paid
        /\ vault'[v].totalSupply = s.totalSupply + minted
        /\ IF s.totalSupply = 0 THEN minted = paid
           ELSE minted * (c + s.borrowedFunds) <= paid * s.totalSupply
        /\ vault'[v].balanceOf = Raised(s.balanceOf, h, minted)
        /\ vault'[v].borrowedFunds = s.borrowedFunds
  BY PoolOfVault DEF Enters, Worth
<1>2. c \in Nat /\ s.totalSupply \in Nat
  BY PoolOfVault
<1>3. token'[AssetOf[v]][v] - c = paid /\ vault'[v].totalSupply - s.totalSupply = minted
  BY <1>1, <1>2
<1>4. Fund(v)!Enter(h)
  BY <1>1, <1>3 DEF Fund!Enter, Fund!SoldFor, Fund!Worth, Raised
<1>. QED  BY <1>4 DEF PoolStep, Fund!BatchNext, Fund!Next

LEMMA LeavingIsAStep ==
    ASSUME IInv, NEW v \in CeFiVaults, NEW h \in Holders, Leaves(World, World', v, h)
    PROVE PoolStep(v)
<1>. DEFINE s == vault[v]
            c == token[AssetOf[v]][v]
<1>1. PICK taken \in Nat, burnt \in Nat :
        /\ token'[AssetOf[v]][v] = c - taken
        /\ vault'[v].totalSupply = s.totalSupply - burnt
        /\ burnt <= s.balanceOf[h]
        /\ taken * s.totalSupply <= burnt * (c + s.borrowedFunds)
        /\ vault'[v].balanceOf = Lowered(s.balanceOf, h, burnt)
        /\ vault'[v].borrowedFunds = s.borrowedFunds
  BY PoolOfVault DEF Leaves, Worth
<1>2. c \in Nat /\ s.totalSupply \in Nat /\ s.balanceOf[h] \in Nat
  BY PoolOfVault
<1>3. c - token'[AssetOf[v]][v] = taken /\ s.totalSupply - vault'[v].totalSupply = burnt
  BY <1>1, <1>2
<1>4. burnt \in 0 .. s.balanceOf[h]
  BY <1>1, <1>2
<1>5. Fund(v)!Leave(h)
  BY <1>1, <1>3, <1>4 DEF Fund!Leave, Fund!BoughtFor, Fund!Worth, Lowered
<1>. QED  BY <1>5 DEF PoolStep, Fund!BatchNext, Fund!Next

\* A withdrawal and a deposit of one transaction, at the price the first left.
LEMMA ReenteringIsAStep ==
    ASSUME IInv, NEW v \in CeFiVaults, NEW h \in Holders, NEW y, Good(y),
           Leaves(World, y, v, h), Enters(y, World', v, h)
    PROVE PoolStep(v)
<1>. DEFINE s == vault[v]
            c == token[AssetOf[v]][v]
            W == c + s.borrowedFunds
            m == y.vault[v]
<1>1. PICK taken \in Nat, burnt \in Nat :
        /\ Held(y, v) = c - taken
        /\ m.totalSupply = s.totalSupply - burnt
        /\ burnt <= s.balanceOf[h]
        /\ taken * s.totalSupply <= burnt * W
        /\ m.balanceOf = Lowered(s.balanceOf, h, burnt)
        /\ m.borrowedFunds = s.borrowedFunds
  BY PoolOfVault DEF Leaves, Worth
<1>2. PICK paid \in Nat, minted \in Nat :
        /\ token'[AssetOf[v]][v] = Held(y, v) + paid
        /\ vault'[v].totalSupply = m.totalSupply + minted
        /\ IF m.totalSupply = 0 THEN minted = paid
           ELSE minted * (Held(y, v) + m.borrowedFunds) <= paid * m.totalSupply
        /\ vault'[v].balanceOf = Raised(m.balanceOf, h, minted)
        /\ vault'[v].borrowedFunds = m.borrowedFunds
  BY PoolOfVault DEF Enters, Worth
<1>. DEFINE rest == s.totalSupply - burnt
<1>3. /\ c \in Nat /\ s.totalSupply \in Nat /\ s.borrowedFunds \in Nat
      /\ s.balanceOf[h] \in Nat /\ Held(y, v) \in Nat
  BY PoolOfVault, GoodVault
<1>4. taken \in 0 .. c /\ burnt \in 0 .. s.balanceOf[h]
  BY <1>1, <1>3
<1>5. /\ token'[AssetOf[v]][v] - (c - taken) = paid
      /\ vault'[v].totalSupply - rest = minted
  BY <1>1, <1>2, <1>3
<1>6. Held(y, v) + m.borrowedFunds = W - taken
  BY <1>1, <1>3
<1>7. IF rest = 0 THEN minted = paid ELSE minted * (W - taken) <= paid * rest
  BY <1>1, <1>2, <1>6
<1>8. vault'[v].balanceOf = [s.balanceOf EXCEPT ![h] = s.balanceOf[h] - burnt + minted]
  <2>1. s.balanceOf \in [Holders -> Nat]
    BY PoolOfVault
  <2>. QED  BY <1>1, <1>2, <2>1 DEF Raised, Lowered
<1>9. Fund(v)!Reenter(h)
  BY <1>1, <1>2, <1>4, <1>5, <1>7, <1>8
  DEF Fund!Reenter, Fund!SoldFor, Fund!BoughtFor, Fund!Worth
<1>. QED  BY <1>9 DEF PoolStep, Fund!BatchNext

\* No shares move: a loan within the ratio, or a change of what is lent out with
\* no less cash.
LEMMA MoneyIsAStep ==
    ASSUME IInv, NEW v \in CeFiVaults,
           vault'[v].totalSupply = vault[v].totalSupply,
           vault'[v].balanceOf = vault[v].balanceOf,
           token'[AssetOf[v]][v] \in Nat, vault'[v].borrowedFunds \in Nat,
           \/ token'[AssetOf[v]][v] >= token[AssetOf[v]][v]
           \/ \E n \in Nat :
                /\ token'[AssetOf[v]][v] = token[AssetOf[v]][v] - n
                /\ vault'[v].borrowedFunds = vault[v].borrowedFunds + n
                /\ vault'[v].borrowedFunds * BPS
                     <= Worth(vault[v], token[AssetOf[v]][v]) * MAX_BORROW_RATIO
    PROVE PoolStep(v)
<1>1. token[AssetOf[v]][v] \in Nat /\ vault[v].borrowedFunds \in Nat
  BY PoolOfVault
<1>2. CASE token'[AssetOf[v]][v] >= token[AssetOf[v]][v]
  <2>1. Fund(v)!Gain \/ Fund(v)!Settle
    BY <1>1, <1>2 DEF Fund!Gain, Fund!Settle
  <2>. QED  BY <2>1 DEF PoolStep, Fund!BatchNext, Fund!Next
<1>3. CASE \E n \in Nat :
                /\ token'[AssetOf[v]][v] = token[AssetOf[v]][v] - n
                /\ vault'[v].borrowedFunds = vault[v].borrowedFunds + n
                /\ vault'[v].borrowedFunds * BPS
                     <= Worth(vault[v], token[AssetOf[v]][v]) * MAX_BORROW_RATIO
  <2>1. PICK n \in Nat :
                /\ token'[AssetOf[v]][v] = token[AssetOf[v]][v] - n
                /\ vault'[v].borrowedFunds = vault[v].borrowedFunds + n
                /\ vault'[v].borrowedFunds * BPS
                     <= Worth(vault[v], token[AssetOf[v]][v]) * MAX_BORROW_RATIO
    BY <1>3
  <2>2. /\ token'[AssetOf[v]][v] <= token[AssetOf[v]][v]
        /\ token[AssetOf[v]][v] - token'[AssetOf[v]][v] = n
    BY <1>1, <2>1
  <2>3. Fund(v)!Lend
    BY <2>1, <2>2 DEF Fund!Lend, Fund!Worth, Worth
  <2>. QED  BY <2>3 DEF PoolStep, Fund!BatchNext, Fund!Next
<1>. QED  BY <1>2, <1>3

-----------------------------------------------------------------------------
(* The operations of an account *)

PoolSteps == \A v \in CeFiVaults : PoolStep(v)

\* A transaction that enters, or leaves and then enters, or does nothing.
LEMMA TransactionSteps ==
    ASSUME IInv, NEW h \in Holders, NEW y, Good(y), NEW z, Good(z), Commit(z),
           NEW v \in CeFiVaults,
           Same(World, y, v) \/ Leaves(World, y, v, h),
           Same(y, z, v) \/ Enters(y, z, v, h)
    PROVE PoolStep(v)
<1>1. World' = z
  BY Committed
<1>2. CASE Same(World, y, v) /\ Same(y, z, v)
  <2>1. Same(World, World', v)
    BY <1>1, <1>2 DEF Same
  <2>. QED  BY <2>1, SameIsNoStep
<1>3. CASE Same(World, y, v) /\ Enters(y, z, v, h)
  <2>1. Enters(World, World', v, h)
    BY <1>1, <1>3 DEF Same, Enters
  <2>. QED  BY <2>1, EnteringIsAStep
<1>4. CASE Leaves(World, y, v, h) /\ Same(y, z, v)
  <2>1. Leaves(World, World', v, h)
    BY <1>1, <1>4 DEF Same, Leaves
  <2>. QED  BY <2>1, LeavingIsAStep
<1>5. CASE Leaves(World, y, v, h) /\ Enters(y, z, v, h)
  BY <1>1, <1>5, ReenteringIsAStep
<1>. QED  BY <1>2, <1>3, <1>4, <1>5

\* The money passes through the account, which enters.
LEMMA DepositSteps ==
    ASSUME IInv, NEW c \in Users, NEW a \in Accounts, NEW s \in SubIds, NEW x \in Assets,
           NEW n \in Amounts, Deposit(c, a, x, n, s)
    PROVE PoolSteps
<1>1. PICK p \in Paid(World, x, c, a, n) :
          \E z \in Credited(p, a, link[a][s], x, n) : Commit(z)
  BY DEF Deposit
<1>2. PICK z \in Credited(p, a, link[a][s], x, n) : Commit(z)
  BY <1>1
<1>3. /\ n \in Nat /\ c \in Holders \ CeFiVaults /\ a \in Holders \ CeFiVaults
      /\ link[a][s] \in LinkType /\ Good(World)
  BY AmountsAreWords, Parties, BooksAreWords DEF IInv
<1>4. Good(p) /\ \A v \in CeFiVaults : Same(World, p, v)
  BY <1>3, PaidElsewhere
<1>5. Good(z) /\ \A v \in CeFiVaults : Same(p, z, v) \/ Enters(p, z, v, a)
  BY <1>3, <1>4, CreditedIsFair, CreditedEnters
<1>. QED  BY <1>2, <1>3, <1>4, <1>5, TransactionSteps DEF PoolSteps

\* The account leaves, and pays its owner.
LEMMA WithdrawSteps ==
    ASSUME IInv, NEW c \in Users, NEW a \in Accounts, NEW s \in SubIds, NEW x \in Assets,
           NEW n \in Amounts, Withdraw(c, a, x, n, s)
    PROVE PoolSteps
<1>1. PICK d \in Debited(World, a, link[a][s], x, n, book[a][s][x]) :
          \E z \in Paid(d.world, x, a, c, n) : Commit(z)
  BY DEF Withdraw
<1>2. PICK z \in Paid(d.world, x, a, c, n) : Commit(z)
  BY <1>1
<1>3. /\ n \in Nat /\ c \in Holders \ CeFiVaults /\ a \in Holders \ CeFiVaults
      /\ link[a][s] \in LinkType /\ Good(World) /\ book[a][s][x] \in Nat
  BY AmountsAreWords, Parties, BooksAreWords DEF IInv
<1>4. Good(d.world) /\ \A v \in CeFiVaults : Same(World, d.world, v) \/ Leaves(World, d.world, v, a)
  BY <1>3, DebitedIsFair, DebitedLeaves
<1>5. Good(z) /\ \A v \in CeFiVaults : Same(d.world, z, v)
  BY <1>3, <1>4, PaidElsewhere
<1>. QED  BY <1>2, <1>3, <1>4, <1>5, TransactionSteps DEF PoolSteps

\* It leaves one vault and enters another, or the same.
LEMMA InternalTransferSteps ==
    ASSUME IInv, NEW c \in Users, NEW a \in Accounts, NEW s \in SubIds, NEW t \in SubIds,
           NEW x \in Assets, NEW n \in Amounts, InternalTransfer(c, a, x, n, s, t)
    PROVE PoolSteps
<1>1. PICK d \in Debited(World, a, link[a][s], x, n, book[a][s][x]) :
          \E z \in Credited(d.world, a, link[a][t], x, n) : Commit(z)
  BY DEF InternalTransfer
<1>2. PICK z \in Credited(d.world, a, link[a][t], x, n) : Commit(z)
  BY <1>1
<1>3. /\ n \in Nat /\ a \in Holders /\ link[a][s] \in LinkType /\ link[a][t] \in LinkType
      /\ Good(World) /\ book[a][s][x] \in Nat
  BY AmountsAreWords, Parties, BooksAreWords DEF IInv
<1>4. Good(d.world) /\ \A v \in CeFiVaults : Same(World, d.world, v) \/ Leaves(World, d.world, v, a)
  BY <1>3, DebitedIsFair, DebitedLeaves
<1>5. Good(z) /\ \A v \in CeFiVaults : Same(d.world, z, v) \/ Enters(d.world, z, v, a)
  BY <1>3, <1>4, CreditedIsFair, CreditedEnters
<1>. QED  BY <1>2, <1>3, <1>4, <1>5, TransactionSteps DEF PoolSteps

\* A swap goes nowhere near a vault.
LEMMA InternalSwapSteps ==
    ASSUME IInv, NEW c \in Users, NEW a \in Accounts, NEW x \in Assets, NEW y \in Assets,
           NEW n \in Amounts, NEW min \in Amounts, InternalSwap(c, a, x, y, n, min)
    PROVE PoolSteps
<1>1. PICK used \in 1 .. n, amountOut \in min .. token[y][Pool] :
          swapExactInputSingle(a, x, y, n, used, amountOut)
  BY DEF InternalSwap
<1>2. /\ a \in Holders \ CeFiVaults /\ UniswapHelper \in Holders \ CeFiVaults
      /\ Pool \in Holders \ CeFiVaults /\ Good(World)
  BY Parties DEF IInv
<1>3. n \in Nat /\ min \in Nat /\ token[y][Pool] \in Nat
  BY <1>2, AmountsAreWords, TokensAreNaturals
<1>4. used \in Nat /\ amountOut \in Nat
  BY <1>3
<1>5. PICK pulled \in Paid(World, x, a, UniswapHelper, n) :
          \E traded \in Paid(pulled, x, UniswapHelper, Pool, used) :
              \E z \in Paid(traded, y, Pool, a, amountOut) : Commit(z)
  BY <1>1 DEF swapExactInputSingle
<1>6. PICK traded \in Paid(pulled, x, UniswapHelper, Pool, used) :
          \E z \in Paid(traded, y, Pool, a, amountOut) : Commit(z)
  BY <1>5
<1>7. PICK z \in Paid(traded, y, Pool, a, amountOut) : Commit(z)
  BY <1>6
<1>8. Good(pulled) /\ \A v \in CeFiVaults : Same(World, pulled, v)
  BY <1>2, <1>3, PaidElsewhere
<1>9. Good(traded) /\ \A v \in CeFiVaults : Same(pulled, traded, v)
  BY <1>2, <1>4, <1>8, PaidElsewhere
<1>10. Good(z) /\ \A v \in CeFiVaults : Same(traded, z, v)
  BY <1>2, <1>4, <1>9, PaidElsewhere
<1>11. \A v \in CeFiVaults : Same(World, traded, v)
  BY <1>8, <1>9 DEF Same
<1>. QED  BY <1>2, <1>7, <1>9, <1>10, <1>11, TransactionSteps DEF PoolSteps

\* Linking a sub-account with a book enters.
LEMMA LinkSteps ==
    ASSUME IInv, NEW c \in Users, NEW a \in Accounts, NEW s \in SubIds,
           NEW v \in CeFiVaults, LinkSubaccountToVault(c, a, s, v)
    PROVE PoolSteps
<1>. DEFINE balance == book[a][s][AssetOf[v]]
<1>1. Good(World) /\ balance \in Nat /\ a \in Holders
  BY Parties, BooksAreWords DEF IInv
<1>2. \A u \in CeFiVaults : Same(World, World, u)
  BY DEF Same
<1>3. CASE balance = 0
  <2>1. Commit(World)
    BY <1>3 DEF LinkSubaccountToVault, Commit, World
  <2>. QED  BY <1>1, <1>2, <2>1, TransactionSteps DEF PoolSteps
<1>4. CASE balance # 0
  <2>1. PICK out \in deposit(World.vault[v], World.token[AssetOf[v]], v, a, balance, a) :
            Commit(VaultCalled(World, v, out))
    BY <1>4 DEF LinkSubaccountToVault, Invested
  <2>. DEFINE z == VaultCalled(World, v, out)
  <2>2. Good(z)
    BY <1>1, <2>1, InvestedIsFair
  <2>3. \A u \in CeFiVaults : Same(World, z, u) \/ Enters(World, z, u, a)
    BY <1>1, <2>1, InvestedEnters
  <2>. HIDE DEF z
  <2>4. Commit(z)
    BY <2>1 DEF z
  <2>. QED  BY <1>1, <1>2, <2>2, <2>3, <2>4, TransactionSteps DEF PoolSteps
<1>. QED  BY <1>3, <1>4

-----------------------------------------------------------------------------
(* The calls of others *)

\* A call of one vault that moves no shares.
LEMMA VaultCallSteps ==
    ASSUME IInv, NEW v \in CeFiVaults, NEW out, Outcome(World, v, out),
           Commit(VaultCalled(World, v, out)),
           out.v.totalSupply = vault[v].totalSupply,
           out.v.balanceOf = vault[v].balanceOf,
           \/ out.bal[v] >= token[AssetOf[v]][v]
           \/ \E n \in Nat :
                /\ out.bal[v] = token[AssetOf[v]][v] - n
                /\ out.v.borrowedFunds = vault[v].borrowedFunds + n
                /\ out.v.borrowedFunds * BPS
                     <= Worth(vault[v], token[AssetOf[v]][v]) * MAX_BORROW_RATIO
    PROVE PoolSteps
<1>. DEFINE z == VaultCalled(World, v, out)
<1>1. /\ Good(z) /\ z.vault[v] = out.v /\ Held(z, v) = out.bal[v]
      /\ \A u \in CeFiVaults \ {v} : Same(World, z, u)
  BY CallIsGood DEF IInv, Same
<1>2. World' = z
  BY <1>1, Committed
<1>3. vault'[v] = out.v /\ token'[AssetOf[v]][v] = out.bal[v]
  BY <1>1, <1>2, PoolOfVault
<1>4. out.bal[v] \in Nat /\ out.v.borrowedFunds \in Nat
  BY Parties, StoreOfNaturals DEF Outcome, Ledger
<1>5. PoolStep(v)
  BY <1>3, <1>4, MoneyIsAStep
<1>6. ASSUME NEW u \in CeFiVaults \ {v} PROVE PoolStep(u)
  BY <1>1, <1>2, SameIsNoStep
<1>. QED  BY <1>5, <1>6 DEF PoolSteps

LEMMA BorrowSteps ==
    ASSUME IInv, NEW c \in Users, NEW v \in CeFiVaults, NEW n \in Amounts, Borrow(c, v, n)
    PROVE PoolSteps
<1>. DEFINE s == vault[v]
            bal == token[AssetOf[v]]
<1>1. PICK out \in borrow(s, bal, v, c, n) : Commit(VaultCalled(World, v, out))
  BY DEF Borrow, VaultCall
<1>2. n \in Nat
  BY AmountsAreWords
<1>3. /\ out.v \in Store(Holders) /\ out.v.totalSupply = s.totalSupply
      /\ out.v.balanceOf = s.balanceOf
      /\ out.v.borrowedFunds = s.borrowedFunds + n
      /\ out.bal[v] = bal[v] - n
      /\ out.v.borrowedFunds * BPS <= Worth(s, bal[v]) * MAX_BORROW_RATIO
  BY <1>2, OwnVault, BorrowEffect
<1>4. Sound(out.v)
  BY <1>3, OwnVault DEF Sound
<1>5. CanPay(bal, v, n) /\ out.bal = Moved(bal, v, c, n)
  BY DEF borrow
<1>6. Outcome(World, v, out)
  BY <1>2, <1>3, <1>4, <1>5, OwnVault, OutcomeOf
<1>. QED  BY <1>1, <1>2, <1>3, <1>6, VaultCallSteps

LEMMA RefundSteps ==
    ASSUME IInv, NEW c \in Users, NEW v \in CeFiVaults, NEW n \in Amounts, NEW i \in Amounts,
           NEW l \in Amounts, Refund(c, v, n, i, l)
    PROVE PoolSteps
<1>. DEFINE s == vault[v]
            bal == token[AssetOf[v]]
<1>1. PICK out \in refund(s, bal, v, c, n, i, l) : Commit(VaultCalled(World, v, out))
  BY DEF Refund, VaultCall
<1>2. n \in Uint /\ i \in Uint /\ l \in Uint
  BY AmountsAreWords
<1>3. /\ out.v \in Store(Holders) /\ out.v.totalSupply = s.totalSupply
      /\ out.v.balanceOf = s.balanceOf
      /\ out.bal[v] >= bal[v]
  BY <1>2, OwnVault, RefundEffect
<1>4. Sound(out.v)
  BY <1>3, OwnVault DEF Sound
<1>5. out.ret \in Nat /\ CanPay(bal, c, out.ret) /\ out.bal = Moved(bal, c, v, out.ret)
  BY AmountsAreWords DEF refund, refundSum, Checked
<1>6. Outcome(World, v, out)
  BY <1>3, <1>4, <1>5, OwnVault, OutcomeOf
<1>. QED  BY <1>1, <1>3, <1>6, VaultCallSteps

LEMMA InvestSteps ==
    ASSUME IInv, NEW c \in Users, NEW v \in CeFiVaults, NEW n \in Amounts,
           NEW r \in Users \cup Accounts, Invest(c, v, n, r)
    PROVE PoolSteps
<1>1. PICK out \in deposit(vault[v], token[AssetOf[v]], v, c, n, r) :
          Commit(VaultCalled(World, v, out))
  BY DEF Invest, VaultCall
<1>. DEFINE z == VaultCalled(World, v, out)
<1>2. n \in Nat /\ r \in Holders
  BY AmountsAreWords, Parties
<1>3. Good(World) /\ Good(z)
  BY <1>2, OwnVault, InvestedIsFair
<1>4. \A u \in CeFiVaults : Same(World, World, u) /\ (Same(World, z, u) \/ Enters(World, z, u, r))
  BY <1>2, OwnVault, InvestedEnters DEF Same
<1>. HIDE DEF z
<1>5. Commit(z)
  BY <1>1 DEF z
<1>. QED  BY <1>2, <1>3, <1>4, <1>5, TransactionSteps DEF PoolSteps

LEMMA RedeemSteps ==
    ASSUME IInv, NEW c \in Users, NEW v \in CeFiVaults, NEW n \in Amounts, Redeem(c, v, n)
    PROVE PoolSteps
<1>. DEFINE s == vault[v]
            bal == token[AssetOf[v]]
<1>1. PICK out \in redeem(s, bal, v, n, c, c) : Commit(VaultCalled(World, v, out))
  BY DEF Redeem, VaultCall
<1>. DEFINE z == VaultCalled(World, v, out)
<1>2. n \in Nat /\ c \in Holders
  BY AmountsAreWords, Parties
<1>3. ExitFacts(s, bal, v, c, c, out.ret, n, out)
  BY <1>2, OwnVault, RedeemOutcome
<1>4. out.v \in Store(Holders) /\ Sound(out.v)
  BY <1>3, OwnVault, ExitEffect
<1>5. out.ret \in Nat /\ CanPay(bal, v, out.ret) /\ out.bal = Moved(bal, v, c, out.ret)
  BY <1>3 DEF ExitFacts
<1>6. Outcome(World, v, out)
  BY <1>4, <1>5, OwnVault, OutcomeOf
<1>7. Good(World) /\ Good(z)
  BY <1>6, OwnVault, CallIsGood
<1>8. \A u \in CeFiVaults : Same(z, z, u) /\ (Same(World, z, u) \/ Leaves(World, z, u, c))
  <2>1. ExitFacts(World.vault[v], World.token[AssetOf[v]], v, c, c, out.ret, n, out)
    BY <1>3, OwnVault
  <2>2. Leaves(World, z, v, c) /\ \A u \in CeFiVaults \ {v} : Same(World, z, u)
    BY <1>7, <2>1, ExitLeaves
  <2>3. \A u \in CeFiVaults : Same(z, z, u)
    BY DEF Same
  <2>. QED  BY <2>2, <2>3
<1>. HIDE DEF z
<1>9. Commit(z)
  BY <1>1 DEF z
<1>. QED  BY <1>2, <1>7, <1>8, <1>9, TransactionSteps DEF PoolSteps

\* Tokens sent to a vault are a gain of its pool.
LEMMA TokenTransferSteps ==
    ASSUME IInv, NEW c \in Users, NEW x \in Assets, NEW h \in Donees, NEW n \in Amounts,
           TokenTransfer(c, x, h, n)
    PROVE PoolSteps
<1>. SUFFICES ASSUME NEW v \in CeFiVaults PROVE PoolStep(v)
  BY DEF PoolSteps
<1>1. PICK z \in Paid(World, x, c, h, n) : Commit(z)
  BY DEF TokenTransfer
<1>2. /\ n \in Nat /\ c \in Holders \ CeFiVaults /\ h \in Holders /\ Good(World)
      /\ v \in Holders /\ AssetOf[v] \in Assets
  BY AmountsAreWords, Parties, AccountAssumption DEF IInv
<1>3. Good(z) /\ z.vault = World.vault
  BY <1>2, PaidIsFair
<1>4. World' = z
  BY <1>1, <1>3, Committed
<1>5. vault'[v] = vault[v] /\ Held(z, v) = token'[AssetOf[v]][v] /\ Held(z, v) \in Nat
  BY <1>3, <1>4, PoolOfVault, GoodVault
<1>6. token'[AssetOf[v]][v] >= token[AssetOf[v]][v]
  <2>1. CASE h \notin CeFiVaults
    <3>1. Same(World, z, v)
      BY <1>1, <1>2, <2>1, PaidElsewhere
    <3>. QED  BY <1>5, <3>1, PoolOfVault DEF Same
  <2>2. CASE h \in CeFiVaults
    <3>1. Shift(World, z, x, c, h, n)
      BY <1>1, <1>2, <2>2, PaidShifts
    <3>2. z.token[AssetOf[v]][v] >= World.token[AssetOf[v]][v]
      <4>1. World.token[AssetOf[v]][v] \in Nat /\ v # c
        BY <1>2, GoodVault
      <4>. QED  BY <1>2, <3>1, <4>1 DEF Shift
    <3>. QED  BY <1>5, <3>2, PoolOfVault DEF Held
  <2>. QED  BY <2>1, <2>2
<1>7. vault[v].borrowedFunds \in Nat
  BY PoolOfVault
<1>. QED  BY <1>5, <1>6, <1>7, MoneyIsAStep

\* The Bank moves no token and no share.
LEMMA BankSteps == ASSUME IInv, UNCHANGED <<token, vault>> PROVE PoolSteps
<1>1. World' = World
  BY DEF World
<1>2. \A v \in CeFiVaults : Same(World, World', v)
  BY <1>1 DEF Same
<1>. QED  BY <1>2, SameIsNoStep DEF PoolSteps

-----------------------------------------------------------------------------
(* Every step *)

LEMMA NextSteps == ASSUME IInv, [Next]_vars PROVE PoolSteps
<1>1. CASE AccountNext
  BY <1>1, AccountAssumption, DepositSteps, WithdrawSteps, InternalTransferSteps,
     InternalSwapSteps, LinkSteps DEF AccountNext, AccountCall
<1>2. CASE OthersNext
  <2>1. Investors \subseteq Users
    BY AccountAssumption
  <2>. QED  BY <1>2, <2>1, BorrowSteps, RefundSteps, InvestSteps, RedeemSteps,
               TokenTransferSteps DEF OthersNext, OtherCall
<1>3. CASE BankCall
  BY <1>3, BankSteps DEF BankCall
<1>4. CASE UNCHANGED vars
  BY <1>4, BankSteps DEF vars
<1>. QED  BY <1>1, <1>2, <1>3, <1>4, NextCases

\* Vaults are deployed with no shares and nothing lent out.
LEMMA InitPools == ASSUME Init PROVE \A v \in CeFiVaults : Fund(v)!Init
<1>. SUFFICES ASSUME NEW v \in CeFiVaults PROVE Fund(v)!Init
  OBVIOUS
<1>1. token[AssetOf[v]][v] \in Nat
  BY InitInvariant, PoolOfVault
<1>2. vault[v] = EmptyVault(Holders)
  BY DEF Init
<1>. QED  BY <1>1, <1>2 DEF EmptyVault, Fund!Init

\* Whatever accounts, their users and its owner do to it, in whatever mixture of
\* calls, a vault of the composition buys and sells its shares at their price,
\* lends within the ratio and books what comes back.
THEOREM EveryVaultImplementsPool == Spec => EveryVaultIsAPool
<1>1. ASSUME IInv, [Next]_vars
      PROVE [\A v \in CeFiVaults : UNCHANGED Fund(v)!vars \/ Fund(v)!BatchNext]_vars
  BY <1>1, NextSteps DEF PoolSteps, PoolStep
<1>2. Init => \A v \in CeFiVaults : Fund(v)!Init
  BY InitPools
<1>. QED  BY <1>1, <1>2, LedgersAddUp, PTL DEF Spec, EveryVaultIsAPool
=============================================================================
