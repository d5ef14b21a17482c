--------------------------- MODULE VaultCeFiProofs ---------------------------
(***************************************************************************)
(* The safety of VaultCeFi, proved for every set of users, every size of   *)
(* the machine word and every initial distribution of the underlying.      *)
(*                                                                         *)
(* TypeOK alone is inductive, but says nothing of the unchecked additions. *)
(* The inductive invariant adds that the share balances sum to the supply; *)
(* every other property is read off it and the effect of one step.         *)
(***************************************************************************)
EXTENDS VaultCeFi, ShareVaultLemmas

IInv == TypeOK /\ SharesAddUp

\* The calls of a step, by what they are about.
HolderNext == \E c \in Users : HolderCall(c)

OwnerNext == \E c \in Users : OwnerCall(c)

LEMMA NextCases ==
    ASSUME Next
    PROVE HolderNext \/ (\E c, s \in Users, n \in Approvals : Approve(c, s, n)) \/ OwnerNext
  BY DEF Next, Call, HolderNext, OwnerNext

-----------------------------------------------------------------------------
(* The effect of one step *)

\* Amounts are words, words are naturals, callers are not the vault.
LEMMA Bounds ==
    /\ Amounts \subseteq Nat /\ Amounts \subseteq Uint
    /\ Users \subseteq Addresses /\ Self \in Addresses /\ Self \notin Users
  BY VaultAssumption, UintMaxAssumption DEF Addresses, Uint

\* The invariant in the terms of ShareVaultLemmas.
LEMMA InvariantIsSound ==
    ASSUME IInv
    PROVE /\ vault \in Store(Addresses) /\ Sound(vault)
          /\ bal \in [Addresses -> Nat]
          /\ vault.totalSupply \in Nat /\ bal[Self] \in Nat
          /\ Worth(vault, bal[Self]) = TotalAssets /\ TotalAssets \in Nat
<1>1. vault \in Store(Addresses) /\ Sound(vault) /\ bal \in [Addresses -> Nat]
  BY DEF IInv, TypeOK, SharesAddUp, VaultType, Store, Sound
<1>2. bal[Self] \in Nat
  BY <1>1, Bounds
<1>. QED  BY <1>1, <1>2, StoreOfNaturals, PreviewsAreNaturals DEF TotalAssets

\* A step of a holder keeps the ledger sound, takes value from no share, and
\* pays underlying out only for burnt shares.
HolderEffect ==
    /\ vault' \in Store(Addresses) /\ Sound(vault') /\ bal' \in [Addresses -> Nat]
    /\ vault.totalSupply # 0 =>
          Worth(vault', bal'[Self]) * vault.totalSupply >= TotalAssets * vault'.totalSupply
    /\ bal'[Self] < bal[Self] => vault'.totalSupply < vault.totalSupply

\* Deposit and Mint are entries.
LEMMA EntryStep ==
    ASSUME IInv, NEW c \in Users, NEW r \in Addresses, NEW assets, NEW shares, NEW out,
           EntryFacts(vault, bal, Self, c, r, assets, shares, out), Commit(out)
    PROVE HolderEffect
<1>1. c \in Addresses \ {Self} /\ Self \in Addresses
  BY Bounds
<1>2. vault' = out.v /\ bal' = out.bal
  BY DEF Commit
<1>3. /\ out.v \in Store(Addresses) /\ out.bal \in [Addresses -> Nat]
      /\ out.bal[Self] = bal[Self] + assets
      /\ Sound(out.v)
      /\ vault.totalSupply # 0 => NoShareLoses(vault, bal, Self, out)
  BY <1>1, InvariantIsSound, EntryEffect
<1>4. assets \in Nat
  BY DEF EntryFacts
<1>. QED  BY <1>2, <1>3, <1>4, InvariantIsSound DEF HolderEffect, NoShareLoses

\* Withdraw and Redeem are exits: what is paid out is worth no more than the
\* burnt shares, so that a payment of anything burns at least one.
LEMMA ExitStep ==
    ASSUME IInv, NEW r \in Addresses, NEW h \in Addresses, NEW assets, NEW shares, NEW out,
           ExitFacts(vault, bal, Self, r, h, assets, shares, out), Commit(out)
    PROVE HolderEffect
<1>1. vault' = out.v /\ bal' = out.bal
  BY DEF Commit
<1>2. /\ out.v \in Store(Addresses) /\ out.bal \in [Addresses -> Nat]
      /\ out.v.totalSupply = vault.totalSupply - shares
      /\ out.bal[Self] = bal[Self] - (IF r = Self THEN 0 ELSE assets)
      /\ Sound(out.v)
      /\ vault.totalSupply # 0 => NoShareLoses(vault, bal, Self, out)
  BY Bounds, InvariantIsSound, ExitEffect
<1>3. assets \in Nat /\ shares \in Nat
  BY DEF ExitFacts
<1>4. ASSUME bal'[Self] < bal[Self] PROVE vault'.totalSupply < vault.totalSupply
  <2>1. assets > 0
    BY <1>1, <1>2, <1>3, <1>4, InvariantIsSound
  <2>2. shares > 0
    <3>1. CASE vault.totalSupply = 0
      BY <2>1, <3>1 DEF ExitFacts
    <3>2. CASE vault.totalSupply # 0
      <4>1. assets * vault.totalSupply <= shares * Worth(vault, bal[Self])
        BY <3>2 DEF ExitFacts
      <4>2. assets * vault.totalSupply > 0
        BY <2>1, <1>3, <3>2, InvariantIsSound
      <4>3. shares = 0 => shares * Worth(vault, bal[Self]) = 0
        BY InvariantIsSound
      <4>4. assets * vault.totalSupply \in Nat
        BY <1>3, InvariantIsSound
      <4>. QED  BY <4>1, <4>2, <4>3, <4>4, <1>3
    <3>. QED  BY <3>1, <3>2
  <2>. QED  BY <1>1, <1>2, <1>3, <2>2, InvariantIsSound
<1>. QED  BY <1>1, <1>2, <1>4, InvariantIsSound DEF HolderEffect, NoShareLoses

\* Transfer and TransferFrom only move shares.
LEMMA ShareTransferStep ==
    ASSUME IInv, NEW from \in Addresses, NEW to \in Addresses, NEW n \in Nat,
           vault' \in transfer(vault, from, to, n), bal' = bal
    PROVE HolderEffect
<1>1. /\ vault' \in Store(Addresses) /\ Sound(vault')
      /\ vault'.totalSupply = vault.totalSupply
      /\ vault'.borrowedFunds = vault.borrowedFunds
  BY InvariantIsSound, TransferSound
<1>2. Worth(vault', bal'[Self]) = TotalAssets
  BY <1>1 DEF Worth, TotalAssets
<1>. QED  BY <1>1, <1>2, InvariantIsSound DEF HolderEffect

\* A transfer of the underlying by a user never takes any from the vault.
LEMMA TokenTransferStep ==
    ASSUME IInv, NEW c \in Users, NEW r \in Addresses, NEW n \in Amounts,
           TokenTransfer(c, r, n)
    PROVE HolderEffect
<1>1. /\ CanPay(bal, c, n) /\ bal' = Moved(bal, c, r, n) /\ vault' = vault
      /\ n \in Nat /\ c \in Addresses /\ c # Self
  BY Bounds DEF TokenTransfer
<1>2. bal' \in [Addresses -> Nat]
  BY <1>1, InvariantIsSound, MovedBalances
<1>3. bal'[Self] >= bal[Self]
  BY <1>1, Bounds, InvariantIsSound, MovedBalances
<1>4. bal'[Self] \in Nat /\ vault.borrowedFunds \in Nat
  BY <1>2, Bounds, InvariantIsSound, StoreOfNaturals
<1>5. Worth(vault', bal'[Self]) >= TotalAssets /\ Worth(vault', bal'[Self]) \in Nat
  BY <1>1, <1>3, <1>4, InvariantIsSound DEF Worth, TotalAssets
<1>6. Worth(vault', bal'[Self]) * vault.totalSupply >= TotalAssets * vault.totalSupply
  <2>. DEFINE W == Worth(vault', bal'[Self])
  <2>1. W \in Nat /\ W >= TotalAssets
    BY <1>5
  <2>. HIDE DEF W
  <2>2. W * vault.totalSupply >= TotalAssets * vault.totalSupply
    BY <2>1, InvariantIsSound
  <2>. QED  BY <2>2 DEF W
<1>. QED  BY <1>1, <1>2, <1>3, <1>4, <1>6, InvariantIsSound DEF HolderEffect

\* Every step of HolderNext.
LEMMA HolderStep == ASSUME IInv, HolderNext PROVE HolderEffect
<1>. PICK c \in Users, n \in Amounts :
        \/ \E r \in Addresses :
              \/ Deposit(c, n, r)
              \/ Mint(c, n, r)
              \/ Transfer(c, r, n)
              \/ TokenTransfer(c, r, n)
        \/ \E r, h \in Addresses :
              \/ Withdraw(c, n, r, h)
              \/ Redeem(c, n, r, h)
              \/ TransferFrom(c, h, r, n)
  BY DEF HolderNext, HolderCall
<1>. n \in Nat /\ c \in Addresses /\ Self \in Addresses
  BY Bounds
<1>1. ASSUME NEW r \in Addresses, Deposit(c, n, r) PROVE HolderEffect
  BY <1>1, InvariantIsSound, DepositOutcome, EntryStep DEF Deposit
<1>2. ASSUME NEW r \in Addresses, Mint(c, n, r) PROVE HolderEffect
  BY <1>2, InvariantIsSound, MintOutcome, EntryStep DEF Mint
<1>3. ASSUME NEW r \in Addresses, Transfer(c, r, n) PROVE HolderEffect
  BY <1>3, ShareTransferStep DEF Transfer
<1>4. ASSUME NEW r \in Addresses, TokenTransfer(c, r, n) PROVE HolderEffect
  BY <1>4, TokenTransferStep
<1>5. ASSUME NEW r \in Addresses, NEW h \in Addresses, Withdraw(c, n, r, h)
      PROVE HolderEffect
  BY <1>5, InvariantIsSound, WithdrawOutcome, ExitStep DEF Withdraw
<1>6. ASSUME NEW r \in Addresses, NEW h \in Addresses, Redeem(c, n, r, h)
      PROVE HolderEffect
  BY <1>6, InvariantIsSound, RedeemOutcome, ExitStep DEF Redeem
<1>7. ASSUME NEW r \in Addresses, NEW h \in Addresses, TransferFrom(c, h, r, n)
      PROVE HolderEffect
  BY <1>7, ShareTransferStep DEF TransferFrom
<1>. QED  BY <1>1, <1>2, <1>3, <1>4, <1>5, <1>6, <1>7

\* A loan is booked in full, within the ratio, and paid to the owner.
LoanEffect ==
    /\ vault' \in Store(Addresses) /\ bal' \in [Addresses -> Nat]
    /\ vault'.totalSupply = vault.totalSupply
    /\ vault'.balanceOf = vault.balanceOf
    /\ bal'[Self] <= bal[Self]
    /\ vault'.borrowedFunds = vault.borrowedFunds + (bal[Self] - bal'[Self])
    /\ Worth(vault', bal'[Self]) = TotalAssets
    /\ vault'.borrowedFunds * BPS <= TotalAssets * MAX_BORROW_RATIO
    /\ bal'[Self] < bal[Self] => LentToOwner

\* Every Borrow step.
LEMMA BorrowStep ==
    ASSUME IInv, NEW c \in Users, NEW n \in Amounts, Borrow(c, n)
    PROVE LoanEffect
<1>1. PICK out \in borrow(vault, bal, Self, c, n) : Commit(out) /\ c = owner
  BY DEF Borrow
<1>2. vault' = out.v /\ bal' = out.bal
  BY <1>1 DEF Commit
<1>3. c \in Addresses \ {Self} /\ Self \in Addresses /\ n \in Nat
  BY Bounds
<1>4. /\ out.v \in Store(Addresses) /\ out.bal \in [Addresses -> Nat]
      /\ out.v.totalSupply = vault.totalSupply
      /\ out.v.balanceOf = vault.balanceOf
      /\ out.v.borrowedFunds = vault.borrowedFunds + n
      /\ out.bal[Self] = bal[Self] - n
      /\ out.bal[c] = bal[c] + n
      /\ Worth(out.v, out.bal[Self]) = TotalAssets
      /\ out.v.borrowedFunds * BPS <= TotalAssets * MAX_BORROW_RATIO
  BY <1>1, <1>3, InvariantIsSound, BorrowEffect
<1>5. vault.borrowedFunds \in Nat /\ bal[c] \in Nat
  BY <1>3, InvariantIsSound, StoreOfNaturals
<1>6. LentToOwner
  BY <1>1, <1>2, <1>3, <1>4, <1>5, InvariantIsSound DEF LentToOwner
<1>7. /\ bal'[Self] <= bal[Self]
      /\ vault'.borrowedFunds = vault.borrowedFunds + (bal[Self] - bal'[Self])
  BY <1>2, <1>3, <1>4, <1>5, InvariantIsSound
<1>. QED  BY <1>2, <1>4, <1>6, <1>7 DEF LoanEffect

\* Every Refund step takes nothing from the vault's tokens; only one with more
\* losses than interest lowers what the shares are worth.
LEMMA RefundStep ==
    ASSUME IInv, NEW c \in Users, NEW n \in Amounts, NEW i \in Amounts, NEW l \in Amounts,
           Refund(c, n, i, l)
    PROVE /\ vault' \in Store(Addresses) /\ bal' \in [Addresses -> Nat]
          /\ vault'.totalSupply = vault.totalSupply
          /\ vault'.balanceOf = vault.balanceOf
          /\ bal'[Self] >= bal[Self]
          /\ l <= i => Worth(vault', bal'[Self]) >= TotalAssets
<1>1. PICK out \in refund(vault, bal, Self, c, n, i, l) : Commit(out)
  BY DEF Refund
<1>2. vault' = out.v /\ bal' = out.bal
  BY <1>1 DEF Commit
<1>3. c \in Addresses \ {Self} /\ Self \in Addresses /\ n \in Uint /\ i \in Uint /\ l \in Uint
  BY Bounds
<1>4. /\ out.v \in Store(Addresses) /\ out.bal \in [Addresses -> Nat]
      /\ out.v.totalSupply = vault.totalSupply
      /\ out.v.balanceOf = vault.balanceOf
      /\ out.bal[Self] >= bal[Self]
      /\ l <= i => Worth(out.v, out.bal[Self]) >= TotalAssets
  BY <1>1, <1>3, InvariantIsSound, RefundEffect
<1>. QED  BY <1>2, <1>4

-----------------------------------------------------------------------------
(* The inductive invariant *)

\* A deployed vault has no shares, and no shares add up to none.
LEMMA InitInvariant == Init => IInv
<1>. SUFFICES ASSUME Init PROVE IInv
  OBVIOUS
<1>1. 0 \in Uint
  BY UintMaxAssumption DEF Uint
<1>2. vault \in VaultType
  BY <1>1 DEF Init, EmptyVault, VaultType
<1>3. /\ allowance \in [Addresses -> [Users -> Uint]]
      /\ owner \in Users \cup {NoOwner}
      /\ bal \in [Addresses -> Nat]
  BY <1>1, VaultAssumption DEF Init, Uint
<1>4. SharesAddUp
  BY SumOfNothing DEF Init, EmptyVault, SharesAddUp
<1>. QED  BY <1>2, <1>3, <1>4 DEF IInv, TypeOK

\* The allowance map keeps its type: approve stores a word, spending checks
\* that what is left is one.
LEMMA SpendAllowanceType ==
    ASSUME IInv, NEW h \in Addresses, NEW s \in Users, NEW n \in Nat, SpendAllowance(h, s, n)
    PROVE allowance' \in [Addresses -> [Users -> Uint]]
<1>1. allowance \in [Addresses -> [Users -> Uint]]
  BY DEF IInv, TypeOK
<1>2. CASE allowance' = allowance
  BY <1>1, <1>2
<1>3. CASE /\ allowance[h][s] >= n
           /\ allowance' = [allowance EXCEPT ![h][s] = allowance[h][s] - n]
  <2>1. allowance[h][s] \in Uint
    BY <1>1
  <2>2. allowance[h][s] - n \in Uint
    BY <2>1, <1>3, UintMaxAssumption DEF Uint
  <2>. QED  BY <1>1, <1>3, <2>2
<1>. QED  BY <1>2, <1>3 DEF SpendAllowance

\* Every step keeps allowance and owner in their types.
LEMMA NextTypes ==
    ASSUME IInv, Next
    PROVE /\ allowance' \in [Addresses -> [Users -> Uint]]
          /\ owner' \in Users \cup {NoOwner}
<1>1. allowance \in [Addresses -> [Users -> Uint]] /\ owner \in Users \cup {NoOwner}
  BY DEF IInv, TypeOK
<1>2. CASE UNCHANGED <<allowance, owner>>
  BY <1>1, <1>2
<1>3. ASSUME NEW c \in Users, NEW n \in Amounts, NEW r \in Addresses, NEW h \in Addresses,
             Withdraw(c, n, r, h)
      PROVE UNCHANGED owner /\ allowance' \in [Addresses -> [Users -> Uint]]
  <2>1. PICK out \in withdraw(vault, bal, Self, n, r, h) : SpendUnlessHolder(h, c, out.ret)
    BY <1>3 DEF Withdraw
  <2>2. out.ret \in Nat
    BY Bounds, InvariantIsSound, WithdrawOutcome DEF ExitFacts
  <2>3. allowance' = allowance \/ SpendAllowance(h, c, out.ret)
    BY <2>1 DEF SpendUnlessHolder
  <2>. QED  BY <1>1, <1>3, <2>2, <2>3, SpendAllowanceType DEF Withdraw
<1>4. ASSUME NEW c \in Users, NEW n \in Amounts, NEW r \in Addresses, NEW h \in Addresses,
             Redeem(c, n, r, h)
      PROVE UNCHANGED owner /\ allowance' \in [Addresses -> [Users -> Uint]]
  <2>1. allowance' = allowance \/ SpendAllowance(h, c, n)
    BY <1>4 DEF Redeem, SpendUnlessHolder
  <2>. QED  BY <1>1, <1>4, <2>1, Bounds, SpendAllowanceType DEF Redeem
<1>5. ASSUME NEW c \in Users, NEW n \in Amounts, NEW r \in Addresses, NEW h \in Addresses,
             TransferFrom(c, h, r, n)
      PROVE UNCHANGED owner /\ allowance' \in [Addresses -> [Users -> Uint]]
  BY <1>5, Bounds, SpendAllowanceType DEF TransferFrom
<1>6. CASE HolderNext
  <2>1. \/ UNCHANGED <<allowance, owner>>
        \/ \E c \in Users, n \in Amounts, r \in Addresses, h \in Addresses :
              Withdraw(c, n, r, h) \/ Redeem(c, n, r, h) \/ TransferFrom(c, h, r, n)
    BY <1>6 DEF HolderNext, HolderCall, Deposit, Mint, Transfer, TokenTransfer
  <2>. QED  BY <2>1, <1>1, <1>2, <1>3, <1>4, <1>5
<1>7. ASSUME NEW c \in Users, NEW s \in Users, NEW n \in Approvals, Approve(c, s, n)
      PROVE UNCHANGED owner /\ allowance' \in [Addresses -> [Users -> Uint]]
  <2>1. n \in Uint /\ c \in Addresses
    BY VaultAssumption, Bounds
  <2>2. allowance' = [allowance EXCEPT ![c][s] = n] /\ UNCHANGED owner
    BY <1>7 DEF Approve
  <2>. QED  BY <2>1, <2>2, <1>1
<1>8. CASE OwnerNext
  BY <1>1, <1>8, VaultAssumption
  DEF OwnerNext, OwnerCall, Borrow, Refund, TransferOwnership, RenounceOwnership
<1>. QED  BY <1>1, <1>6, <1>7, <1>8, NextCases

\* Every step keeps the ledger sound.
LEMMA NextSound ==
    ASSUME IInv, Next
    PROVE vault' \in Store(Addresses) /\ Sound(vault') /\ bal' \in [Addresses -> Nat]
<1>1. CASE HolderNext
  BY <1>1, HolderStep DEF HolderEffect
<1>2. CASE UNCHANGED <<vault, bal>>
  BY <1>2, InvariantIsSound
<1>3. ASSUME NEW c \in Users, NEW n \in Amounts, Borrow(c, n)
      PROVE vault' \in Store(Addresses) /\ Sound(vault') /\ bal' \in [Addresses -> Nat]
  BY <1>3, BorrowStep, InvariantIsSound DEF LoanEffect, Sound
<1>4. ASSUME NEW c \in Users, NEW n \in Amounts, NEW i \in Amounts, NEW l \in Amounts,
             Refund(c, n, i, l)
      PROVE vault' \in Store(Addresses) /\ Sound(vault') /\ bal' \in [Addresses -> Nat]
  BY <1>4, RefundStep, InvariantIsSound DEF Sound
<1>5. CASE OwnerNext
  BY <1>2, <1>3, <1>4, <1>5 DEF OwnerNext, OwnerCall, TransferOwnership, RenounceOwnership
<1>6. ASSUME NEW c \in Users, NEW s \in Users, NEW n \in Approvals, Approve(c, s, n)
      PROVE UNCHANGED <<vault, bal>>
  BY <1>6 DEF Approve
<1>. QED  BY <1>1, <1>2, <1>5, <1>6, NextCases

\* The invariant is inductive.
LEMMA NextInvariant == IInv /\ [Next]_vars => IInv'
<1>. SUFFICES ASSUME IInv, [Next]_vars PROVE IInv'
  OBVIOUS
<1>1. CASE Next
  <2>1. vault' \in VaultType /\ SumsTo(vault'.balanceOf, vault'.totalSupply)
    BY <1>1, NextSound DEF VaultType, Store, Sound
  <2>2. bal' \in [Addresses -> Nat]
    BY <1>1, NextSound
  <2>. QED  BY <1>1, <2>1, <2>2, NextTypes DEF IInv, TypeOK, SharesAddUp
<1>2. CASE UNCHANGED vars
  BY <1>2 DEF vars, IInv, TypeOK, SharesAddUp
<1>. QED  BY <1>1, <1>2

\* Types hold and the share balances sum to totalSupply in every reachable state.
THEOREM Invariant == Spec => []IInv
  BY InitInvariant, NextInvariant, PTL DEF Spec

\* Words stay words, although some updates are unchecked.
THEOREM TypeCorrect == Spec => []TypeOK
<1>1. IInv => TypeOK
  BY DEF IInv
<1>. QED  BY <1>1, Invariant, PTL

\* What the unchecked blocks of the share token's code rely on: no balance, and
\* no two together, exceed totalSupply.
THEOREM SharesStayWithinSupply == Spec => []SharesWithinSupply
<1>1. IInv => SharesWithinSupply
  <2>. SUFFICES ASSUME IInv PROVE SharesWithinSupply
    OBVIOUS
  <2>1. /\ vault.balanceOf \in [Addresses -> Nat] /\ vault.totalSupply \in Nat
        /\ SumsTo(vault.balanceOf, vault.totalSupply)
    BY InvariantIsSound, StoreOfNaturals DEF Sound
  <2>. QED  BY <2>1, PartsWithinTotal DEF SharesWithinSupply
<1>. QED  BY <1>1, Invariant, PTL

\* No mint, burn or transfer of the share token creates or loses a share: the sum
\* of the balances is totalSupply, for every finite set of users.
THEOREM SharesSumUp == Spec => []SharesSumToSupply
<1>1. ASSUME IInv PROVE SharesSumToSupply
  <2>1. /\ vault.balanceOf \in [Addresses -> Nat]
        /\ SumsTo(vault.balanceOf, vault.totalSupply)
    BY <1>1, InvariantIsSound, StoreOfNaturals DEF Sound
  <2>2. IsFiniteSet(Addresses)
    BY FiniteAssumption, FS_Singleton, FS_Union DEF Addresses
  <2>. QED  BY <2>1, <2>2, SumsToIsSum DEF SharesSumToSupply
<1>. QED  BY <1>1, Invariant, PTL

-----------------------------------------------------------------------------
(* What a step may never do *)

\* A share's worth falls only in a refund that reports more losses than interest.
LEMMA NextPriceHolds == IInv /\ [Next]_vars => [PriceHolds]_vars
<1>. SUFFICES ASSUME IInv, Next PROVE PriceHolds
  OBVIOUS
<1>1. CASE HolderNext
  BY <1>1, HolderStep DEF HolderEffect, PriceHolds
<1>2. ASSUME vault'.totalSupply = vault.totalSupply,
             Worth(vault', bal'[Self]) \in Nat,
             Worth(vault', bal'[Self]) >= TotalAssets
      PROVE PriceHolds
  <2>. DEFINE W == Worth(vault', bal'[Self])
              S == vault.totalSupply
  <2>1. W \in Nat /\ W >= TotalAssets /\ TotalAssets \in Nat /\ S \in Nat
    BY <1>2, InvariantIsSound
  <2>. HIDE DEF W, S
  <2>2. W * S >= TotalAssets * S
    BY <2>1
  <2>. QED  BY <1>2, <2>2 DEF PriceHolds, W, S
<1>3. Worth(vault', bal'[Self]) \in Nat
  <2>1. vault' \in Store(Addresses) /\ bal'[Self] \in Nat
    BY NextSound, Bounds
  <2>. QED  BY <2>1, PreviewsAreNaturals
<1>4. CASE UNCHANGED <<vault, bal>>
  BY <1>2, <1>3, <1>4, InvariantIsSound DEF TotalAssets
<1>5. ASSUME NEW c \in Users, NEW n \in Amounts, Borrow(c, n) PROVE PriceHolds
  BY <1>2, <1>3, <1>5, BorrowStep, InvariantIsSound DEF LoanEffect
<1>6. ASSUME NEW c \in Users, NEW n \in Amounts, NEW i \in Amounts, NEW l \in Amounts,
             Refund(c, n, i, l)
      PROVE PriceHolds
  <2>1. CASE l <= i
    BY <1>2, <1>3, <1>6, <2>1, RefundStep
  <2>2. CASE l > i
    BY <1>6, <2>2 DEF PriceHolds, ReportsNetLoss
  <2>3. l \in Nat /\ i \in Nat
    BY Bounds
  <2>. QED  BY <2>1, <2>2, <2>3
<1>7. CASE OwnerNext
  BY <1>4, <1>5, <1>6, <1>7 DEF OwnerNext, OwnerCall, TransferOwnership, RenounceOwnership
<1>8. CASE \E c, s \in Users, n \in Approvals : Approve(c, s, n)
  BY <1>4, <1>8 DEF Approve
<1>. QED  BY <1>1, <1>7, <1>8, NextCases

\* Rounding favours the holders who stay: shares lose value only by a reported
\* net loss.
THEOREM SharePriceIsKept == Spec => SharePriceNeverFalls
  BY Invariant, NextPriceHolds, PTL DEF Spec, SharePriceNeverFalls

\* Underlying leaves the vault only for burnt shares or as a booked loan.
LEMMA NextPaysForOutflow == IInv /\ [Next]_vars => [PaysForOutflow]_vars
<1>. SUFFICES ASSUME IInv, Next PROVE PaysForOutflow
  OBVIOUS
<1>1. CASE HolderNext
  BY <1>1, HolderStep DEF HolderEffect, PaysForOutflow
<1>2. ASSUME NEW c \in Users, NEW n \in Amounts, Borrow(c, n) PROVE PaysForOutflow
  BY <1>2, BorrowStep DEF LoanEffect, PaysForOutflow
<1>3. ASSUME NEW c \in Users, NEW n \in Amounts, NEW i \in Amounts, NEW l \in Amounts,
             Refund(c, n, i, l)
      PROVE PaysForOutflow
  <2>1. bal'[Self] >= bal[Self] /\ bal'[Self] \in Nat /\ bal[Self] \in Nat
    BY <1>3, RefundStep, InvariantIsSound, Bounds
  <2>. QED  BY <2>1 DEF PaysForOutflow
<1>4. CASE UNCHANGED bal
  BY <1>4, InvariantIsSound DEF PaysForOutflow
<1>5. CASE OwnerNext
  BY <1>2, <1>3, <1>4, <1>5 DEF OwnerNext, OwnerCall, TransferOwnership, RenounceOwnership
<1>6. CASE \E c, s \in Users, n \in Approvals : Approve(c, s, n)
  BY <1>4, <1>6 DEF Approve
<1>. QED  BY <1>1, <1>5, <1>6, NextCases

\* Tokens leave the vault for shares burnt in the same call, or as a loan booked
\* in full and paid to the owner.
THEOREM OutflowIsAlwaysPaidFor == Spec => OutflowIsPaidFor
  BY Invariant, NextPaysForOutflow, PTL DEF Spec, OutflowIsPaidFor

\* No loan takes the borrowed funds past the ratio of the vault's worth.
LEMMA NextLoanWithinRatio == IInv /\ [Next]_vars => [LoanWithinRatio]_vars
<1>. SUFFICES ASSUME IInv, NEW c \in Users, NEW n \in Amounts, Borrow(c, n)
              PROVE vault'.borrowedFunds * BPS <= Worth(vault', bal'[Self]) * MAX_BORROW_RATIO
  BY DEF LoanWithinRatio
<1>. QED  BY BorrowStep DEF LoanEffect

\* After a loan at most MAX_BORROW_RATIO / BPS of the vault's assets are lent out.
THEOREM LoansKeepTheRatio == Spec => LoansRespectRatio
  BY Invariant, NextLoanWithinRatio, PTL DEF Spec, LoansRespectRatio

-----------------------------------------------------------------------------
(* Whose shares a step may take *)

\* What a call of c takes, c may take.
Consented(c) ==
    \A h \in Addresses :
        LET lost == vault.balanceOf[h] - vault'.balanceOf[h] IN
        lost > 0 => MayTake(c, h, lost)

\* A call that takes no shares needs nobody's consent.
LEMMA NothingTaken ==
    ASSUME IInv, NEW c \in Users, vault'.balanceOf \in [Addresses -> Nat],
           \A h \in Addresses : ~ (vault'.balanceOf[h] < vault.balanceOf[h])
    PROVE Consented(c)
<1>1. vault.balanceOf \in [Addresses -> Nat]
  BY InvariantIsSound, StoreOfNaturals
<1>. QED  BY <1>1 DEF Consented

\* More shares of one holder are fewer of none.
LEMMA RaisedTakesNothing ==
    ASSUME IInv, NEW c \in Users, vault'.balanceOf \in [Addresses -> Nat],
           NEW r \in Addresses, NEW n \in Nat,
           vault'.balanceOf = Raised(vault.balanceOf, r, n)
    PROVE Consented(c)
<1>1. vault.balanceOf \in [Addresses -> Nat]
  BY InvariantIsSound, StoreOfNaturals
<1>2. ASSUME NEW h \in Addresses PROVE ~ (vault'.balanceOf[h] < vault.balanceOf[h])
  <2>1. vault'.balanceOf[h] = vault.balanceOf[h] + (IF h = r THEN n ELSE 0)
    BY <1>1 DEF Raised
  <2>. QED  BY <1>1, <2>1
<1>. QED  BY <1>2, NothingTaken

\* A call that takes n shares of h, and of nobody else, needs the consent of h
\* alone: it is a call of h, or h's allowance loses as much or is infinite.
LEMMA TakenFromOne ==
    ASSUME IInv, NEW h \in Addresses, NEW c \in Users, NEW n \in Nat,
           vault'.balanceOf \in [Addresses -> Nat],
           \A g \in Addresses \ {h} : ~ (vault'.balanceOf[g] < vault.balanceOf[g]),
           vault.balanceOf[h] - vault'.balanceOf[h] = n,
           c = h \/ SpendAllowance(h, c, n)
    PROVE Consented(c)
<1>1. ASSUME SpendAllowance(h, c, n) PROVE MayTake(c, h, n)
  <2>1. allowance \in [Addresses -> [Users -> Uint]]
    BY DEF IInv, TypeOK
  <2>2. CASE allowance[h][c] = UintMax
    BY <2>2 DEF MayTake
  <2>3. CASE allowance' = [allowance EXCEPT ![h][c] = allowance[h][c] - n]
    <3>1. allowance[h][c] \in Nat
      BY <2>1, UintMaxAssumption DEF Uint
    <3>2. allowance'[h][c] = allowance[h][c] - n
      BY <2>1, <2>3
    <3>. QED  BY <3>1, <3>2 DEF MayTake
  <2>. QED  BY <1>1, <2>2, <2>3 DEF SpendAllowance
<1>2. MayTake(c, h, n)
  BY <1>1 DEF MayTake
<1>3. ASSUME NEW g \in Addresses \ {h} PROVE ~ (vault.balanceOf[g] - vault'.balanceOf[g] > 0)
  <2>1. vault.balanceOf[g] \in Nat /\ vault'.balanceOf[g] \in Nat
    BY InvariantIsSound, StoreOfNaturals
  <2>. QED  BY <2>1
<1>. QED  BY <1>2, <1>3 DEF Consented

\* Withdraw and Redeem take the holder's shares.
LEMMA ExitByConsent ==
    ASSUME IInv, NEW c \in Users, NEW r \in Addresses, NEW h \in Addresses,
           NEW assets, NEW shares, NEW out,
           vault'.balanceOf \in [Addresses -> Nat],
           ExitFacts(vault, bal, Self, r, h, assets, shares, out), Commit(out),
           c # h => SpendAllowance(h, c, shares)
    PROVE Consented(c)
<1>1. vault.balanceOf \in [Addresses -> Nat] /\ shares \in Nat
  BY InvariantIsSound, StoreOfNaturals DEF ExitFacts
<1>2. vault'.balanceOf = Lowered(vault.balanceOf, h, shares)
  <2>1. out.v.balanceOf = Lowered(vault.balanceOf, h, shares)
    BY Bounds, InvariantIsSound, ExitEffect
  <2>. QED  BY <2>1 DEF Commit
<1>3. vault'.balanceOf[h] = vault.balanceOf[h] - shares
  BY <1>1, <1>2 DEF Lowered
<1>4. ASSUME NEW g \in Addresses \ {h} PROVE ~ (vault'.balanceOf[g] < vault.balanceOf[g])
  <2>1. vault'.balanceOf[g] = vault.balanceOf[g]
    BY <1>1, <1>2 DEF Lowered
  <2>. QED  BY <1>1, <2>1
<1>5. vault.balanceOf[h] - vault'.balanceOf[h] = shares
  BY <1>1, <1>3
<1>. QED  BY <1>1, <1>4, <1>5, TakenFromOne

\* Transfer and TransferFrom take the sender's shares.
LEMMA TransferByConsent ==
    ASSUME IInv, NEW c \in Users, NEW from \in Addresses, NEW to \in Addresses, NEW n \in Nat,
           vault'.balanceOf \in [Addresses -> Nat],
           vault' \in transfer(vault, from, to, n),
           c = from \/ SpendAllowance(from, c, n)
    PROVE Consented(c)
<1>1. vault.balanceOf \in [Addresses -> Nat]
  BY InvariantIsSound, StoreOfNaturals
<1>2. /\ from = to => vault'.balanceOf = vault.balanceOf
      /\ from # to => vault'.balanceOf = Raised(Lowered(vault.balanceOf, from, n), to, n)
  BY InvariantIsSound, TransferSound
<1>3. CASE from = to
  BY <1>1, <1>2, <1>3, NothingTaken
<1>4. CASE from # to
  <2>1. vault'.balanceOf[from] = vault.balanceOf[from] - n
    BY <1>1, <1>2, <1>4 DEF Raised, Lowered
  <2>2. ASSUME NEW g \in Addresses \ {from}
        PROVE ~ (vault'.balanceOf[g] < vault.balanceOf[g])
    <3>1. vault'.balanceOf[g] = vault.balanceOf[g] + (IF g = to THEN n ELSE 0)
      BY <1>1, <1>2, <1>4 DEF Raised, Lowered
    <3>. QED  BY <1>1, <3>1
  <2>3. vault.balanceOf[from] - vault'.balanceOf[from] = n
    BY <1>1, <2>1
  <2>. QED  BY <2>2, <2>3, TakenFromOne
<1>. QED  BY <1>3, <1>4

\* Nobody's shares shrink without a call or an approval of the holder.
LEMMA NextMovesByConsent == IInv /\ [Next]_vars => [MovesByConsent]_vars
<1>. SUFFICES ASSUME IInv, NEW c \in Users, Call(c) PROVE Consented(c)
  BY DEF MovesByConsent, Consented
<1>0. /\ vault.balanceOf \in [Addresses -> Nat]
      /\ vault'.balanceOf \in [Addresses -> Nat]
  <2>1. Next
    BY DEF Next
  <2>. QED  BY <2>1, NextSound, InvariantIsSound, StoreOfNaturals
<1>1. CASE vault'.balanceOf = vault.balanceOf
  BY <1>0, <1>1, NothingTaken
<1>2. ASSUME NEW n \in Amounts, NEW r \in Addresses, Deposit(c, n, r)
      PROVE Consented(c)
  <2>1. PICK out \in deposit(vault, bal, Self, c, n, r) : Commit(out)
    BY <1>2 DEF Deposit
  <2>2. EntryFacts(vault, bal, Self, c, r, n, out.ret, out)
    BY Bounds, InvariantIsSound, DepositOutcome
  <2>3. out.v.balanceOf = Raised(vault.balanceOf, r, out.ret)
    BY <2>2, Bounds, InvariantIsSound, EntryEffect
  <2>. QED  BY <1>0, <2>1, <2>2, <2>3, RaisedTakesNothing DEF Commit, EntryFacts
<1>3. ASSUME NEW n \in Amounts, NEW r \in Addresses, Mint(c, n, r)
      PROVE Consented(c)
  <2>1. PICK out \in mint(vault, bal, Self, c, n, r) : Commit(out)
    BY <1>3 DEF Mint
  <2>2. EntryFacts(vault, bal, Self, c, r, out.ret, n, out)
    BY Bounds, InvariantIsSound, MintOutcome
  <2>3. out.v.balanceOf = Raised(vault.balanceOf, r, n)
    BY <2>2, Bounds, InvariantIsSound, EntryEffect
  <2>. QED  BY <1>0, <2>1, <2>2, <2>3, RaisedTakesNothing DEF Commit, EntryFacts
<1>4. ASSUME NEW n \in Amounts, NEW r \in Addresses, NEW h \in Addresses,
             Withdraw(c, n, r, h)
      PROVE Consented(c)
  <2>1. PICK out \in withdraw(vault, bal, Self, n, r, h) :
            Commit(out) /\ SpendUnlessHolder(h, c, out.ret)
    BY <1>4 DEF Withdraw
  <2>2. ExitFacts(vault, bal, Self, r, h, n, out.ret, out)
    BY Bounds, InvariantIsSound, WithdrawOutcome
  <2>3. c # h => SpendAllowance(h, c, out.ret)
    BY <2>1 DEF SpendUnlessHolder
  <2>. QED  BY <1>0, <2>1, <2>2, <2>3, ExitByConsent
<1>5. ASSUME NEW n \in Amounts, NEW r \in Addresses, NEW h \in Addresses,
             Redeem(c, n, r, h)
      PROVE Consented(c)
  <2>1. PICK out \in redeem(vault, bal, Self, n, r, h) : Commit(out)
    BY <1>5 DEF Redeem
  <2>2. ExitFacts(vault, bal, Self, r, h, out.ret, n, out)
    BY Bounds, InvariantIsSound, RedeemOutcome
  <2>3. c # h => SpendAllowance(h, c, n)
    BY <1>5 DEF Redeem, SpendUnlessHolder
  <2>. QED  BY <1>0, <2>1, <2>2, <2>3, ExitByConsent
<1>6. ASSUME NEW n \in Amounts, NEW r \in Addresses, Transfer(c, r, n)
      PROVE Consented(c)
  BY <1>0, <1>6, Bounds, TransferByConsent DEF Transfer
<1>7. ASSUME NEW n \in Amounts, NEW r \in Addresses, NEW h \in Addresses,
             TransferFrom(c, h, r, n)
      PROVE Consented(c)
  BY <1>0, <1>7, Bounds, TransferByConsent DEF TransferFrom
<1>8. CASE HolderCall(c)
  <2>1. \/ UNCHANGED vault
        \/ \E n \in Amounts, r \in Addresses :
              Deposit(c, n, r) \/ Mint(c, n, r) \/ Transfer(c, r, n)
        \/ \E n \in Amounts, r, h \in Addresses :
              Withdraw(c, n, r, h) \/ Redeem(c, n, r, h) \/ TransferFrom(c, h, r, n)
    BY <1>8 DEF HolderCall, TokenTransfer
  <2>. QED  BY <2>1, <1>1, <1>2, <1>3, <1>4, <1>5, <1>6, <1>7
<1>9. CASE OwnerCall(c)
  <2>1. \/ UNCHANGED vault
        \/ \E n \in Amounts : Borrow(c, n)
        \/ \E n, i, l \in Amounts : Refund(c, n, i, l)
    BY <1>9 DEF OwnerCall, TransferOwnership, RenounceOwnership
  <2>2. vault'.balanceOf = vault.balanceOf
    BY <2>1, BorrowStep, RefundStep DEF LoanEffect
  <2>. QED  BY <2>2, <1>1
<1>10. CASE \E s \in Users, n \in Approvals : Approve(c, s, n)
  BY <1>1, <1>10 DEF Approve
<1>. QED  BY <1>8, <1>9, <1>10 DEF Call

\* Whoever could have made a call that costs a holder shares is the holder, or a
\* spender whose own allowance from the holder covers them.
THEOREM SharesNeedConsent == Spec => SharesMoveByConsent
  BY Invariant, NextMovesByConsent, PTL DEF Spec, SharesMoveByConsent

-----------------------------------------------------------------------------
(* What a holder can do *)

\* With nothing lent out, what a holder's shares are worth is in the vault and
\* the burn is within the balance, so redeeming them all does not revert.
THEOREM HoldersCanAlwaysLeave == Spec => []HoldersCanLeave
<1>1. IInv => HoldersCanLeave
  <2>. SUFFICES ASSUME IInv, vault.borrowedFunds = 0, NEW h \in Users,
                       NEW worth \in previewRedeem(vault, bal[Self], vault.balanceOf[h]) \ {0}
                PROVE redeem(vault, bal, Self, vault.balanceOf[h], h, h) # {}
    BY DEF HoldersCanLeave
  <2>. DEFINE S == vault.totalSupply
              n == vault.balanceOf[h]
  <2>1. /\ h \in Addresses /\ vault \in Store(Addresses) /\ Sound(vault)
        /\ bal[Self] \in Nat /\ S \in Nat /\ n \in Nat
        /\ TotalAssets = bal[Self] /\ Worth(vault, bal[Self]) = bal[Self]
    BY Bounds, InvariantIsSound, StoreOfNaturals DEF TotalAssets, Worth
  <2>2. n <= S
    BY <2>1, StoreOfNaturals, PartsWithinTotal DEF Sound
  <2>3. S # 0
    <3>. SUFFICES ASSUME S = 0 PROVE worth = n /\ n = 0
      OBVIOUS
    <3>. QED  BY <2>1, <2>2 DEF previewRedeem, convertToAssets
  <2>4. worth \in Nat /\ worth * S <= n * bal[Self]
    BY <2>1, <2>3, PreviewsAreNaturals, PreviewRedeemRoundsDown
  <2>5. worth <= bal[Self]
    <3>. DEFINE b == bal[Self]
    <3>. HIDE DEF S, n, b
    <3>1. S \in Nat /\ n \in Nat /\ b \in Nat /\ worth \in Nat /\ n <= S /\ S # 0
          /\ worth * S <= n * b
      BY <2>1, <2>2, <2>3, <2>4 DEF S, n, b
    <3>2. n * b <= S * b
      BY <3>1
    <3>3. ~ (worth >= b + 1)
      <4>. SUFFICES ASSUME worth >= b + 1 PROVE worth * S >= (b + 1) * S
        BY <3>1, <3>2
      <4>. QED  BY <3>1
    <3>. QED  BY <3>1, <3>3 DEF b
  <2>6. Debit(vault.balanceOf, h, n) # {}
    <3>1. n - n \in Uint
      BY <2>1, UintMaxAssumption DEF Uint
    <3>. QED  BY <3>1 DEF Debit, Checked
  <2>7. _burn(vault, h, n) # {}
    BY <2>6 DEF _burn
  <2>8. CanPay(bal, Self, worth)
    BY <2>5, <2>4, <2>1 DEF CanPay
  <2>9. Left(vault, bal, Self, h, h, worth, n, worth) # {}
    BY <2>7, <2>8 DEF Left
  <2>. QED  BY <2>9 DEF redeem
<1>. QED  BY <1>1, Invariant, PTL

\* A deposit that is redeemed at once never brings more than was put in.
THEOREM RoundTripsNeverProfit == Spec => []RoundTripNeverProfits
<1>1. IInv => RoundTripNeverProfits
  <2>. SUFFICES ASSUME IInv, vault.totalSupply > 0, NEW c \in Users, NEW n \in Amounts,
                       NEW in \in deposit(vault, bal, Self, c, n, c),
                       NEW back \in redeem(in.v, in.bal, Self, in.ret, c, c)
                PROVE back.ret <= n
    BY DEF RoundTripNeverProfits
  <2>. DEFINE S == vault.totalSupply
              W == Worth(vault, bal[Self])
              s == in.ret
              T == in.v.totalSupply
              V == Worth(in.v, in.bal[Self])
              a == back.ret
  <2>1. /\ c \in Addresses \ {Self} /\ c \in Addresses /\ Self \in Addresses /\ n \in Nat
        /\ S \in Nat /\ S > 0 /\ W \in Nat
    BY Bounds, InvariantIsSound
  <2>2. EntryFacts(vault, bal, Self, c, c, n, s, in)
    BY <2>1, InvariantIsSound, DepositOutcome
  <2>3. s \in Nat /\ s * W <= n * S
    BY <2>1, <2>2 DEF EntryFacts
  <2>4. /\ in.v \in Store(Addresses) /\ in.bal \in [Addresses -> Nat]
        /\ in.v.borrowedFunds = vault.borrowedFunds
        /\ T = S + s
        /\ in.bal[Self] = bal[Self] + n
    BY <2>1, <2>2, InvariantIsSound, EntryEffect
  <2>5. V = W + n
    BY <2>1, <2>4, InvariantIsSound, StoreOfNaturals DEF Worth
  <2>6. ExitFacts(in.v, in.bal, Self, c, c, a, s, back)
    BY <2>1, <2>3, <2>4, RedeemOutcome
  <2>7. a \in Nat /\ a * (S + s) <= s * (W + n)
    <3>1. T # 0
      BY <2>1, <2>3, <2>4
    <3>. QED  BY <3>1, <2>4, <2>5, <2>6 DEF ExitFacts
  <2>. HIDE DEF S, W, s, T, V, a
  <2>8. s * (W + n) = s * W + s * n
    BY <2>1, <2>3
  <2>9. n * (S + s) = n * S + s * n
    BY <2>1, <2>3
  <2>10. a * (S + s) <= n * (S + s)
    <3>. DEFINE p == s * W
                q == s * n
                u == n * S
                x == a * (S + s)
                y == n * (S + s)
    <3>1. p \in Nat /\ q \in Nat /\ u \in Nat /\ x \in Nat /\ y \in Nat
      BY <2>1, <2>3, <2>7
    <3>2. p <= u /\ x <= p + q /\ y = u + q
      BY <2>3, <2>7, <2>8, <2>9
    <3>. HIDE DEF p, q, u, x, y
    <3>3. x <= y
      BY <3>1, <3>2
    <3>. QED  BY <3>3 DEF x, y
  <2>11. ~ (a >= n + 1)
    <3>. DEFINE t == S + s
    <3>1. t \in Nat /\ t > 0 /\ a * t <= n * t
      BY <2>1, <2>3, <2>10
    <3>. HIDE DEF t
    <3>. SUFFICES ASSUME a >= n + 1 PROVE a * t >= (n + 1) * t
      BY <2>1, <2>7, <3>1
    <3>. QED  BY <2>1, <2>7, <3>1
  <2>. QED  BY <2>1, <2>7, <2>11 DEF a
<1>. QED  BY <1>1, Invariant, PTL

-----------------------------------------------------------------------------
(* VaultCeFi implements SharePool: one lemma per kind of transaction *)

\* A vault is deployed with no shares and nothing lent out.
LEMMA InitMaps == Init => Pool!Init
<1>. SUFFICES ASSUME Init PROVE Pool!Init
  OBVIOUS
<1>1. bal[Self] \in Nat
  BY InitInvariant, InvariantIsSound
<1>. QED  BY <1>1 DEF Init, EmptyVault, Pool!Init

\* Deposit and Mint enter the pool.
LEMMA EntryMaps ==
    ASSUME IInv, NEW c \in Users, NEW r \in Addresses, NEW assets, NEW shares, NEW out,
           EntryFacts(vault, bal, Self, c, r, assets, shares, out), Commit(out)
    PROVE Pool!Enter(r)
<1>1. c \in Addresses \ {Self} /\ Self \in Addresses
  BY Bounds
<1>2. vault' = out.v /\ bal' = out.bal
  BY DEF Commit
<1>3. /\ out.v.borrowedFunds = vault.borrowedFunds
      /\ out.v.totalSupply = vault.totalSupply + shares
      /\ out.bal[Self] = bal[Self] + assets
      /\ out.v.balanceOf = Raised(vault.balanceOf, r, shares)
  BY <1>1, InvariantIsSound, EntryEffect
<1>4. /\ assets \in Nat /\ shares \in Nat
      /\ vault.totalSupply = 0 => shares = assets
      /\ vault.totalSupply # 0 =>
            shares * (bal[Self] + vault.borrowedFunds) <= assets * vault.totalSupply
  BY DEF EntryFacts, Worth
<1>5. bal'[Self] - bal[Self] = assets /\ vault'.totalSupply - vault.totalSupply = shares
  BY <1>2, <1>3, <1>4, InvariantIsSound
<1>. QED  BY <1>2, <1>3, <1>4, <1>5 DEF Pool!Enter, Pool!SoldFor, Pool!Worth, Raised

\* Withdraw and Redeem leave it; the vault may pay itself, that is nothing.
LEMMA ExitMaps ==
    ASSUME IInv, NEW r \in Addresses, NEW h \in Addresses, NEW assets, NEW shares, NEW out,
           ExitFacts(vault, bal, Self, r, h, assets, shares, out), Commit(out)
    PROVE Pool!Leave(h)
<1>. DEFINE paid == IF r = Self THEN 0 ELSE assets
            W == bal[Self] + vault.borrowedFunds
            S == vault.totalSupply
<1>1. vault' = out.v /\ bal' = out.bal
  BY DEF Commit
<1>2. /\ out.v.borrowedFunds = vault.borrowedFunds
      /\ out.v.totalSupply = S - shares
      /\ out.bal[Self] = bal[Self] - paid
      /\ shares <= vault.balanceOf[h]
      /\ out.v.balanceOf = Lowered(vault.balanceOf, h, shares)
  BY Bounds, InvariantIsSound, ExitEffect
<1>3. /\ assets \in Nat /\ shares \in Nat
      /\ S # 0 => assets * S <= shares * W
  BY DEF ExitFacts, Worth
<1>4. S \in Nat /\ W \in Nat /\ bal[Self] \in Nat /\ vault.balanceOf[h] \in Nat
  BY InvariantIsSound, StoreOfNaturals
<1>5. paid * S <= shares * W
  <2>. HIDE DEF S, W
  <2>1. CASE S = 0
    <3>1. shares * W >= 0 /\ paid * S = 0
      BY <1>3, <1>4, <2>1
    <3>. QED  BY <3>1, <1>3, <1>4
  <2>2. CASE S # 0 /\ r = Self
    <3>1. shares * W >= 0
      BY <1>3, <1>4
    <3>. QED  BY <3>1, <1>3, <1>4, <2>2
  <2>3. CASE S # 0 /\ r # Self
    BY <1>3, <2>3
  <2>. QED  BY <2>1, <2>2, <2>3
<1>6. paid \in Nat
  BY <1>3
<1>. HIDE DEF paid
<1>7. bal[Self] - bal'[Self] = paid /\ S - vault'.totalSupply = shares
  BY <1>1, <1>2, <1>3, <1>4, <1>6
<1>8. shares \in 0 .. vault.balanceOf[h]
  BY <1>2, <1>3, <1>4
<1>. QED  BY <1>1, <1>2, <1>5, <1>6, <1>7, <1>8 DEF Pool!Leave, Pool!BoughtFor, Pool!Worth, Lowered

\* Transfer and TransferFrom move shares, or nothing when sent to their holder.
LEMMA TransferMaps ==
    ASSUME IInv, NEW from \in Addresses, NEW to \in Addresses, NEW n \in Nat,
           vault' \in transfer(vault, from, to, n), bal' = bal
    PROVE Pool!Move(from, to) \/ UNCHANGED Pool!vars
<1>. DEFINE f == vault.balanceOf
<1>1. /\ vault'.totalSupply = vault.totalSupply
      /\ vault'.borrowedFunds = vault.borrowedFunds
      /\ n <= f[from]
      /\ from = to => vault'.balanceOf = f
      /\ from # to => vault'.balanceOf = Raised(Lowered(f, from, n), to, n)
  BY InvariantIsSound, TransferSound
<1>2. CASE from = to
  BY <1>1, <1>2 DEF Pool!vars
<1>3. CASE from # to
  <2>1. f \in [Addresses -> Nat]
    BY InvariantIsSound, StoreOfNaturals
  <2>2. vault'.balanceOf = [f EXCEPT ![from] = f[from] - n, ![to] = f[to] + n]
    BY <1>1, <1>3, <2>1 DEF Raised, Lowered
  <2>3. vault'.balanceOf[from] = f[from] - n
    BY <1>3, <2>1, <2>2
  <2>4. f[from] - vault'.balanceOf[from] = n /\ n \in 0 .. f[from]
    BY <1>1, <2>1, <2>3
  <2>. QED  BY <1>1, <1>3, <2>2, <2>4 DEF Pool!Move
<1>. QED  BY <1>2, <1>3

\* Tokens sent to the vault are a gain of the pool.
LEMMA DonationMaps ==
    ASSUME IInv, NEW c \in Users, NEW r \in Addresses, NEW n \in Amounts,
           TokenTransfer(c, r, n)
    PROVE Pool!Gain
<1>1. /\ CanPay(bal, c, n) /\ bal' = Moved(bal, c, r, n) /\ vault' = vault
      /\ n \in Nat /\ c \in Addresses /\ c # Self /\ Self \in Addresses
  BY Bounds DEF TokenTransfer
<1>2. bal'[Self] >= bal[Self]
  BY <1>1, InvariantIsSound, MovedBalances
<1>3. vault.borrowedFunds \in Nat
  BY InvariantIsSound, StoreOfNaturals
<1>. QED  BY <1>1, <1>2, <1>3 DEF Pool!Gain

\* A borrow lends.
LEMMA LoanMaps ==
    ASSUME IInv, NEW c \in Users, NEW n \in Amounts, Borrow(c, n)
    PROVE Pool!Lend
<1>1. LoanEffect
  BY BorrowStep
<1>2. TotalAssets = bal[Self] + vault.borrowedFunds
  BY DEF TotalAssets, Worth
<1>. QED  BY <1>1, <1>2 DEF LoanEffect, Pool!Lend, Pool!Worth

\* A refund settles loans, or is a gain when it repays none of them.
LEMMA RefundMaps ==
    ASSUME IInv, NEW c \in Users, NEW n \in Amounts, NEW i \in Amounts, NEW l \in Amounts,
           Refund(c, n, i, l)
    PROVE Pool!Gain \/ Pool!Settle
<1>1. /\ vault' \in Store(Addresses)
      /\ vault'.totalSupply = vault.totalSupply
      /\ vault'.balanceOf = vault.balanceOf
      /\ bal'[Self] >= bal[Self]
  BY RefundStep
<1>2. vault'.borrowedFunds \in Nat /\ vault.borrowedFunds \in Nat
  BY <1>1, InvariantIsSound, StoreOfNaturals
<1>3. vault'.borrowedFunds >= vault.borrowedFunds \/ vault'.borrowedFunds < vault.borrowedFunds
  BY <1>2
<1>. QED  BY <1>1, <1>3 DEF Pool!Gain, Pool!Settle

-----------------------------------------------------------------------------
(* Every step is one of the pool *)

\* Every step of HolderNext.
LEMMA HolderMaps == ASSUME IInv, HolderNext PROVE Pool!Next \/ UNCHANGED Pool!vars
<1>. PICK c \in Users, n \in Amounts :
        \/ \E r \in Addresses :
              \/ Deposit(c, n, r)
              \/ Mint(c, n, r)
              \/ Transfer(c, r, n)
              \/ TokenTransfer(c, r, n)
        \/ \E r, h \in Addresses :
              \/ Withdraw(c, n, r, h)
              \/ Redeem(c, n, r, h)
              \/ TransferFrom(c, h, r, n)
  BY DEF HolderNext, HolderCall
<1>. n \in Nat /\ c \in Addresses /\ Self \in Addresses
  BY Bounds
<1>1. ASSUME NEW r \in Addresses, Deposit(c, n, r) PROVE Pool!Enter(r)
  BY <1>1, InvariantIsSound, DepositOutcome, EntryMaps DEF Deposit
<1>2. ASSUME NEW r \in Addresses, Mint(c, n, r) PROVE Pool!Enter(r)
  BY <1>2, InvariantIsSound, MintOutcome, EntryMaps DEF Mint
<1>3. ASSUME NEW r \in Addresses, Transfer(c, r, n)
      PROVE Pool!Move(c, r) \/ UNCHANGED Pool!vars
  BY <1>3, TransferMaps DEF Transfer
<1>4. ASSUME NEW r \in Addresses, TokenTransfer(c, r, n) PROVE Pool!Gain
  BY <1>4, DonationMaps
<1>5. ASSUME NEW r \in Addresses, NEW h \in Addresses, Withdraw(c, n, r, h)
      PROVE Pool!Leave(h)
  BY <1>5, InvariantIsSound, WithdrawOutcome, ExitMaps DEF Withdraw
<1>6. ASSUME NEW r \in Addresses, NEW h \in Addresses, Redeem(c, n, r, h)
      PROVE Pool!Leave(h)
  BY <1>6, InvariantIsSound, RedeemOutcome, ExitMaps DEF Redeem
<1>7. ASSUME NEW r \in Addresses, NEW h \in Addresses, TransferFrom(c, h, r, n)
      PROVE Pool!Move(h, r) \/ UNCHANGED Pool!vars
  BY <1>7, TransferMaps DEF TransferFrom
<1>. QED  BY <1>1, <1>2, <1>3, <1>4, <1>5, <1>6, <1>7 DEF Pool!Next

\* Approvals and the vault's ownership are nothing to the pool.
LEMMA NextMaps == IInv /\ [Next]_vars => [Pool!Next]_(Pool!vars)
<1>. SUFFICES ASSUME IInv, [Next]_vars PROVE Pool!Next \/ UNCHANGED Pool!vars
  OBVIOUS
<1>1. CASE HolderNext
  BY <1>1, HolderMaps
<1>2. CASE UNCHANGED <<vault, bal>>
  BY <1>2 DEF Pool!vars
<1>3. CASE OwnerNext
  <2>1. \/ UNCHANGED <<vault, bal>>
        \/ \E c \in Users, n \in Amounts : Borrow(c, n)
        \/ \E c \in Users : \E n, i, l \in Amounts : Refund(c, n, i, l)
    BY <1>3 DEF OwnerNext, OwnerCall, TransferOwnership, RenounceOwnership
  <2>. QED  BY <1>2, <2>1, LoanMaps, RefundMaps DEF Pool!Next
<1>4. CASE \E c, s \in Users, n \in Approvals : Approve(c, s, n)
  BY <1>2, <1>4 DEF Approve
<1>5. CASE UNCHANGED vars
  BY <1>2, <1>5 DEF vars
<1>. QED  BY <1>1, <1>3, <1>4, <1>5, NextCases

\* The vault delivers the pool: with its roundings, its unchecked words and its
\* signed casts it never does anything but buy and sell shares at their price,
\* move them, lend within the ratio and book what comes back.
THEOREM VaultImplementsPool == Spec => ImplementsSharePool
  BY InitMaps, NextMaps, Invariant, PTL DEF Spec, ImplementsSharePool, Pool!Spec
=============================================================================
