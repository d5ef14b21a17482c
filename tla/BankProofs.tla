------------------------------ MODULE BankProofs ------------------------------
(***************************************************************************)
(* The safety of the Bank, proved for every set of users, accounts, assets *)
(* and vaults.  The balances of the account tokens change in unchecked     *)
(* blocks: they stay natural numbers only because they count accounts, so  *)
(* the inductive invariant is the three invariants together.               *)
(***************************************************************************)
EXTENDS BankHistory, FiniteSetTheorems, TLAPS

IInv == TypeOK /\ SupportedVaultsHoldSupportedAssets /\ BalancesCountAccounts

Owned(h) == { a \in Accounts : nftOwner[a] = h }

\* What an account token's holder owns can be counted.
LEMMA OwnedCounts ==
    ASSUME IInv, NEW h \in NftHolders
    PROVE /\ IsFiniteSet(Owned(h)) /\ Cardinality(Owned(h)) \in Nat
          /\ nftBalance[h] = Cardinality(Owned(h))
<1>1. IsFiniteSet(Owned(h))
  BY FiniteAssumption, FS_Subset DEF Owned
<1>. QED  BY <1>1, FS_CardinalityType DEF Owned, IInv, BalancesCountAccounts

\* An account that comes to h is one more.
LEMMA OneMore ==
    ASSUME IInv, NEW h \in NftHolders, NEW a \in Accounts, nftOwner[a] # h,
           nftOwner' = [nftOwner EXCEPT ![a] = h]
    PROVE Cardinality(Owned(h)') = nftBalance[h] + 1
<1>1. nftOwner \in [Accounts -> NftHolders \cup {Nobody}]
  BY DEF IInv, TypeOK
<1>2. Owned(h)' = Owned(h) \cup {a} /\ a \notin Owned(h)
  BY <1>1 DEF Owned
<1>3. Cardinality(Owned(h) \cup {a}) = Cardinality(Owned(h)) + 1
  BY <1>2, OwnedCounts, FS_AddElement
<1>. QED  BY <1>2, <1>3, OwnedCounts

\* One that goes is one less, and there was one.
LEMMA OneLess ==
    ASSUME IInv, NEW h \in NftHolders, NEW g, NEW a \in Accounts, nftOwner[a] = h, g # h,
           nftOwner' = [nftOwner EXCEPT ![a] = g]
    PROVE Cardinality(Owned(h)') = nftBalance[h] - 1
<1>1. nftOwner \in [Accounts -> NftHolders \cup {Nobody}]
  BY DEF IInv, TypeOK
<1>2. Owned(h)' = Owned(h) \ {a} /\ a \in Owned(h)
  BY <1>1 DEF Owned
<1>3. Cardinality(Owned(h) \ {a}) = Cardinality(Owned(h)) - 1
  BY <1>2, OwnedCounts, FS_RemoveElement
<1>. QED  BY <1>2, <1>3, OwnedCounts

\* The others keep what they have.
LEMMA SameOwned ==
    ASSUME IInv, NEW h \in NftHolders, NEW g, NEW a \in Accounts, nftOwner[a] # h, g # h,
           nftOwner' = [nftOwner EXCEPT ![a] = g]
    PROVE Cardinality(Owned(h)') = nftBalance[h]
<1>1. nftOwner \in [Accounts -> NftHolders \cup {Nobody}]
  BY DEF IInv, TypeOK
<1>2. Owned(h)' = Owned(h)
  BY <1>1 DEF Owned
<1>. QED  BY <1>2, OwnedCounts

-----------------------------------------------------------------------------
(* The balances count the accounts *)

Counted ==
    /\ nftBalance' \in [NftHolders -> Int]
    /\ \A h \in NftHolders : /\ nftBalance'[h] = Cardinality(Owned(h)')
                             /\ nftBalance'[h] \in Nat

\* Naturals are what a count of a finite set is.
LEMMA CountIsNatural ==
    ASSUME NEW h \in NftHolders PROVE Cardinality(Owned(h)') \in Nat
<1>1. IsFiniteSet(Owned(h)')
  BY FiniteAssumption, FS_Subset DEF Owned
<1>. QED  BY <1>1, FS_CardinalityType

\* A new account counts for its creator.
LEMMA CreateAccountCounts ==
    ASSUME IInv, NEW c \in Users, NEW a \in Accounts, CreateAccount(c, a)
    PROVE Counted
<1>1. /\ nftOwner[a] = Nobody /\ c \in NftHolders
      /\ nftOwner' = [nftOwner EXCEPT ![a] = c]
      /\ nftBalance' = [nftBalance EXCEPT ![c] = nftBalance[c] + 1]
  BY DEF CreateAccount, Created, NftHolders
<1>2. nftBalance \in [NftHolders -> Nat]
  BY DEF IInv, TypeOK
<1>3. ASSUME NEW h \in NftHolders PROVE nftBalance'[h] = Cardinality(Owned(h)')
  <2>1. nftOwner[a] # h
    BY <1>1, BankAssumption
  <2>2. CASE h = c
    BY <1>1, <1>2, <2>1, <2>2, OneMore
  <2>3. CASE h # c
    BY <1>1, <1>2, <2>1, <2>3, SameOwned
  <2>. QED  BY <2>2, <2>3
<1>4. nftBalance' \in [NftHolders -> Int]
  BY <1>1, <1>2
<1>. QED  BY <1>3, <1>4, CountIsNatural DEF Counted

\* A transfer counts for the recipient what it no longer counts for the sender,
\* and changes nothing when they are the same.
LEMMA TransferNftCounts ==
    ASSUME IInv, NEW c \in Users, NEW from \in NftHolders, NEW to \in NftHolders,
           NEW a \in Accounts, TransferNft(c, from, to, a)
    PROVE Counted
<1>. DEFINE left == [nftBalance EXCEPT ![from] = nftBalance[from] - 1]
<1>1. /\ nftOwner[a] = from
      /\ nftOwner' = [nftOwner EXCEPT ![a] = to]
      /\ nftBalance' = [left EXCEPT ![to] = left[to] + 1]
  BY DEF TransferNft, BalancesMoved
<1>2. nftBalance \in [NftHolders -> Nat]
  BY DEF IInv, TypeOK
<1>3. nftOwner \in [Accounts -> NftHolders \cup {Nobody}]
  BY DEF IInv, TypeOK
<1>4. ASSUME NEW h \in NftHolders PROVE nftBalance'[h] = Cardinality(Owned(h)')
  <2>1. CASE from = to
    <3>1. nftOwner' = nftOwner /\ nftBalance'[h] = nftBalance[h]
      BY <1>1, <1>2, <1>3, <2>1
    <3>2. Owned(h)' = Owned(h)
      BY <3>1 DEF Owned
    <3>. QED  BY <3>1, <3>2, OwnedCounts
  <2>2. CASE from # to
    <3>1. CASE h = from
      <4>1. nftBalance'[h] = nftBalance[h] - 1
        BY <1>1, <1>2, <2>2, <3>1
      <4>. QED  BY <4>1, <1>1, <2>2, <3>1, OneLess
    <3>2. CASE h = to
      <4>1. nftBalance'[h] = nftBalance[h] + 1
        BY <1>1, <1>2, <2>2, <3>2
      <4>. QED  BY <4>1, <1>1, <2>2, <3>2, OneMore
    <3>3. CASE h # from /\ h # to
      <4>1. nftBalance'[h] = nftBalance[h]
        BY <1>1, <1>2, <3>3
      <4>. QED  BY <4>1, <1>1, <3>3, SameOwned
    <3>. QED  BY <3>1, <3>2, <3>3
  <2>. QED  BY <2>1, <2>2
<1>5. nftBalance' \in [NftHolders -> Int]
  BY <1>1, <1>2
<1>. QED  BY <1>4, <1>5, CountIsNatural DEF Counted

\* Nothing else touches the owners and their balances.
LEMMA UnchangedCounts ==
    ASSUME IInv, UNCHANGED <<nftOwner, nftBalance>>
    PROVE Counted
<1>1. ASSUME NEW h \in NftHolders PROVE nftBalance'[h] = Cardinality(Owned(h)')
  <2>1. Owned(h)' = Owned(h)
    BY DEF Owned
  <2>. QED  BY <2>1, OwnedCounts
<1>2. nftBalance' \in [NftHolders -> Int]
  BY DEF IInv, TypeOK
<1>. QED  BY <1>1, <1>2, CountIsNatural DEF Counted

\* Every step keeps the count.
LEMMA NextCounts == ASSUME IInv, Next PROVE Counted
<1>1. CASE RegistryNext
  <2>1. \/ UNCHANGED <<nftOwner, nftBalance>>
        \/ \E c \in Users, a \in Accounts : CreateAccount(c, a)
    BY <1>1 DEF RegistryNext, AddAsset, CreateVaultCeFi, CreateVaultDeFi, nftVars
  <2>. QED  BY <2>1, UnchangedCounts, CreateAccountCounts
<1>2. CASE NftNext
  <2>1. \/ UNCHANGED <<nftOwner, nftBalance>>
        \/ \E c \in Users, a \in Accounts, from \in NftHolders, to \in Recipients :
              TransferNft(c, from, to, a)
    BY <1>2 DEF NftNext, SetApprovalForAll, Approve
  <2>. QED  BY <2>1, UnchangedCounts, TransferNftCounts, BankAssumption
<1>3. CASE OwnershipNext
  <2>1. UNCHANGED <<nftOwner, nftBalance>>
    BY <1>3 DEF OwnershipNext, TransferOwnership, RenounceOwnership, nftVars
  <2>. QED  BY <2>1, UnchangedCounts
<1>. QED  BY <1>1, <1>2, <1>3 DEF Next

-----------------------------------------------------------------------------
(* The registry *)

RegistryType ==
    /\ bankOwner \in Users \cup {Nobody}
    /\ supportedAssets \subseteq Assets
    /\ supportedVaults \subseteq Vaults
    /\ vaultOwner \in [CeFiVaults -> Users \cup {Nobody}]

\* A vault enters the registry with an asset that is in it, and no asset leaves.
LEMMA NextRegistry ==
    ASSUME IInv, Next
    PROVE RegistryType' /\ SupportedVaultsHoldSupportedAssets'
<1>1. RegistryType /\ SupportedVaultsHoldSupportedAssets
  BY DEF IInv, TypeOK, RegistryType
<1>2. CASE UNCHANGED registryVars
  BY <1>1, <1>2 DEF registryVars, RegistryType, SupportedVaultsHoldSupportedAssets
<1>3. ASSUME NEW c \in Users, NEW x \in Assets, AddAsset(c, x)
      PROVE RegistryType' /\ SupportedVaultsHoldSupportedAssets'
  BY <1>1, <1>3 DEF AddAsset, RegistryType, SupportedVaultsHoldSupportedAssets
<1>4. ASSUME NEW c \in Users, NEW x \in Assets, NEW admin \in VaultAdmins,
             NEW v \in CeFiVaults, CreateVaultCeFi(c, x, admin, v)
      PROVE RegistryType' /\ SupportedVaultsHoldSupportedAssets'
  BY <1>1, <1>4, BankAssumption
  DEF CreateVaultCeFi, isAssetSupported, Vaults,
      RegistryType, SupportedVaultsHoldSupportedAssets
<1>5. ASSUME NEW c \in Users, NEW v \in Vaults, CreateVaultDeFi(c, v)
      PROVE RegistryType' /\ SupportedVaultsHoldSupportedAssets'
  BY <1>1, <1>5
  DEF CreateVaultDeFi, isAssetSupported, RegistryType, SupportedVaultsHoldSupportedAssets
<1>6. CASE OwnershipNext
  BY <1>1, <1>6, BankAssumption
  DEF OwnershipNext, TransferOwnership, RenounceOwnership,
      RegistryType, SupportedVaultsHoldSupportedAssets
<1>7. CASE RegistryNext
  BY <1>2, <1>3, <1>4, <1>5, <1>7 DEF RegistryNext, CreateAccount
<1>8. CASE NftNext
  <2>1. UNCHANGED registryVars
    BY <1>8 DEF NftNext, SetApprovalForAll, Approve, TransferNft
  <2>. QED  BY <2>1, <1>2
<1>. QED  BY <1>6, <1>7, <1>8 DEF Next

-----------------------------------------------------------------------------
(* The account tokens *)

NftType ==
    /\ nftOwner \in [Accounts -> NftHolders \cup {Nobody}]
    /\ nftApproved \in [Accounts -> NftHolders \cup {Nobody}]
    /\ operatorApprovals \in [NftHolders -> SUBSET NftHolders]

\* Owners and approvals stay in their types.
LEMMA NextNftType == ASSUME IInv, Next PROVE NftType'
<1>1. NftType
  BY DEF IInv, TypeOK, NftType
<1>2. CASE UNCHANGED nftVars
  BY <1>1, <1>2 DEF nftVars, NftType
<1>3. ASSUME NEW c \in Users, NEW a \in Accounts, CreateAccount(c, a) PROVE NftType'
  BY <1>1, <1>3 DEF CreateAccount, NftType, NftHolders
<1>4. ASSUME NEW c \in Users, NEW a \in Accounts, NEW to \in Operators \cup {Nobody},
             Approve(c, to, a)
      PROVE NftType'
  BY <1>1, <1>4, BankAssumption DEF Approve, NftType
<1>5. ASSUME NEW c \in Users, NEW o \in Operators, NEW approved \in BOOLEAN,
             SetApprovalForAll(c, o, approved)
      PROVE NftType'
  <2>1. c \in NftHolders /\ o \in NftHolders
    BY BankAssumption DEF NftHolders
  <2>2. operatorApprovals' = [operatorApprovals EXCEPT ![c] =
            IF approved THEN operatorApprovals[c] \cup {o} ELSE operatorApprovals[c] \ {o}]
    BY <1>5 DEF SetApprovalForAll
  <2>. QED  BY <1>1, <1>5, <2>1, <2>2 DEF SetApprovalForAll, NftType
<1>6. ASSUME NEW c \in Users, NEW a \in Accounts, NEW from \in NftHolders,
             NEW to \in Recipients, TransferNft(c, from, to, a)
      PROVE NftType'
  BY <1>1, <1>6, BankAssumption DEF TransferNft, ApprovalCleared, NftType
<1>7. CASE RegistryNext
  <2>1. \/ UNCHANGED nftVars
        \/ \E c \in Users, a \in Accounts : CreateAccount(c, a)
    BY <1>7 DEF RegistryNext, AddAsset, CreateVaultCeFi, CreateVaultDeFi
  <2>. QED  BY <2>1, <1>2, <1>3
<1>8. CASE NftNext
  BY <1>4, <1>5, <1>6, <1>8 DEF NftNext
<1>9. CASE OwnershipNext
  <2>1. UNCHANGED nftVars
    BY <1>9 DEF OwnershipNext, TransferOwnership, RenounceOwnership
  <2>. QED  BY <2>1, <1>2
<1>. QED  BY <1>7, <1>8, <1>9 DEF Next

-----------------------------------------------------------------------------
(* The invariant *)

\* A deployed Bank supports nothing and has created no account.
LEMMA InitInvariant == Init => IInv
<1>. SUFFICES ASSUME Init PROVE IInv
  OBVIOUS
<1>1. TypeOK
  BY BankAssumption DEF Init, TypeOK
<1>2. SupportedVaultsHoldSupportedAssets
  BY DEF Init, SupportedVaultsHoldSupportedAssets
<1>3. ASSUME NEW h \in NftHolders
      PROVE nftBalance[h] = Cardinality({ a \in Accounts : nftOwner[a] = h })
  <2>1. { a \in Accounts : nftOwner[a] = h } = {}
    BY BankAssumption DEF Init
  <2>. QED  BY <2>1, FS_EmptySet DEF Init
<1>. QED  BY <1>1, <1>2, <1>3 DEF IInv, BalancesCountAccounts

\* The three invariants together are inductive.
LEMMA NextInvariant == IInv /\ [Next]_vars => IInv'
<1>. SUFFICES ASSUME IInv, [Next]_vars PROVE IInv'
  OBVIOUS
<1>1. CASE Next
  <2>1. nftBalance' \in [NftHolders -> Nat]
    BY <1>1, NextCounts DEF Counted
  <2>2. BalancesCountAccounts'
    BY <1>1, NextCounts DEF Counted, BalancesCountAccounts, Owned
  <2>. QED  BY <1>1, <2>1, <2>2, NextRegistry, NextNftType
            DEF IInv, TypeOK, RegistryType, NftType
<1>2. CASE UNCHANGED vars
  BY <1>2 DEF vars, registryVars, nftVars, IInv, TypeOK,
              SupportedVaultsHoldSupportedAssets, BalancesCountAccounts
<1>. QED  BY <1>1, <1>2

\* Types hold, supported vaults hold supported assets, and the unchecked token
\* balances count the accounts, in every reachable state.
THEOREM Invariant == Spec => []IInv
  BY InitInvariant, NextInvariant, PTL DEF Spec

\* Every variable stays in its type; token balances never wrap below zero.
THEOREM TypeCorrect == Spec => []TypeOK
<1>1. IInv => TypeOK
  BY DEF IInv
<1>. QED  BY <1>1, Invariant, PTL

\* No account can be linked to a vault whose asset accounts cannot move.
THEOREM VaultsHoldSupportedAssets == Spec => []SupportedVaultsHoldSupportedAssets
<1>1. IInv => SupportedVaultsHoldSupportedAssets
  BY DEF IInv
<1>. QED  BY <1>1, Invariant, PTL

\* The balance of every holder is the number of accounts it owns.
THEOREM BalancesAreCounts == Spec => []BalancesCountAccounts
<1>1. IInv => BalancesCountAccounts
  BY DEF IInv
<1>. QED  BY <1>1, Invariant, PTL

-----------------------------------------------------------------------------
(* Approvals *)

\* An account that was not created has no approval, so that its first owner
\* inherits none.
ApprovalIsOwners(a) ==
    /\ nftApproved[a] # Nobody => grantor[a] = nftOwner[a]
    /\ nftOwner[a] = Nobody => nftApproved[a] = Nobody

ApprovalsInv == \A a \in Accounts : ApprovalIsOwners(a)

\* Of one account, at a step: the approval is set by an owner who stays, or is
\* cleared, or neither the approval nor the owner changes.
ApprovalStep(a) ==
    \/ nftApproved'[a] = nftApproved[a] /\ nftOwner'[a] = nftOwner[a]
    \/ nftOwner'[a] = nftOwner[a] /\ nftOwner[a] # Nobody
    \/ nftApproved'[a] = Nobody /\ nftOwner'[a] # Nobody

LEMMA NextApproval ==
    ASSUME TypeOK, ApprovalsInv, Next, NEW a \in Accounts
    PROVE ApprovalStep(a)
<1>1. CASE UNCHANGED <<nftOwner, nftApproved>>
  BY <1>1 DEF ApprovalStep
<1>2. ASSUME NEW c \in Users, NEW b \in Accounts, CreateAccount(c, b) PROVE ApprovalStep(a)
  <2>1. CASE a = b
    BY <1>2, <2>1, BankAssumption
       DEF CreateAccount, ApprovalStep, TypeOK, ApprovalsInv, ApprovalIsOwners, Created, NftHolders
  <2>2. CASE a # b
    BY <1>2, <2>2 DEF CreateAccount, ApprovalStep, TypeOK
  <2>. QED  BY <2>1, <2>2
<1>3. ASSUME NEW c, NEW to, NEW b \in Accounts, Approve(c, to, b) PROVE ApprovalStep(a)
  BY <1>3 DEF Approve, ApprovalStep, TypeOK, Created
<1>4. ASSUME NEW c, NEW from, NEW to \in Recipients, NEW b \in Accounts,
             TransferNft(c, from, to, b)
      PROVE ApprovalStep(a)
  BY <1>4, BankAssumption DEF TransferNft, ApprovalCleared, ApprovalStep, TypeOK
<1>5. CASE RegistryNext
  BY <1>1, <1>2, <1>5
     DEF RegistryNext, AddAsset, CreateVaultCeFi, CreateVaultDeFi, nftVars
<1>6. CASE NftNext
  BY <1>1, <1>3, <1>4, <1>6 DEF NftNext, SetApprovalForAll
<1>7. CASE OwnershipNext
  BY <1>1, <1>7 DEF OwnershipNext, TransferOwnership, RenounceOwnership, nftVars
<1>. QED  BY <1>5, <1>6, <1>7 DEF Next

LEMMA NextApprovals ==
    ASSUME TypeOK, ApprovalsInv, [HistoryNext]_historyVars
    PROVE ApprovalsInv'
<1>1. CASE HistoryNext
  <2>. SUFFICES ASSUME NEW a \in Accounts PROVE ApprovalIsOwners(a)'
    BY DEF ApprovalsInv
  <2>1. ApprovalStep(a) /\ ApprovalIsOwners(a)
    BY <1>1, NextApproval DEF HistoryNext, ApprovalsInv
  <2>2. grantor'[a] = IF nftApproved'[a] # nftApproved[a] THEN nftOwner[a] ELSE grantor[a]
    BY <1>1 DEF HistoryNext
  <2>. QED  BY <2>1, <2>2 DEF ApprovalStep, ApprovalIsOwners
<1>2. CASE UNCHANGED historyVars
  BY <1>2 DEF historyVars, vars, nftVars, ApprovalsInv, ApprovalIsOwners
<1>. QED  BY <1>1, <1>2

\* An approval does not survive the sale of the account, whoever made the sale
\* and however often the account changes hands (_approve, _transfer).
THEOREM ApprovalsAreOwners == HistorySpec => []ApprovalsAreTheOwners
<1>1. HistoryInit => IInv /\ ApprovalsInv
  <2>1. HistoryInit => IInv
    BY InitInvariant DEF HistoryInit
  <2>2. HistoryInit => ApprovalsInv
    BY DEF HistoryInit, Init, ApprovalsInv, ApprovalIsOwners
  <2>. QED  BY <2>1, <2>2
<1>2. IInv /\ ApprovalsInv /\ [HistoryNext]_historyVars => IInv' /\ ApprovalsInv'
  <2>. SUFFICES ASSUME IInv, ApprovalsInv, [HistoryNext]_historyVars
                PROVE IInv' /\ ApprovalsInv'
    OBVIOUS
  <2>1. [Next]_vars
    BY DEF HistoryNext, historyVars
  <2>2. IInv'
    BY <2>1, NextInvariant
  <2>. QED  BY <2>2, NextApprovals DEF IInv
<1>3. ApprovalsInv => ApprovalsAreTheOwners
  BY DEF ApprovalsInv, ApprovalIsOwners, ApprovalsAreTheOwners
<1>. QED  BY <1>1, <1>2, <1>3, PTL DEF HistorySpec
=============================================================================
