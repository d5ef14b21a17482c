-------------------------------- MODULE Bank --------------------------------
(***************************************************************************)
(* The Bank: the registry of supported assets and vaults, and the ERC721   *)
(* whose token ids are the account contracts it deployed.  Whoever owns    *)
(* the token of an account owns the account.  A step is one transaction    *)
(* that succeeds.                                                          *)
(***************************************************************************)
EXTENDS Integers, FiniteSets

CONSTANTS
    Users,          \* wallets
    Nobody,         \* address(0)
    BankAdmin,      \* _admin of the constructor
    Accounts,       \* addresses createAccount deploys at, also the token ids
    Assets,         \* ERC20 tokens
    CeFiVaults,     \* addresses createVaultCeFi deploys at
    DeFiVaults,     \* ERC4626 vaults deployed by others
    AssetOf,        \* asset() of every vault, fixed when it is deployed
    VaultAdmins,    \* bound: users that createVaultCeFi names as admin
    NewOwners,      \* bound: users that transferOwnership names
    Operators,      \* bound: addresses that approve and setApprovalForAll name
    Recipients      \* bound: addresses that transferFrom names

Vaults == CeFiVaults \cup DeFiVaults
NftHolders == Users \cup Accounts

ASSUME BankAssumption ==
    /\ Nobody \notin NftHolders
    /\ Users \cap Accounts = {}
    /\ CeFiVaults \cap DeFiVaults = {}
    /\ AssetOf \in [Vaults -> Assets]
    /\ BankAdmin \in Users
    /\ VaultAdmins \subseteq Users
    /\ NewOwners \subseteq Users
    /\ Operators \subseteq NftHolders
    /\ Recipients \subseteq NftHolders

\* Addresses are finitely many.
ASSUME FiniteAssumption == IsFiniteSet(Accounts)

VARIABLES
    bankOwner,          \* Ownable._owner
    supportedAssets,
    supportedVaults,
    vaultOwner,         \* owner of each CeFi vault; Nobody until it is deployed
    nftOwner,           \* ERC721._owners; Nobody until the account is created
    nftBalance,         \* ERC721._balances
    nftApproved,        \* ERC721._tokenApprovals
    operatorApprovals   \* ERC721._operatorApprovals, as a set of operators

registryVars == <<bankOwner, supportedAssets, supportedVaults, vaultOwner>>
nftVars == <<nftOwner, nftBalance, nftApproved, operatorApprovals>>
vars == <<registryVars, nftVars>>

Init ==
    /\ bankOwner = BankAdmin
    /\ supportedAssets = {}
    /\ supportedVaults = {}
    /\ vaultOwner = [v \in CeFiVaults |-> Nobody]
    /\ nftOwner = [a \in Accounts |-> Nobody]
    /\ nftBalance = [h \in NftHolders |-> 0]
    /\ nftApproved = [a \in Accounts |-> Nobody]
    /\ operatorApprovals = [h \in NftHolders |-> {}]

-----------------------------------------------------------------------------
(* What the other contracts read *)

Created(a) == nftOwner[a] # Nobody
AnyAsset(x) == x \in Assets
isAssetSupported(x) == x \in supportedAssets
isVaultSupported(v) == v \in supportedVaults

-----------------------------------------------------------------------------
(* Registry *)

\* The new account's address is fresh, so minting its token cannot fail.
CreateAccount(caller, a) ==
    /\ ~Created(a)
    /\ nftOwner' = [nftOwner EXCEPT ![a] = caller]
    /\ nftBalance' = [nftBalance EXCEPT ![caller] = @ + 1]
    /\ UNCHANGED <<registryVars, nftApproved, operatorApprovals>>

AddAsset(caller, x) ==
    /\ caller = bankOwner
    /\ x \notin supportedAssets
    /\ supportedAssets' = supportedAssets \cup {x}
    /\ UNCHANGED <<bankOwner, supportedVaults, vaultOwner, nftVars>>

\* v is the fresh address of the deployed vault.
CreateVaultCeFi(caller, x, admin, v) ==
    /\ caller = bankOwner
    /\ isAssetSupported(x)
    /\ AssetOf[v] = x
    /\ vaultOwner[v] = Nobody /\ v \notin supportedVaults
    /\ vaultOwner' = [vaultOwner EXCEPT ![v] = admin]
    /\ supportedVaults' = supportedVaults \cup {v}
    /\ UNCHANGED <<bankOwner, supportedAssets, nftVars>>

\* The modifier vaultNotAdded reverts when the vault is NOT supported yet.
CreateVaultDeFi(caller, v) ==
    /\ caller = bankOwner
    /\ isVaultSupported(v)
    /\ isAssetSupported(AssetOf[v])
    /\ supportedVaults' = supportedVaults \cup {v}
    /\ UNCHANGED <<bankOwner, supportedAssets, vaultOwner, nftVars>>

TransferOwnership(caller, newOwner) ==
    /\ caller = bankOwner
    /\ bankOwner' = newOwner
    /\ UNCHANGED <<supportedAssets, supportedVaults, vaultOwner, nftVars>>

RenounceOwnership(caller) ==
    /\ caller = bankOwner
    /\ bankOwner' = Nobody
    /\ UNCHANGED <<supportedAssets, supportedVaults, vaultOwner, nftVars>>

-----------------------------------------------------------------------------
(* Account tokens *)

isApprovedOrOwner(spender, a) ==
    \/ spender = nftOwner[a]
    \/ spender \in operatorApprovals[nftOwner[a]]
    \/ spender = nftApproved[a]

Approve(caller, to, a) ==
    /\ Created(a)
    /\ to # nftOwner[a]
    /\ caller = nftOwner[a] \/ caller \in operatorApprovals[nftOwner[a]]
    /\ nftApproved' = [nftApproved EXCEPT ![a] = to]
    /\ UNCHANGED <<registryVars, nftOwner, nftBalance, operatorApprovals>>

SetApprovalForAll(caller, operator, approved) ==
    /\ caller # operator
    /\ operatorApprovals' = [operatorApprovals EXCEPT ![caller] =
                               IF approved THEN @ \cup {operator} ELSE @ \ {operator}]
    /\ UNCHANGED <<registryVars, nftOwner, nftBalance, nftApproved>>

ApprovalKept(a) == nftApproved
ApprovalCleared(a) == [nftApproved EXCEPT ![a] = Nobody]

BalancesStaleRead(from, to) ==
    LET left == [nftBalance EXCEPT ![from] = @ - 1]
    IN  [left EXCEPT ![to] = nftBalance[to] + 1]
BalancesSwapped(from, to) ==
    LET left == [nftBalance EXCEPT ![to] = @ - 1]
    IN  [left EXCEPT ![from] = @ + 1]
BalancesMoved(from, to) ==
    LET left == [nftBalance EXCEPT ![from] = @ - 1]
    IN  [left EXCEPT ![to] = @ + 1]

\* transferFrom, and safeTransferFrom to a wallet.  The recipient may be an
\* account contract, which then owns itself or another account.
TransferNft(caller, from, to, a) ==
    /\ Created(a)
    /\ isApprovedOrOwner(caller, a)
    /\ from = nftOwner[a]
    /\ nftApproved' = ApprovalCleared(a)
    /\ nftBalance' = BalancesMoved(from, to)
    /\ nftOwner' = [nftOwner EXCEPT ![a] = to]
    /\ UNCHANGED <<registryVars, operatorApprovals>>

-----------------------------------------------------------------------------
RegistryNext ==
    \E c \in Users :
        \/ \E a \in Accounts : CreateAccount(c, a)
        \/ \E x \in Assets :
              \/ AddAsset(c, x)
              \/ \E admin \in VaultAdmins, v \in CeFiVaults :
                    CreateVaultCeFi(c, x, admin, v)
        \/ \E v \in Vaults : CreateVaultDeFi(c, v)

NftNext ==
    \E c \in Users :
        \/ \E o \in Operators, approved \in BOOLEAN : SetApprovalForAll(c, o, approved)
        \/ \E a \in Accounts :
              \/ \E o \in Operators \cup {Nobody} : Approve(c, o, a)
              \/ \E from \in NftHolders, to \in Recipients : TransferNft(c, from, to, a)

OwnershipNext ==
    \E c \in Users :
        \/ \E u \in NewOwners : TransferOwnership(c, u)
        \/ RenounceOwnership(c)

Next == RegistryNext \/ NftNext \/ OwnershipNext

Spec == Init /\ [][Next]_vars

-----------------------------------------------------------------------------
(* Properties *)

TypeOK ==
    /\ bankOwner \in Users \cup {Nobody}
    /\ supportedAssets \subseteq Assets
    /\ supportedVaults \subseteq Vaults
    /\ vaultOwner \in [CeFiVaults -> Users \cup {Nobody}]
    /\ nftOwner \in [Accounts -> NftHolders \cup {Nobody}]
    /\ nftBalance \in [NftHolders -> Nat]
    /\ nftApproved \in [Accounts -> NftHolders \cup {Nobody}]
    /\ operatorApprovals \in [NftHolders -> SUBSET NftHolders]

\* Every vault an account can be linked to holds an asset the account can move:
\* otherwise what is invested could not be withdrawn (createVaultCeFi and
\* createVaultDeFi check the asset, in different ways).
SupportedVaultsHoldSupportedAssets ==
    \A v \in supportedVaults : AssetOf[v] \in supportedAssets

\* The unchecked _balances of the ERC721 count the accounts of every holder.
BalancesCountAccounts ==
    \A h \in NftHolders : nftBalance[h] = Cardinality({ a \in Accounts : nftOwner[a] = h })

\* "Creates a new VaultDeFi" (Bank.sol): the owner can register a vault of a
\* supported asset that is not registered yet.
NewVaultAccepted ==
    \A v \in DeFiVaults :
        /\ bankOwner # Nobody
        /\ isAssetSupported(AssetOf[v])
        /\ ~isVaultSupported(v)
        => ENABLED CreateVaultDeFi(bankOwner, v)
=============================================================================
