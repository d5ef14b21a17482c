\* One account with three sub-accounts, one asset and its vault.
CONSTANTS
    deployer = deployer
    alice = alice
    account0 = account0
    usdc = usdc
    eur = eur
    vaultUSDC = vaultUSDC
    vaultEUR = vaultEUR
    Nobody = Nobody
    NoVault = NoVault
    UniswapHelper = UniswapHelper
    Pool = Pool
    Users = {deployer, alice}
    BankAdmin = deployer
    Accounts = {account0}
    Assets = {usdc}
    CeFiVaults = {vaultUSDC}
    DeFiVaults = {}
    AssetOf <- MCAssetOf
    VaultAdmins = {deployer}
    NewOwners = {}
    Operators = {}
    Recipients = {deployer}
    sub0 = sub0
    sub1 = sub1
    sub2 = sub2
    SubIds = {sub0, sub1, sub2}
    DefaultSub = sub0
    InitialTokens <- MCTokens
    Amounts = {0, 1}
    MaxBook = 2
    Donees = {account0}
    Investors = {}
    UintMax = 7
    MAX_BORROW_RATIO = 1
    BPS = 2
SYMMETRY SubSymmetry
SPECIFICATION Spec
INVARIANT TypeOK
PROPERTIES IdleStaysBacked SharesStayHeld OutflowIsTheOwners
