\* A vault shared with a user who holds shares of her own.
CONSTANTS
    deployer = deployer
    alice = alice
    account0 = account0
    usdc = usdc
    eur = eur
    vaultUSDC = vaultUSDC
    vaultEUR = vaultEUR
    Nobody = Nobody
    NoVault = NoVault
    UniswapHelper = UniswapHelper
    Pool = Pool
    Users = {deployer, alice}
    BankAdmin = deployer
    Accounts = {account0}
    Assets = {usdc}
    CeFiVaults = {vaultUSDC}
    DeFiVaults = {}
    AssetOf <- MCAssetOf
    VaultAdmins = {deployer}
    NewOwners = {}
    Operators = {}
    Recipients = {}
    sub0 = sub0
    sub1 = sub1
    sub2 = sub2
    SubIds = {sub0, sub1}
    DefaultSub = sub0
    InitialTokens <- MCTokensShared
    Amounts = {1, 2}
    MaxBook = 2
    Donees = {}
    Investors = {deployer}
    UintMax = 7
    MAX_BORROW_RATIO = 1
    BPS = 2
SPECIFICATION Spec
INVARIANTS DebitNeverUnderflows
PROPERTIES SharesStayHeld SharePriceNeverFalls EveryVaultIsAPool
