\* Repeated transfers out of a linked sub-account.
CONSTANTS
    deployer = deployer
    alice = alice
    account0 = account0
    usdc = usdc
    eur = eur
    vaultUSDC = vaultUSDC
    vaultEUR = vaultEUR
    Nobody = Nobody
    NoVault = NoVault
    UniswapHelper = UniswapHelper
    Pool = Pool
    Users = {deployer, alice}
    BankAdmin = deployer
    Accounts = {account0}
    Assets = {usdc}
    CeFiVaults = {vaultUSDC}
    DeFiVaults = {}
    AssetOf <- MCAssetOf
    VaultAdmins = {deployer}
    NewOwners = {}
    Operators = {}
    Recipients = {deployer}
    sub0 = sub0
    sub1 = sub1
    sub2 = sub2
    SubIds = {sub0, sub1, sub2}
    DefaultSub = sub0
    InitialTokens <- MCTokens
    Amounts = {0, 1}
    MaxBook = 4
    Donees = {account0}
    Investors = {}
    UintMax = 7
    MAX_BORROW_RATIO = 1
    BPS = 2
SPECIFICATION Spec
INVARIANT BookedFundsExist
