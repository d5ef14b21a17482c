\* Two assets with a vault each, and swaps between them; no loans.
CONSTANTS
    deployer = deployer
    alice = alice
    account0 = account0
    usdc = usdc
    eur = eur
    vaultUSDC = vaultUSDC
    vaultEUR = vaultEUR
    Nobody = Nobody
    NoVault = NoVault
    UniswapHelper = UniswapHelper
    Pool = Pool
    Users = {deployer, alice}
    BankAdmin = deployer
    Accounts = {account0}
    Assets = {usdc, eur}
    CeFiVaults = {vaultUSDC, vaultEUR}
    DeFiVaults = {}
    AssetOf <- MCAssetOf
    VaultAdmins = {deployer}
    NewOwners = {}
    Operators = {}
    Recipients = {}
    sub0 = sub0
    sub1 = sub1
    sub2 = sub2
    SubIds = {sub0, sub1}
    DefaultSub = sub0
    InitialTokens <- MCTokensSwap
    Amounts = {1, 2}
    MaxBook = 2
    Donees = {account0}
    Investors = {}
    UintMax = 3
    MAX_BORROW_RATIO = 0
    BPS = 2
SPECIFICATION Spec
INVARIANT LinkedAssetsSupported
PROPERTIES IdleStaysBacked OutflowIsTheOwners
