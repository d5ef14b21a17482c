\* The bank owner offers a vault that was deployed elsewhere.
CONSTANTS
    deployer = deployer
    alice = alice
    account0 = account0
    account1 = account1
    usdc = usdc
    eur = eur
    vaultUSDC = vaultUSDC
    vaultEUR = vaultEUR
    yearnUSDC = yearnUSDC
    Nobody = Nobody
    Users = {deployer, alice}
    BankAdmin = deployer
    Accounts = {account0, account1}
    Assets = {usdc, eur}
    CeFiVaults = {vaultUSDC, vaultEUR}
    DeFiVaults = {yearnUSDC}
    AssetOf <- MCAssetOf
    VaultAdmins = {deployer}
    NewOwners = {alice}
    Operators = {deployer, alice}
    Recipients = {deployer, alice, account1}
SPECIFICATION HistorySpec
INVARIANT NewVaultAccepted
