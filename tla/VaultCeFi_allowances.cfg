\* Third-party allowances and changes of owner.
CONSTANTS
    deployer = deployer
    alice = alice
    vaultUSDC = vaultUSDC
    NoOwner = NoOwner
    Users = {deployer, alice}
    Self = vaultUSDC
    Admin = deployer
    InitialBalance <- MCOneEach
    UintMax = 3
    MAX_BORROW_RATIO = 4
    BPS = 5
    Amounts = {0, 1}
    Approvals = {0, 1, 3}
    NewOwners = {alice}
SPECIFICATION Spec
INVARIANTS SharesSumToSupply
PROPERTIES SharesMoveByConsent
