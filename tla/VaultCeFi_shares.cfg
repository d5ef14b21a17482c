\* Two holders, all share operations, no third-party allowances.
CONSTANTS
    deployer = deployer
    alice = alice
    vaultUSDC = vaultUSDC
    NoOwner = NoOwner
    Users = {deployer, alice}
    Self = vaultUSDC
    Admin = deployer
    InitialBalance <- MCInitialBalance
    UintMax = 15
    MAX_BORROW_RATIO = 4
    BPS = 5
    Amounts = {0, 1, 2}
    Approvals = {}
    NewOwners = {}
SPECIFICATION Spec
INVARIANTS TypeOK SharesWithinSupply RoundTripNeverProfits HoldersCanLeave
PROPERTIES SharePriceNeverFalls OutflowIsPaidFor LoansRespectRatio ImplementsSharePool
