\* A wallet, a contract that acts for it, one position, two tokens.
CONSTANTS
    alice = alice
    robot = robot
    usdc = usdc
    eur = eur
    Users = {alice, robot}
    Contracts = {robot}
    OperatorOf <- MCOperatorOf
    Nobody = Nobody
    Helper = Helper
    Router = Router
    Manager = Manager
    Pool = Pool
    Token0 = usdc
    Token1 = eur
    Positions = {1}
    InitialTokens <- MCTokens
    Amounts = {0, 1, 2}
    Named = {robot, Helper, Nobody}
    PoolAnswers <- MCPoolAnswers
    MaxLiquidity = 2
    MaxGas = 2
SPECIFICATION FairSpec
INVARIANT TypeOK
PROPERTIES ClaimsMoveByConsent OwedIsPaidToClaimant CustodyIsRecorded  DepositsComeBack
