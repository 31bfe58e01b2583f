SPECIFICATION Spec
CONSTANTS
    Accounts = {a1, a2}
    Self = self
    Markets = {m1}
    LpTokens = {l1}
    MaxPools = 2
    Powers = {0, 1, 2}
    MaxPower = 3
    Weights = {0, 1, 3}
    Delays = {1}
    Mantissa = 2
    BlocksPerYear = 2
    InitialSupply = 2
    MaxSupply = 14
    TokenPower = 1
    MaxBlock = 6
SYMMETRY AccountSymmetry
CONSTRAINT Focus
INVARIANTS
    TypeOK
    PowerConservation
    MasksCovered
    RewardsBacked
    LocksCovered
    ExitObstacles
    RegistryMatchesPools
    OpenPoolListed
PROPERTY NoRetroactiveReward
CHECK_DEADLOCK FALSE
