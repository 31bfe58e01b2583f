SPECIFICATION Spec
CONSTANTS
    Scale = 10
    Users = {u1, u2}
    System = system
    BorrowRateMax = 6
    ReserveFactor = 1
    Infinite = infinite
    Markets = {rDOL, rETH}
    SystemMarket = rDOL
    EtherMarkets = {rETH}
    OtherRate = 15
    InitialRate <- MCInitialRate
    GenesisSupply = 10
    Amounts = {5, 10}
    Grants = {}
    Allowances = {}
    OtherPrices = {10, 20}
    Prices <- MCPrices
    CollateralFactors = {8}
    CloseFactors = {5}
    LiquidationIncentives = {11}
    DefaultCollateralFactor = 8
    RateModels <- FlatOrIdle
    MaySuspend = TRUE
    Retirable = {rETH}
    SystemSuppliers = {}
    OtherSuppliers = {u1}
    Suppliers <- MCSuppliers
    SystemBorrowers = {u1}
    OtherBorrowers = {}
    Borrowers <- MCBorrowers
    LateMarkets = {rDOL}
    Receivers = {u2}
    MaxBlock = 2
    MaxCash = 15
CONSTRAINT Focus
INVARIANTS
    PowersReported
    DebtFreeMayLeave
PROPERTIES
    NoShortfallByMoving
    SuspensionFreezes
CHECK_DEADLOCK FALSE
