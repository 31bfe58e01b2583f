SPECIFICATION Spec
CONSTANTS
    Scale = 1000
    Users = {u1, u2}
    System = system
    BorrowRateMax = 200
    ReserveFactor = 100
    Infinite = infinite
    Markets = {rDOL}
    SystemMarket = rDOL
    EtherMarkets = {}
    OtherRate = 1000
    InitialRate <- MCInitialRate
    GenesisSupply = 0
    Amounts = {10, 20}
    Grants = {}
    Allowances = {}
    OtherPrices = {}
    Prices <- MCPrices
    CollateralFactors = {750}
    CloseFactors = {500}
    LiquidationIncentives = {1080}
    DefaultCollateralFactor = 750
    RateModels <- SteepOnly
    MaySuspend = FALSE
    Retirable = {}
    SystemSuppliers = {u1}
    OtherSuppliers = {}
    Suppliers <- MCSuppliers
    SystemBorrowers = {u1}
    OtherBorrowers = {}
    Borrowers <- MCBorrowers
    LateMarkets = {}
    Receivers = {}
    MaxBlock = 3
    MaxCash = 40
INVARIANT DebtRepayable
CHECK_DEADLOCK FALSE
