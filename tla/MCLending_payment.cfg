SPECIFICATION Spec
CONSTANTS
    Scale = 1000
    Users = {u1, u2}
    System = system
    BorrowRateMax = 200
    ReserveFactor = 100
    Infinite = infinite
    Markets = {rDOL, rETH}
    SystemMarket = rDOL
    EtherMarkets = {rETH}
    OtherRate = 1000
    InitialRate <- MCInitialRate
    GenesisSupply = 0
    Amounts = {10, 30, 40}
    Grants = {}
    Allowances = {}
    OtherPrices = {2000}
    Prices <- MCPrices
    CollateralFactors = {750}
    CloseFactors = {500}
    LiquidationIncentives = {1080}
    DefaultCollateralFactor = 750
    RateModels <- SteepOnly
    MaySuspend = FALSE
    Retirable = {}
    SystemSuppliers = {}
    OtherSuppliers = {u1}
    Suppliers <- MCSuppliers
    SystemBorrowers = {}
    OtherBorrowers = {u1}
    Borrowers <- MCBorrowers
    LateMarkets = {}
    Receivers = {}
    MaxBlock = 3
    MaxCash = 80
INVARIANT PaymentExcluded
CHECK_DEADLOCK FALSE
