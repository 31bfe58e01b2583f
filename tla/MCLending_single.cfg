SPECIFICATION Spec
CONSTANTS
    Scale = 4
    Users = {u1, u2}
    System = system
    BorrowRateMax = 6
    ReserveFactor = 2
    Infinite = infinite
    Markets = {rDOL}
    SystemMarket = rDOL
    EtherMarkets = {}
    OtherRate = 4
    InitialRate <- MCInitialRate
    GenesisSupply = 3
    Amounts = {2}
    Grants = {2}
    Allowances = {2}
    OtherPrices = {4}
    Prices <- MCPrices
    CollateralFactors = {3}
    CloseFactors = {2}
    LiquidationIncentives = {4}
    DefaultCollateralFactor = 3
    RateModels <- FlatOrIdle
    MaySuspend = TRUE
    Retirable = {}
    SystemSuppliers = {u1, u2}
    OtherSuppliers = {}
    Suppliers <- MCSuppliers
    SystemBorrowers = {u1, u2}
    OtherBorrowers = {}
    Borrowers <- MCBorrowers
    LateMarkets = {}
    Receivers = {u1, u2, system}
    MaxBlock = 3
    MaxCash = 5
SYMMETRY UserSymmetry
INVARIANTS
    TypeOK
    SupplyBacked
PROPERTIES
    RateNeverFalls
CHECK_DEADLOCK FALSE
