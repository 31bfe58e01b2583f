SPECIFICATION Spec
CONSTANTS
    gov = gov
    council = council
    democracy = democracy
    server = server
    controller = controller
    controller2 = controller2
    rds = rds
    oracle1 = oracle1
    oracle2 = oracle2
    pController = pController
    pOther = pOther
    None = None
    NotLoaded = NotLoaded
    Keys <- MCKeys
    Addresses <- MCAddresses
    ProxyOf <- MCProxyOf
    Candidates <- MCCandidates
    Senders = {gov, council, democracy}
    Loadable = {"MARKET_CONTROLLER", "RDS", "ORACLE"}
    Providers = {"node", "other"}
    MaxLoads = 2
    Symbols = {"HBTC", "HETH"}
    Unfed = {"ETH"}
    Feeder = server
    MaxRounds = 2
CONSTRAINT Focus
INVARIANTS
    TypeOK
    HandlesTrusted
    PricesOfOneRound
PROPERTIES
    Irrevocable
CHECK_DEADLOCK FALSE
