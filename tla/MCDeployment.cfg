SPECIFICATION Spec
CONSTANTS
    Keys <- MCKeys
    Addresses <- MCAddresses
    None <- MCNone
    ProxyOf <- MCProxyOf
    Senders = {}
    Candidates <- MCCandidates
    Admin <- MCAdmin
    Networks = {"unittest", "dev", "testnet", "mainnet"}
    Assets = {"HBTC", "HETH", "WHT"}
    LpTokens <- MCLpTokens
    MaxFailures = 2
INVARIANTS
    Wired
PROPERTIES
    Completes
CHECK_DEADLOCK FALSE
