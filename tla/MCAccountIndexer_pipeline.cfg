SPECIFICATION Spec
CONSTANTS
    alice = alice
    bob = bob
    Own = own
    Tokens = {rDOL, rETH}
    Accounts = {alice}
    Events <- MCEvents
    MaxBlock = 2
    MaxFaults = 1
INVARIANTS
    TypeOK
    NothingLost
PROPERTIES
    DocsNeverRegress
    PolledAreStored
CHECK_DEADLOCK FALSE
