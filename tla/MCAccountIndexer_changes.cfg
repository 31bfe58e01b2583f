SPECIFICATION Spec
CONSTANTS
    alice = alice
    bob = bob
    Own = own
    Tokens = {rETH}
    Accounts = {alice, bob}
    Events <- MCEvents
    MaxBlock = 2
    MaxFaults = 0
PROPERTIES
    ChangesWritten
CHECK_DEADLOCK FALSE
