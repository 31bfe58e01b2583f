\* Votes and checkpoints over four blocks; allowances, the cap and signed
\* delegations in the first two.
CONSTANTS
    alice = alice
    bob = bob
    Zero = Zero
    Accounts = {alice, bob}
    Superiors = {bob}
    Amounts = {1, 2}
    Approvals = {1, 4}
    MaxUint = 4
    InitialSupply = 1
    MaxSupply = 3
    Signatures <- SomeSignatures
    LastBlock = 4
SPECIFICATION Spec
CONSTRAINT EarlyTokens
INVARIANTS
    TypeOK
    SignaturesOnce
    VotesMatchBalances
    HoldingsMovable
    SearchExact
PROPERTIES
    VotesRegistered
CHECK_DEADLOCK FALSE
