SPECIFICATION Spec
CONSTANTS
    alice = alice
    bob = bob
    carol = carol
    Accounts = {alice, bob, carol}
    Proposers = {bob, carol}
    Democracy = democracy
    Guardian = guardian
    FirstTerm <- MCFirstTerm
    Terms <- MCTerms
    Delays = {1}
    Periods = {1}
    ExecutionDelays = {1}
    MaxMembersChoices = {4}
    FirstMaxMembers = 4
    FirstExecutionDelay = 1
    MinMembers = 3
    MaxVotingDelay = 1
    MinVotingPeriod = 1
    MaxVotingPeriod = 2
    GracePeriod = 1
    MaxExecutionDelay = 2
    MaxProposals = 1
    MaxReforms = 1
    MaxEvents = 2
    LastBlock = 4
    MaxCrashes = 0
    MaxErrors = 0
PROPERTY CreationsStored
CHECK_DEADLOCK FALSE
