SPECIFICATION Spec
CONSTANTS
    alice = alice
    bob = bob
    carol = carol
    Accounts = {alice, bob, carol}
    Proposers = {carol}
    Democracy = democracy
    Guardian = guardian
    FirstTerm <- MCFirstTerm
    Terms <- MCTerms
    Delays = {1}
    Periods = {1}
    ExecutionDelays = {0, 1}
    MaxMembersChoices = {4}
    FirstMaxMembers = 4
    FirstExecutionDelay = 1
    MinMembers = 3
    MaxVotingDelay = 1
    MinVotingPeriod = 1
    MaxVotingPeriod = 2
    GracePeriod = 0
    MaxExecutionDelay = 2
    MaxProposals = 1
    MaxReforms = 1
    MaxEvents = 5
    LastBlock = 4
    MaxCrashes = 1
    MaxErrors = 1
INVARIANTS
    TypeOK
    TermsMatch
    AyesCounted
    CheckPointCovered
    IndexAgrees
    FailsOnlyAfterFault
PROPERTIES
    ProposalsKeepLifecycle
    PollsEnd
CHECK_DEADLOCK FALSE
