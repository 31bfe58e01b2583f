------------------------------ MODULE Council ------------------------------
(***************************************************************************)
(* The council (Council.sol): members propose, vote and queue calls, which *)
(* anyone may execute after a time lock and within a grace period.  A new  *)
(* term replaces the members, whatever proposals are under way.            *)
(*                                                                         *)
(* Block number `block` is the block being mined; the events of earlier    *)
(* blocks can be read off the chain.                                       *)
(*                                                                         *)
(* execute calls the target of a proposal before it is done, so that a     *)
(* transaction is not one step: `executing` holds the calls under way, and *)
(* whoever the target reaches may use the council meanwhile.               *)
(***************************************************************************)
EXTENDS Integers, Sequences, FiniteSets

CONSTANTS
    Accounts,            \* addresses that send transactions, the council's own included
    Democracy, Guardian, \* addresses the orchestrator gives
    FirstTerm,           \* members initialize appoints
    Terms,               \* sequences of members a new term may have
    Delays, Periods,     \* voting delays and periods proposers ask for
    ExecutionDelays, MaxMembersChoices,   \* settings asked for
    FirstMaxMembers, FirstExecutionDelay, \* initial settings
    MinMembers, MaxVotingDelay, MinVotingPeriod, MaxVotingPeriod,
    GracePeriod, MaxExecutionDelay,
    Proposers,           \* bounds of the model: members who propose,
    MaxProposals, MaxReforms, MaxEvents, LastBlock   \* and what happens at most

ASSUME CouncilAssumption ==
    /\ Proposers \subseteq Accounts /\ FirstTerm \in Seq(Accounts) /\ Terms \subseteq Seq(Accounts)
    /\ Delays \subseteq Nat /\ Periods \subseteq Nat
    /\ ExecutionDelays \subseteq Nat /\ MaxMembersChoices \subseteq Nat
    /\ FirstMaxMembers \in Nat /\ FirstExecutionDelay \in Nat \ {0}
    /\ MinMembers \in Nat /\ MaxVotingDelay \in Nat
    /\ MinVotingPeriod \in Nat /\ MaxVotingPeriod \in Nat
    /\ GracePeriod \in Nat /\ MaxExecutionDelay \in Nat
    /\ MaxProposals \in Nat /\ MaxReforms \in Nat
    /\ MaxEvents \in Nat /\ LastBlock \in Nat

VARIABLES
    block,
    proposals,      \* proposals[id], proposalCount is their number
    members,        \* sequence of the members
    memberMap,      \* set of the accounts with memberMap true
    maxMembers, executionDelay,
    executing,      \* ids of the executions that wait for their target, innermost last
    runs,           \* history: how often a call of each proposal has begun
    log             \* the events emitted, in order

settings == <<maxMembers, executionDelay>>
term == <<members, memberMap>>
calls == <<executing, runs>>
councilVars == <<block, proposals, term, settings, calls, log>>

ProposalState == {"Pending", "Expired", "Queued", "Canceled", "Executed"}

\* What a proposal calls is left to its execution; voters is proposalVoters.
Proposal == [proposer : Accounts, startBlock : Nat, endBlock : Nat, eta : Nat,
             ayes : Nat, voters : SUBSET Accounts, state : ProposalState]

Event(topic, id, arg) == [block |-> block, topic |-> topic, id |-> id, arg |-> arg]

\* Bound of the model: a call under way has room for the event of its return.
Room(n) == Len(log) + Len(executing) + n <= MaxEvents

Emit(events) ==
    /\ Room(Len(events))
    /\ log' = log \o events

OnStack(id) == \E n \in DOMAIN executing : executing[n] = id

CouncilTypeOK ==
    /\ block \in Nat
    /\ proposals \in Seq(Proposal)
    /\ members \in Seq(Accounts)
    /\ memberMap \subseteq Accounts
    /\ maxMembers \in Nat /\ executionDelay \in Nat \ {0}
    /\ executing \in Seq(1 .. Len(proposals))
    /\ runs \in Seq(Nat) /\ Len(runs) = Len(proposals)

CouncilInit ==
    /\ block = 1
    /\ proposals = <<>>
    /\ members = FirstTerm
    /\ memberMap = {FirstTerm[i] : i \in DOMAIN FirstTerm}
    /\ maxMembers = FirstMaxMembers
    /\ executionDelay = FirstExecutionDelay
    /\ executing = <<>> /\ runs = <<>>
    /\ log = <<>>

(***************************************************************************)
(* The members' operations.                                                *)
(***************************************************************************)
Propose(sender, delay, period) ==
    /\ sender \in memberMap
    /\ delay > 0 /\ delay <= MaxVotingDelay
    /\ period <= MaxVotingPeriod /\ period >= MinVotingPeriod
    /\ Len(proposals) < MaxProposals
    /\ proposals' = Append(proposals,
           [proposer |-> sender, startBlock |-> block + delay,
            endBlock |-> block + delay + period, eta |-> 0,
            ayes |-> 1, voters |-> {sender}, state |-> "Pending"])
    /\ Emit(<<Event("ProposalCreated", Len(proposals) + 1, sender)>>)
    /\ runs' = Append(runs, 0)
    /\ UNCHANGED <<block, term, settings, executing>>

\* A vote after the voting stage only makes the proposal expire.
VoteTooLate(id) ==
    /\ block > proposals[id].endBlock
    /\ proposals' = [proposals EXCEPT ![id].state = "Expired"]
    /\ Emit(<<Event("ProposalExpired", id, 0)>>)

\* Mutant: the vote is counted, and the voter not entered.
VoteAyeUnentered(sender, id) ==
    LET p == proposals[id]
        voted == [p EXCEPT !.ayes = @ + 1]
        eta == block + executionDelay
        queued == voted.ayes > Len(members) \div 2
    IN  /\ block <= p.endBlock
        /\ proposals' = [proposals EXCEPT ![id] =
               IF queued THEN [voted EXCEPT !.state = "Queued", !.eta = eta] ELSE voted]
        /\ Emit(<<Event("ProposalVoted", id, p.proposer)>>
                    \o IF queued THEN <<Event("ProposalQueued", id, eta)>> ELSE <<>>)

\* The event names the proposer where it declares a voter.
VoteAye(sender, id) ==
    LET p == proposals[id]
        voted == [p EXCEPT !.ayes = @ + 1, !.voters = @ \cup {sender}]
        vote == Event("ProposalVoted", id, p.proposer)
        eta == block + executionDelay
    IN  /\ block <= p.endBlock
        /\ IF voted.ayes > Len(members) \div 2
           THEN /\ proposals' = [proposals EXCEPT ![id] =
                                     [voted EXCEPT !.state = "Queued", !.eta = eta]]
                /\ Emit(<<vote, Event("ProposalQueued", id, eta)>>)
           ELSE /\ proposals' = [proposals EXCEPT ![id] = voted]
                /\ Emit(<<vote>>)

Vote(sender, id) ==
    /\ sender \in memberMap
    /\ block >= proposals[id].startBlock
    /\ sender \notin proposals[id].voters
    /\ proposals[id].state = "Pending"
    /\ VoteTooLate(id) \/ VoteAye(sender, id)
    /\ UNCHANGED <<block, term, settings, calls>>

(***************************************************************************)
(* Operations kept for the democracy, as onlyDemocracy (AuthBase.sol)      *)
(* decides it: of the sender it requires only not to be both.              *)
(***************************************************************************)
MayGovern(sender) == sender # Democracy \/ sender # Guardian

Cancelable(p) == p.state \in {"Queued", "Pending"}

\* The proposals after cancel(id), and its event, emitted in any case.
Canceled(ps, id) == IF Cancelable(ps[id]) THEN [ps EXCEPT ![id].state = "Canceled"] ELSE ps
CancelEvent(id) == Event("ProposalCanceled", id, Cancelable(proposals[id]))

Cancel(sender, id) ==
    /\ MayGovern(sender)
    /\ proposals' = Canceled(proposals, id)
    /\ Emit(<<CancelEvent(id)>>)
    /\ UNCHANGED <<block, term, settings, calls>>

\* Mutant: the old members are struck off after the new ones are entered.
StartTermLate(newMembers) ==
    /\ Len(newMembers) >= MinMembers /\ Len(newMembers) <= maxMembers
    /\ memberMap' = (memberMap \cup {newMembers[i] : i \in DOMAIN newMembers})
                        \ {members[i] : i \in DOMAIN members}
    /\ members' = newMembers
    /\ UNCHANGED settings

\* The old members are struck off before the new ones are entered.
StartTerm(newMembers) ==
    /\ Len(newMembers) >= MinMembers /\ Len(newMembers) <= maxMembers
    /\ memberMap' = (memberMap \ {members[i] : i \in DOMAIN members})
                        \cup {newMembers[i] : i \in DOMAIN newMembers}
    /\ members' = newMembers
    /\ UNCHANGED settings

SetMaxMembers(val) ==
    /\ val > MinMembers
    /\ maxMembers' = val
    /\ UNCHANGED <<term, executionDelay>>

\* Mutant: the time lock may be switched off.
SetExecutionDelayAny(val) ==
    /\ val <= MaxExecutionDelay
    /\ executionDelay' = val
    /\ UNCHANGED <<term, maxMembers>>

SetExecutionDelay(val) ==
    /\ val > 0 /\ val <= MaxExecutionDelay
    /\ executionDelay' = val
    /\ UNCHANGED <<term, maxMembers>>

\* The settings a governance call changes; each emits an event of its own.
Reform ==
    /\ Cardinality({i \in DOMAIN log : log[i].topic = "Reform"}) < MaxReforms
    /\ \/ \E newMembers \in Terms : StartTerm(newMembers)
       \/ \E val \in MaxMembersChoices : SetMaxMembers(val)
       \/ \E val \in ExecutionDelays : SetExecutionDelay(val)

Govern(sender) ==
    /\ MayGovern(sender)
    /\ Reform
    /\ Emit(<<Event("Reform", 0, 0)>>)
    /\ UNCHANGED <<block, proposals, calls>>

(***************************************************************************)
(* Execution.  The proposal is still queued while its target is called,    *)
(* and becomes Executed when the call returns, whatever it is then.        *)
(*                                                                         *)
(* Between the two steps the council is open to the target and to whomever *)
(* it calls: any operation, by any account, this execution again included. *)
(* A call that fails reverts to where it began: it is a step not taken.    *)
(***************************************************************************)
Executed(ps, id) == [ps EXCEPT ![id].state = "Executed"]
ExecuteEvent(id) == Event("ProposalExecuted", id, 0)

\* Mutant: the time lock has no end.
ExecutableForEver(id) == proposals[id].state = "Queued" /\ block >= proposals[id].eta

Executable(id) ==
    /\ proposals[id].state = "Queued"
    /\ block >= proposals[id].eta
    /\ block <= proposals[id].eta + GracePeriod

\* execute checks the proposal and calls its target.
Execute(id) ==
    /\ Executable(id)
    /\ Room(1)
    /\ executing' = Append(executing, id)
    /\ runs' = [runs EXCEPT ![id] = @ + 1]
    /\ UNCHANGED <<block, proposals, term, settings, log>>

\* The call of the innermost execution returns.
ExecuteReturns ==
    /\ executing # <<>>
    /\ LET id == executing[Len(executing)]
       IN  /\ proposals' = Executed(proposals, id)
           /\ log' = log \o <<ExecuteEvent(id)>>
    /\ executing' = SubSeq(executing, 1, Len(executing) - 1)
    /\ UNCHANGED <<block, term, settings, runs>>

\* External: the block is mined, between two transactions.
NextBlock ==
    /\ block < LastBlock /\ executing = <<>>
    /\ block' = block + 1
    /\ UNCHANGED <<proposals, term, settings, calls, log>>

CouncilNext ==
    \/ \E sender \in Proposers, delay \in Delays, period \in Periods : Propose(sender, delay, period)
    \/ \E sender \in Accounts, id \in DOMAIN proposals : Vote(sender, id) \/ Cancel(sender, id)
    \/ \E sender \in Accounts : Govern(sender)
    \/ \E id \in DOMAIN proposals : Execute(id)
    \/ ExecuteReturns
    \/ NextBlock

CouncilSpec == CouncilInit /\ [][CouncilNext]_councilVars

(***************************************************************************)
(* Properties                                                              *)
(***************************************************************************)

\* Where a proposal is in its life: one that is being executed is running as
\* long as it is queued, and returning once it is not.
Standing(id) ==
    IF ~OnStack(id) THEN proposals[id].state
    ELSE IF proposals[id].state = "Queued" THEN "Running" ELSE "Returning"

Life == [id \in DOMAIN proposals |->
            [state |-> Standing(id), eta |-> proposals[id].eta, runs |-> runs[id]]]

Lifecycle == INSTANCE ProposalLifecycle WITH life <- Life

\* Proposals keep to their life cycle, whatever a call does to the council
\* that executes it (Council.sol:205): what is final stays final and is never
\* run again, no call begins outside the window that was set when its proposal
\* was queued, and a proposal that is run twice is so from within its own call.
ProposalsKeepLifecycle == Lifecycle!LifecycleSpec

\* memberMap and members name the same accounts after any number of terms
\* that share members or name one twice (Council.sol:258).
TermsMatch == memberMap = {members[i] : i \in DOMAIN members}

\* Every aye counted is the aye of another account, across terms too: a
\* member of two terms, or one named twice, has one (Council.sol:175).
AyesCounted ==
    \A id \in DOMAIN proposals :
        /\ proposals[id].ayes = Cardinality(proposals[id].voters)
        /\ proposals[id].proposer \in proposals[id].voters
=============================================================================
