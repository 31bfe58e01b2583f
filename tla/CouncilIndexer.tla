--------------------------- MODULE CouncilIndexer ---------------------------
(***************************************************************************)
(* The council with the part of the indexing server that follows it:       *)
(* council-observer.js polls the events of the council and stores them     *)
(* through council-repository.js, in two collections of documents that     *)
(* survive a crash, as does the checkpoint file.                           *)
(*                                                                         *)
(* The observer is a chain of asynchronous calls: `phase` says which one   *)
(* it waits for.  isPolling is true in every phase but "down" and "idle";  *)
(* "failed" is the poll one of whose promises was rejected: nothing        *)
(* catches it, and isPolling stays true.                                   *)
(***************************************************************************)
EXTENDS Council

CONSTANTS MaxCrashes, MaxErrors   \* bounds of the model: what may go wrong

ASSUME IndexerAssumption == MaxCrashes \in Nat /\ MaxErrors \in Nat

VARIABLES
    phase,
    lastCheckPoint,    \* in memory
    savedCheckPoint,   \* council.checkpoint on disk
    target,            \* lastBlock.number of the poll under way
    batch,             \* events the poll still has to process
    subscribed,        \* the subscription to new events is up
    delivered,         \* events of the log delivered to it
    docs,              \* proposalStore: pid -> document, pid is a unique index
    voterDocs,         \* voterStore, documents in order of insertion
    crashes,           \* of the server
    errors             \* polls that failed on a rejected call

store == <<docs, voterDocs>>
poll == <<target, batch>>
subscription == <<subscribed, delivered>>
checkpoints == <<lastCheckPoint, savedCheckPoint>>
faults == <<crashes, errors>>
observerVars == <<phase, checkpoints, poll, subscription, store, faults>>
vars == <<councilVars, observerVars>>

Phase == {"down", "idle", "latest", "events", "processing", "failed"}

TypeOK ==
    /\ CouncilTypeOK
    /\ phase \in Phase
    /\ lastCheckPoint \in Nat /\ savedCheckPoint \in Nat /\ target \in Nat
    /\ subscribed \in BOOLEAN /\ delivered \in 0 .. Len(log)
    /\ DOMAIN docs \subseteq 1 .. MaxProposals
    /\ \A pid \in DOMAIN docs : docs[pid] \in [eta : Nat, state : ProposalState]
    /\ crashes \in 0 .. MaxCrashes /\ errors \in 0 .. MaxErrors

Init ==
    /\ CouncilInit
    /\ phase = "down"
    /\ lastCheckPoint = 0 /\ savedCheckPoint = 0
    /\ target = 0 /\ batch = <<>>
    /\ subscribed = FALSE /\ delivered = 0
    /\ docs = <<>> /\ voterDocs = <<>>
    /\ crashes = 0 /\ errors = 0

\* What the chain shows: the events of the blocks already mined.
Mined(e) == e.block < block
LatestBlock == block - 1

\* The events of the blocks up to b are the first of the log: so many of them.
EventsUntil(b) == Cardinality({i \in DOMAIN log : log[i].block <= b})
Polled(from, to) == SubSeq(log, EventsUntil(from - 1) + 1, EventsUntil(to))

(***************************************************************************)
(* The observer.                                                           *)
(***************************************************************************)

\* The process starts, reads the checkpoint file and polls.
Start ==
    /\ phase = "down"
    /\ lastCheckPoint' = savedCheckPoint
    /\ phase' = "latest"
    /\ UNCHANGED <<councilVars, savedCheckPoint, poll, subscription, store, faults>>

\* web3.eth.getBlock('latest') answers.
ReceiveLatest ==
    /\ phase = "latest"
    /\ target' = LatestBlock
    /\ phase' = "events"
    /\ UNCHANGED <<councilVars, checkpoints, batch, subscription, store, faults>>

\* Mutant: the checkpoint is saved before the events are stored.
ReceiveEventsSaving ==
    /\ phase = "events"
    /\ batch' = Polled(lastCheckPoint + 1, target)
    /\ phase' = "processing"
    /\ savedCheckPoint' = target
    /\ UNCHANGED <<councilVars, lastCheckPoint, target, subscription, store, faults>>

\* Mutant: the block of the checkpoint is read again.
ReceiveEventsAgain ==
    /\ phase = "events"
    /\ batch' = Polled(lastCheckPoint, target)
    /\ phase' = "processing"
    /\ UNCHANGED <<councilVars, checkpoints, target, subscription, store, faults>>

\* getPastEvents answers.
ReceiveEvents ==
    /\ phase = "events"
    /\ batch' = Polled(lastCheckPoint + 1, target)
    /\ phase' = "processing"
    /\ UNCHANGED <<councilVars, checkpoints, target, subscription, store, faults>>

Put(pid, doc) == [p \in DOMAIN docs \cup {pid} |-> IF p = pid THEN doc ELSE docs[p]]

\* Mutant: an update replaces the whole document.
UpdateReplaces(pid, state) ==
    IF pid \in DOMAIN docs THEN Put(pid, [eta |-> 0, state |-> state]) ELSE docs

\* updateProposal: no document, no update.
Update(pid, state) ==
    IF pid \in DOMAIN docs THEN Put(pid, [docs[pid] EXCEPT !.state = state]) ELSE docs

\* The next event creates a document that is stored already.
Duplicate ==
    /\ batch # <<>> /\ Head(batch).topic = "ProposalCreated"
    /\ Head(batch).id \in DOMAIN docs

\* One event is stored.  A second document of a proposal violates the unique
\* index: the poll fails.
ProcessEvent ==
    LET e == Head(batch)
    IN  /\ phase = "processing" /\ batch # <<>>
        /\ batch' = IF Duplicate THEN <<>> ELSE Tail(batch)
        /\ phase' = IF Duplicate THEN "failed" ELSE phase
        /\ docs' =
               CASE Duplicate -> docs
                 [] e.topic = "ProposalCreated" /\ ~Duplicate ->
                        Put(e.id, [eta |-> 0, state |-> "Pending"])
                 [] e.topic = "ProposalExpired" -> Update(e.id, "Expired")
                 [] e.topic = "ProposalQueued" ->
                        IF e.id \in DOMAIN docs
                        THEN Put(e.id, [eta |-> e.arg, state |-> "Queued"])
                        ELSE docs
                 [] e.topic = "ProposalExecuted" -> Update(e.id, "Executed")
                 [] e.topic = "ProposalCanceled" -> Update(e.id, "Canceled")
                 [] OTHER -> docs
        /\ voterDocs' = IF e.topic = "ProposalVoted"
                        THEN Append(voterDocs, [pid |-> e.id, voter |-> e.arg])
                        ELSE voterDocs
        /\ UNCHANGED <<councilVars, checkpoints, target, subscription, faults>>

\* Mutant: isPolling is not reset after an empty poll.
FinishPollBusy ==
    /\ phase = "processing" /\ batch = <<>>
    /\ lastCheckPoint' = target
    /\ savedCheckPoint' = target
    /\ phase' = IF \E i \in DOMAIN log : log[i].block \in lastCheckPoint + 1 .. target
                THEN "idle" ELSE "processing"
    /\ subscribed' = TRUE
    /\ delivered' = IF subscribed THEN delivered ELSE EventsUntil(target - 1)
    /\ UNCHANGED <<councilVars, poll, store, faults>>

\* The poll is over.  The first one subscribes to the events from the
\* checkpoint on, its own block included.
FinishPoll ==
    /\ phase = "processing" /\ batch = <<>>
    /\ lastCheckPoint' = target
    /\ savedCheckPoint' = target
    /\ phase' = "idle"
    /\ subscribed' = TRUE
    /\ delivered' = IF subscribed THEN delivered ELSE EventsUntil(target - 1)
    /\ UNCHANGED <<councilVars, poll, store, faults>>

\* External: the call the poll waits for is rejected, by the node or, for the
\* events, by the data store or the file system.
PollFails ==
    /\ phase \in {"latest", "events", "processing"} /\ errors < MaxErrors
    /\ phase' = "failed" /\ batch' = <<>>
    /\ errors' = errors + 1
    /\ UNCHANGED <<councilVars, checkpoints, target, subscription, store, crashes>>

\* An event is delivered: it starts a poll, unless one is under way.
Notify ==
    /\ subscribed /\ phase # "down"
    /\ delivered < Len(log) /\ Mined(log[delivered + 1])
    /\ delivered' = delivered + 1
    /\ phase' = IF phase = "idle" THEN "latest" ELSE phase
    /\ UNCHANGED <<councilVars, checkpoints, poll, subscribed, store, faults>>

\* External: the process dies; what is not on disk is lost.
Crash ==
    /\ phase # "down" /\ crashes < MaxCrashes
    /\ phase' = "down"
    /\ lastCheckPoint' = 0
    /\ target' = 0 /\ batch' = <<>>
    /\ subscribed' = FALSE /\ delivered' = 0
    /\ crashes' = crashes + 1
    /\ UNCHANGED <<councilVars, savedCheckPoint, store, errors>>

ObserverStep == ReceiveLatest \/ ReceiveEvents \/ ProcessEvent \/ FinishPoll

Next ==
    \/ CouncilNext /\ UNCHANGED observerVars
    \/ Start \/ ObserverStep \/ PollFails \/ Notify \/ Crash

\* The node answers the observer, delivers the events, and the process is
\* started again; calls return, blocks are mined, and nobody has to do anything
\* else.
Fairness ==
    /\ WF_vars(Start) /\ WF_vars(ObserverStep) /\ WF_vars(Notify)
    /\ WF_vars((ExecuteReturns \/ NextBlock) /\ UNCHANGED observerVars)

Spec == Init /\ [][Next]_vars /\ Fairness

(***************************************************************************)
(* The queries of the HTTP server.                                         *)
(***************************************************************************)

\* The state a request asks for; any word it does not know stands for "all".
Queried(word) ==
    CASE word = "pending" -> {"Pending"}
      [] word = "queued" -> {"Queued"}
      [] word = "executed" -> {"Executed"}
      [] OTHER -> ProposalState

\* Of the documents in one of the states, the latest proposal first, the page
\* after the first `skip` of them.
GetProposals(states, skip, limit) ==
    LET found == {pid \in DOMAIN docs : docs[pid].state \in states}
        Place(pid) == Cardinality({p \in found : p > pid})
    IN  [count |-> Cardinality(found),
         docs |-> {pid \in found : Place(pid) \in skip .. skip + limit - 1}]

\* A proposal with the documents of its votes; to be asked for one that is stored.
GetProposalDetail(pid) ==
    [proposal |-> docs[pid], voters |-> {n \in DOMAIN voterDocs : voterDocs[n].pid = pid}]

(***************************************************************************)
(* Properties                                                              *)
(***************************************************************************)

\* Nothing below the saved checkpoint is missing from the store, at any
\* moment of a poll and after any crash: the checkpoint is saved last
\* (council-observer.js:52).
CheckPointCovered ==
    \A i \in DOMAIN log :
        LET e == log[i]
        IN  e.block <= savedCheckPoint =>
                /\ e.topic = "ProposalCreated" => e.id \in DOMAIN docs
                /\ e.topic = "ProposalVoted" =>
                       \E n \in DOMAIN voterDocs : voterDocs[n] = [pid |-> e.id, voter |-> e.arg]

UpToDate == phase = "idle" /\ \A i \in DOMAIN log : log[i].block <= lastCheckPoint

\* A cancellation without effect still emits its event (Council.sol:247), and
\* the observer does not look at its `success`.
CanceledInVain(id) ==
    \E i \in DOMAIN log : log[i].topic = "ProposalCanceled" /\ log[i].id = id /\ ~log[i].arg

\* A proposal is on one of the pages of those a request asks for.
Listed(id, word, limit) ==
    \E page \in 0 .. Len(proposals) : id \in GetProposals(Queried(word), page * limit, limit).docs

\* When the observer has caught up, the server answers what the council says
\* of the proposals, whatever was replayed after a crash: every one of them is
\* on a page of the list, and of the list of the state it has and of no other;
\* and without a crash there is one document per vote
\* (council-observer.js:57, index.js:52).
IndexAgrees ==
    UpToDate =>
        /\ GetProposals(Queried("all"), 0, 0).count = Len(proposals)
        /\ \A id \in DOMAIN proposals, limit \in 1 .. 25 :
               /\ Listed(id, "all", limit)
               /\ \A word \in {"pending", "queued", "executed"} :
                      \/ CanceledInVain(id)
                      \/ (proposals[id].state \in Queried(word)) <=> Listed(id, word, limit)
        /\ \A id \in DOMAIN proposals :
               LET detail == GetProposalDetail(id)
               IN  /\ detail.proposal.eta = proposals[id].eta
                   /\ CanceledInVain(id) \/ detail.proposal.state = proposals[id].state
                   /\ crashes = 0 => Cardinality(detail.voters) = proposals[id].ayes - 1

\* A poll fails of itself only on a document it has stored before, and meets
\* one only if a crash came between the document and the checkpoint: without a
\* crash, what stops it is a rejected call (council-observer.js:42).
FailsOnlyAfterFault ==
    /\ phase = "failed" => crashes > 0 \/ errors > 0
    /\ phase = "processing" /\ Duplicate => crashes > 0

\* A poll ends, saves its checkpoint and lets the next one in, unless a call of
\* it is rejected, after which none ever gets in, or the server dies first:
\* however many events arrive meanwhile, polls neither overlap nor keep each
\* other out for ever (council-observer.js:43).
PollsEnd ==
    phase \in {"latest", "events", "processing"}
        ~> ((phase = "idle" /\ savedCheckPoint = target) \/ phase \in {"down", "failed"})

\* "Poll council proposal events and save to database"
\* (council-observer.js:3): what was created on the chain is stored in the
\* end, at least when no call is rejected and the server never crashes.
CreationsStored ==
    \A id \in 1 .. MaxProposals :
        (\E i \in DOMAIN log : /\ log[i].topic = "ProposalCreated"
                               /\ log[i].id = id /\ Mined(log[i]))
            ~> (id \in DOMAIN docs \/ crashes > 0 \/ errors > 0)
=============================================================================
