--------------------------- MODULE AccountIndexer ---------------------------
(***************************************************************************)
(* The account pipeline of the indexing server.  An observer per RToken    *)
(* (token-observer.js, made by token-manager.js) polls the events of its   *)
(* contract and names the accounts they touch; the worker                  *)
(* (retrieval-worker.js) reads each named account from the chain, one at a *)
(* time; the repository (repository.js) writes what was read into a store  *)
(* that survives a crash.  service.js joins them.                          *)
(*                                                                         *)
(* What is read of an account is represented by the block it was read at:  *)
(* balances, debts and liquidity change with interest in every block.      *)
(***************************************************************************)
EXTENDS Naturals, FiniteSets, Sequences

CONSTANTS
    Tokens,      \* RToken markets
    Accounts,    \* users
    Own,         \* stands for the address of a token's own contract
    Events,      \* events a token may emit
    MaxBlock, MaxFaults   \* bounds of the model

OnePartyTopics == {"Mint", "Redeem", "Borrow"}
TwoPartyTopics == {"RepayBorrow", "LiquidateBorrow", "Transfer"}
OtherTopics == {"AccrueInterest", "Approval"}
Event == [topic : OnePartyTopics \cup TwoPartyTopics \cup OtherTopics,
          party : Accounts \cup {Own}, other : Accounts \cup {Own}]

ASSUME AccountIndexerAssumption ==
    /\ Own \notin Accounts
    /\ Events \subseteq Event
    /\ MaxBlock \in Nat /\ MaxFaults \in Nat

Key == Tokens \X Accounts            \* symbol + ':' + account
ReadAt == 0 .. MaxBlock              \* 0: not answered yet
Retrieved == [key : Key, liquidity : ReadAt, balances : ReadAt]

VARIABLES
    block,           \* the last block mined
    log,             \* log[t]: the events of a token, each with its block
    \* the observers
    phase,           \* phase[t]: what the poll of the observer waits for
    lastCheckPoint,  \* in memory
    savedCheckPoint, \* <symbol>.checkpoint on disk
    target,          \* lastBlock.number of the poll under way
    subscribed,      \* the subscription to new events is up
    delivered,       \* events of the log delivered to it
    \* the worker
    queue, pendingKeys, isRetrieving,
    reading,         \* the retrieval under way: at most one
    \* the repository
    repoQueue, isProcessing,
    storing,         \* what processOne is writing: at most one
    docs,            \* accountStore: account -> document
    \* the faults
    crashes, errors

chain == <<block, log>>
checkpoints == <<lastCheckPoint, savedCheckPoint>>
subscription == <<subscribed, delivered>>
observers == <<phase, checkpoints, target, subscription>>
worker == <<queue, pendingKeys, isRetrieving, reading>>
repository == <<repoQueue, isProcessing, storing, docs>>
faults == <<crashes, errors>>
vars == <<chain, observers, worker, repository, faults>>

Phase == {"down", "idle", "latest", "events", "failed"}

\* A document has no field `balance`: processOne writes `collaterals` and
\* `borrows` (one value here, they are read by one call).
Doc == UNION {[liquidity : ReadAt, collaterals : [S -> ReadAt]] : S \in SUBSET Tokens}

TypeOK ==
    /\ block \in 0 .. MaxBlock
    /\ phase \in [Tokens -> Phase]
    /\ \A t \in Tokens : /\ savedCheckPoint[t] \in 0 .. block
                         /\ lastCheckPoint[t] \in 0 .. savedCheckPoint[t]
                         /\ target[t] \in 0 .. block
                         /\ delivered[t] \in 0 .. Len(log[t])
    /\ subscribed \in [Tokens -> BOOLEAN]
    /\ queue \in Seq(Key) /\ pendingKeys \subseteq Key
    /\ reading \subseteq Retrieved /\ Cardinality(reading) <= 1
    /\ reading # {} => isRetrieving
    /\ repoQueue \in Seq(Retrieved)
    /\ storing \subseteq Retrieved /\ Cardinality(storing) <= 1
    /\ isProcessing = (storing # {})
    /\ DOMAIN docs \subseteq Accounts /\ \A a \in DOMAIN docs : docs[a] \in Doc
    /\ crashes \in Nat /\ errors \in Nat /\ crashes + errors <= MaxFaults

NoDocs == [a \in {} |-> 0]
Everywhere(v) == [t \in Tokens |-> v]

\* The process is not running, and starts with empty queues.
Init ==
    /\ block = 0 /\ log = Everywhere(<<>>)
    /\ savedCheckPoint = Everywhere(0) /\ docs = NoDocs
    /\ crashes = 0 /\ errors = 0
    /\ phase = Everywhere("down")
    /\ lastCheckPoint = Everywhere(0) /\ target = Everywhere(0)
    /\ subscribed = Everywhere(FALSE) /\ delivered = Everywhere(0)
    /\ queue = <<>> /\ pendingKeys = {} /\ isRetrieving = FALSE /\ reading = {}
    /\ repoQueue = <<>> /\ isProcessing = FALSE /\ storing = {}

(***************************************************************************)
(* The chain.                                                              *)
(***************************************************************************)

\* External: a block is mined, in which a token emits an event, or none does.
Mine ==
    /\ block < MaxBlock
    /\ block' = block + 1
    /\ \/ UNCHANGED log
       \/ \E t \in Tokens, e \in Events :
              log' = [log EXCEPT ![t] = Append(@, [block |-> block + 1, event |-> e])]
    /\ UNCHANGED <<observers, worker, repository, faults>>

-----------------------------------------------------------------------------
(***************************************************************************)
(* The worker's queue.                                                     *)
(***************************************************************************)

Work == [queue |-> queue, pendingKeys |-> pendingKeys]

\* addTask: a key that was ever added is never added again.
AddTask(w, key) ==
    IF key \in w.pendingKeys THEN w
    ELSE [queue |-> Append(w.queue, key), pendingKeys |-> w.pendingKeys \cup {key}]

-----------------------------------------------------------------------------
(***************************************************************************)
(* The observers.                                                          *)
(***************************************************************************)

\* emitAccountChange: the change of an account, the token's own address left
\* out, is a task for the worker.
AccountChange(w, t, a) == IF a = Own THEN w ELSE AddTask(w, <<t, a>>)

\* Mutant: only the first account of an event is named.
ProcessEventFirst(w, t, e) ==
    IF e.topic \in OtherTopics THEN w ELSE AccountChange(w, t, e.party)

\* What an event makes of the worker's queue.
ProcessEvent(w, t, e) ==
    IF e.topic \in OnePartyTopics THEN AccountChange(w, t, e.party)
    ELSE IF e.topic \in TwoPartyTopics
         THEN AccountChange(AccountChange(w, t, e.party), t, e.other)
         ELSE w

\* processEvents: the loop over the events polled, of those of the log.
ProcessEvents(t, polled) ==
    LET work[n \in 0 .. Len(log[t])] ==
            IF n = 0 THEN Work
            ELSE IF n \in polled THEN ProcessEvent(work[n - 1], t, log[t][n].event)
                 ELSE work[n - 1]
    IN  work[Len(log[t])]

\* Every observer reads its checkpoint file.
InitializeObservers == lastCheckPoint' = savedCheckPoint

\* Every observer polls.
StartObservers == phase' = Everywhere("latest")

\* The process starts.  The timers of the worker and of the repository find
\* nothing to do yet.
Start ==
    /\ phase = Everywhere("down")
    /\ InitializeObservers
    /\ StartObservers
    /\ UNCHANGED <<chain, savedCheckPoint, target, subscription, worker, repository,
                   faults>>

\* web3.eth.getBlock('latest') answers.
ReceiveLatest(t) ==
    /\ phase[t] = "latest"
    /\ target' = [target EXCEPT ![t] = block]
    /\ phase' = [phase EXCEPT ![t] = "events"]
    /\ UNCHANGED <<chain, checkpoints, subscription, worker, repository, faults>>

\* getPastEvents answers: the events are processed, which only queues tasks,
\* and the checkpoint is saved before any of them is done.  The first poll
\* subscribes to the events from the checkpoint on, its own block included.
ReceiveEvents(t) ==
    LET polled == {i \in DOMAIN log[t] : /\ lastCheckPoint[t] + 1 <= log[t][i].block
                                         /\ log[t][i].block <= target[t]}
        work == ProcessEvents(t, polled)
    IN  /\ phase[t] = "events"
        /\ queue' = work.queue /\ pendingKeys' = work.pendingKeys
        /\ lastCheckPoint' = [lastCheckPoint EXCEPT ![t] = target[t]]
        /\ savedCheckPoint' = [savedCheckPoint EXCEPT ![t] = target[t]]
        /\ phase' = [phase EXCEPT ![t] = "idle"]
        /\ subscribed' = [subscribed EXCEPT ![t] = TRUE]
        /\ delivered' = IF subscribed[t] THEN delivered
                        ELSE [delivered EXCEPT ![t] =
                                  Cardinality({i \in DOMAIN log[t] : log[t][i].block < target[t]})]
        /\ UNCHANGED <<chain, target, isRetrieving, reading, repository, faults>>

\* One of the two calls of a poll is rejected: nothing catches it, isPolling
\* stays true, and a first poll never subscribes.
PollFails(t) ==
    /\ phase[t] \in {"latest", "events"} /\ crashes + errors < MaxFaults
    /\ phase' = [phase EXCEPT ![t] = "failed"]
    /\ errors' = errors + 1
    /\ UNCHANGED <<chain, checkpoints, target, subscription, worker, repository, crashes>>

\* An event is delivered: it starts a poll, unless one is under way.
Notify(t) ==
    /\ subscribed[t] /\ delivered[t] < Len(log[t])
    /\ delivered' = [delivered EXCEPT ![t] = @ + 1]
    /\ phase' = IF phase[t] = "idle" THEN [phase EXCEPT ![t] = "latest"] ELSE phase
    /\ UNCHANGED <<chain, checkpoints, target, subscribed, worker, repository, faults>>

-----------------------------------------------------------------------------
(***************************************************************************)
(* The worker.                                                             *)
(***************************************************************************)
Request(key) == [key |-> key, liquidity |-> 0, balances |-> 0]

\* The loop of retrieveAll: the next task, or the end.
TakeTask ==
    IF queue = <<>>
    THEN reading' = {} /\ isRetrieving' = FALSE /\ UNCHANGED queue
    ELSE reading' = {Request(Head(queue))} /\ isRetrieving' = TRUE /\ queue' = Tail(queue)

\* Mutant: a second run of retrieveAll is let in.
RetrieveAllTwice ==
    /\ queue # <<>>
    /\ reading' = reading \cup {Request(Head(queue))}
    /\ isRetrieving' = TRUE /\ queue' = Tail(queue)
    /\ UNCHANGED <<chain, observers, pendingKeys, repository, faults>>

\* The timer finds tasks.
RetrieveAll ==
    /\ queue # <<>> /\ ~isRetrieving
    /\ TakeTask
    /\ UNCHANGED <<chain, observers, pendingKeys, repository, faults>>

Answered(r) == r.liquidity # 0 /\ r.balances # 0

\* Mutant: isRetrieving is not reset after the last task.
AnswerStuck(r, field) ==
    LET read == [r EXCEPT ![field] = block]
    IN  /\ r[field] = 0 /\ block > 0
        /\ IF Answered(read)
           THEN /\ repoQueue' = Append(repoQueue, read)
                /\ IF queue = <<>>
                   THEN reading' = {} /\ UNCHANGED <<queue, isRetrieving>>
                   ELSE TakeTask
           ELSE /\ reading' = (reading \ {r}) \cup {read}
                /\ UNCHANGED <<queue, isRetrieving, repoQueue>>
        /\ UNCHANGED <<chain, observers, pendingKeys, isProcessing, storing, docs, faults>>

\* The controller's liquidity or the reporter's balances arrive, read at the
\* present block.  With the second of them AccountRetrieved is emitted, which
\* queues the result for the repository, and the loop goes on.
Answer(r, field) ==
    LET read == [r EXCEPT ![field] = block]
    IN  /\ r[field] = 0 /\ block > 0
        /\ IF Answered(read)
           THEN /\ repoQueue' = Append(repoQueue, read)
                /\ TakeTask
           ELSE /\ reading' = (reading \ {r}) \cup {read}
                /\ UNCHANGED <<queue, isRetrieving, repoQueue>>
        /\ UNCHANGED <<chain, observers, pendingKeys, isProcessing, storing, docs, faults>>

\* One of the two calls is rejected: retrieveAll ends and isRetrieving stays.
RetrievalFails ==
    /\ reading # {} /\ crashes + errors < MaxFaults
    /\ reading' = {}
    /\ errors' = errors + 1
    /\ UNCHANGED <<chain, observers, queue, pendingKeys, isRetrieving, repository, crashes>>

-----------------------------------------------------------------------------
(***************************************************************************)
(* The repository.                                                         *)
(***************************************************************************)
\* Mutant: the data queued last are written first.
TakeDataLast ==
    IF repoQueue = <<>>
    THEN storing' = {} /\ isProcessing' = FALSE /\ UNCHANGED repoQueue
    ELSE /\ storing' = {repoQueue[Len(repoQueue)]} /\ isProcessing' = TRUE
         /\ repoQueue' = SubSeq(repoQueue, 1, Len(repoQueue) - 1)

\* The loop of processAll: the next data, or the end.
TakeData ==
    IF repoQueue = <<>>
    THEN storing' = {} /\ isProcessing' = FALSE /\ UNCHANGED repoQueue
    ELSE storing' = {Head(repoQueue)} /\ isProcessing' = TRUE /\ repoQueue' = Tail(repoQueue)

\* The timer finds data.
ProcessAll ==
    /\ repoQueue # <<>> /\ ~isProcessing
    /\ TakeData
    /\ UNCHANGED <<chain, observers, worker, docs, faults>>

With(f, k, v) == [x \in DOMAIN f \cup {k} |-> IF x = k THEN v ELSE f[x]]

\* The document of the account after the update, or the one inserted.
Updated(data) ==
    LET t == data.key[1]
        a == data.key[2]
    IN  [liquidity |-> data.liquidity,
         collaterals |-> IF a \in DOMAIN docs
                         THEN With(docs[a].collaterals, t, data.balances)
                         ELSE [x \in {t} |-> data.balances]]

\* processOne counts the documents of the account and inserts or updates; no
\* one else writes to the store in between.  Then the loop goes on.
ProcessOne(data) ==
    /\ docs' = With(docs, data.key[2], Updated(data))
    /\ TakeData
    /\ UNCHANGED <<chain, observers, worker, faults>>

-----------------------------------------------------------------------------
(***************************************************************************)
(* The service: refreshing.                                                *)
(***************************************************************************)

\* `for (const symbol in item.balance)`: nothing for a field that is not there.
BalanceSymbols(doc) == IF "balance" \in DOMAIN doc THEN DOMAIN doc.balance ELSE {}

\* The timer has found the stale accounts, any of those stored, in any order:
\* a task for each of their symbols.
Refresh(stale) ==
    LET found == UNION {BalanceSymbols(docs[a]) \X {a} : a \in stale}
    IN  /\ stale # {}
        /\ \E keys \in [1 .. Cardinality(found) -> found] :
               LET work[n \in 0 .. Cardinality(found)] ==
                       IF n = 0 THEN Work ELSE AddTask(work[n - 1], keys[n])
               IN  /\ found = {keys[n] : n \in DOMAIN keys}
                   /\ queue' = work[Cardinality(found)].queue
                   /\ pendingKeys' = work[Cardinality(found)].pendingKeys
        /\ UNCHANGED <<chain, observers, isRetrieving, reading, repository, faults>>

\* External: the process dies, or leaves on an error of a subscription; what
\* it has in memory is gone.
Crash ==
    /\ phase # Everywhere("down") /\ crashes + errors < MaxFaults
    /\ phase' = Everywhere("down")
    /\ lastCheckPoint' = Everywhere(0) /\ target' = Everywhere(0)
    /\ subscribed' = Everywhere(FALSE) /\ delivered' = Everywhere(0)
    /\ queue' = <<>> /\ pendingKeys' = {} /\ isRetrieving' = FALSE /\ reading' = {}
    /\ repoQueue' = <<>> /\ isProcessing' = FALSE /\ storing' = {}
    /\ crashes' = crashes + 1
    /\ UNCHANGED <<chain, savedCheckPoint, docs, errors>>

-----------------------------------------------------------------------------
ObserverStep(t) == ReceiveLatest(t) \/ ReceiveEvents(t)
AnswerStep == \E r \in reading, field \in {"liquidity", "balances"} : Answer(r, field)
StoreStep == \E data \in storing : ProcessOne(data)

Next ==
    \/ Mine
    \/ Start \/ Crash
    \/ \E t \in Tokens : ObserverStep(t) \/ PollFails(t) \/ Notify(t)
    \/ RetrieveAll \/ AnswerStep \/ RetrievalFails
    \/ ProcessAll \/ StoreStep
    \/ \E stale \in SUBSET DOMAIN docs : Refresh(stale)

\* The process is started again, the node answers and delivers, the timers
\* fire and the store writes; nobody has to use a token.
Fairness ==
    /\ WF_vars(Start)
    /\ \A t \in Tokens : WF_vars(ObserverStep(t)) /\ WF_vars(Notify(t))
    /\ WF_vars(RetrieveAll) /\ WF_vars(AnswerStep)
    /\ WF_vars(ProcessAll) /\ WF_vars(StoreStep)

Spec == Init /\ [][Next]_vars /\ Fairness

-----------------------------------------------------------------------------
(***************************************************************************)
(* Properties.                                                             *)
(***************************************************************************)

\* The account an event of the log is about.
Concerns(entry, a) ==
    \/ entry.event.topic \notin OtherTopics /\ entry.event.party = a
    \/ entry.event.topic \in TwoPartyTopics /\ entry.event.other = a

Stored(t, a) == a \in DOMAIN docs /\ t \in DOMAIN docs[a].collaterals

InSeq(q, key) == \E i \in DOMAIN q : q[i].key = key

\* An account named by an event below the checkpoint is stored, or on its way
\* through one of the stages, unless a crash or a rejected call lost it: the
\* checkpoint is saved before anything is retrieved (token-observer.js:61),
\* and only the hand-over between the queues keeps the account.
NothingLost ==
    crashes = 0 /\ errors = 0 =>
        \A t \in Tokens, a \in Accounts :
            (\E i \in DOMAIN log[t] :
                 Concerns(log[t][i], a) /\ log[t][i].block <= savedCheckPoint[t])
            => \/ \E i \in DOMAIN queue : queue[i] = <<t, a>>
               \/ \E r \in reading \cup storing : r.key = <<t, a>>
               \/ InSeq(repoQueue, <<t, a>>)
               \/ Stored(t, a)

\* A document never goes back in time, crashes and the two separate reads of
\* a retrieval included: results are written in the order they were read,
\* because neither queue is worked on twice at a time
\* (retrieval-worker.js:33, repository.js:80).
DocsNeverRegress ==
    [][\A a \in DOMAIN docs :
          /\ a \in DOMAIN docs'
          /\ docs[a].liquidity <= docs'[a].liquidity
          /\ \A t \in DOMAIN docs[a].collaterals :
                 /\ t \in DOMAIN docs'[a].collaterals
                 /\ docs[a].collaterals[t] <= docs'[a].collaterals[t]]_docs

\* An account an observer has passed its checkpoint over is stored in the end,
\* unless a crash or a rejected call comes before (retrieval-worker.js:24).
PolledAreStored ==
    \A t \in Tokens, a \in Accounts :
        (\E i \in DOMAIN log[t] : Concerns(log[t][i], a) /\ log[t][i].block <= savedCheckPoint[t])
            ~> (Stored(t, a) \/ crashes > 0 \/ errors > 0)

\* "Subscribe account change events, re-calculate account liquidity [...] and
\* then write to db" (service.js:3): what is stored of an account is in the
\* end no older than a change of it that was polled.
ChangesWritten ==
    \A t \in Tokens, a \in Accounts, b \in 1 .. MaxBlock :
        (\E i \in DOMAIN log[t] :
             Concerns(log[t][i], a) /\ log[t][i].block = b /\ b <= savedCheckPoint[t])
            ~> (\/ Stored(t, a) /\ docs[a].collaterals[t] >= b
                \/ crashes > 0 \/ errors > 0)
=============================================================================
