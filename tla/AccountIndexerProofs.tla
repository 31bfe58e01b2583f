------------------------ MODULE AccountIndexerProofs ------------------------
(***************************************************************************)
(* The documents of accounts never go back in time, for any tokens,        *)
(* accounts and events, and any number of crashes and rejected calls.      *)
(* Until there is one of those, no account that an observer polled is lost *)
(* between the queues.                                                     *)
(***************************************************************************)
EXTENDS AccountIndexer, DataTheorems, SequenceTheorems

\* What a retrieval has read so far; 0 stands for a call not answered.
Reading(r) ==
    /\ r = [key |-> r.key, liquidity |-> r.liquidity, balances |-> r.balances]
    /\ r.liquidity \in 0 .. block /\ r.balances \in 0 .. block

Complete(r) == Reading(r) /\ Answered(r)

\* The answers of r, where there are any, are no older than those of x.
NotBefore(x, r) ==
    /\ r.liquidity # 0 => x.liquidity <= r.liquidity
    /\ r.balances # 0 => x.balances <= r.balances

Places == 1 .. Len(repoQueue)

\* The pipeline holds the results in the order they were read.
Ordered ==
    /\ block \in Nat
    /\ \E S : repoQueue \in Seq(S)
    /\ \A i \in Places : Complete(repoQueue[i])
    /\ \A i, j \in Places : i <= j => NotBefore(repoQueue[i], repoQueue[j])
    /\ \A d \in storing : Complete(d) /\ \A i \in Places : NotBefore(d, repoQueue[i])
    /\ \A r \in reading : /\ Reading(r)
                          /\ \A i \in Places : NotBefore(repoQueue[i], r)
                          /\ \A d \in storing : NotBefore(d, r)

\* What is stored under `liquidity` or `balances` is no newer than what is still
\* on its way to the store.
Settled(l, b) ==
    LET x == [liquidity |-> l, balances |-> b]
    IN  /\ l \in 0 .. block /\ b \in 0 .. block
        /\ \A i \in Places : NotBefore(x, repoQueue[i])
        /\ \A r \in storing \cup reading : NotBefore(x, r)

DocsSettled ==
    \A a \in DOMAIN docs :
        /\ Settled(docs[a].liquidity, 0)
        /\ \A t \in DOMAIN docs[a].collaterals : Settled(0, docs[a].collaterals[t])

OrderInv == Ordered /\ DocsSettled

NoRegress ==
    \A a \in DOMAIN docs :
        /\ a \in DOMAIN docs'
        /\ docs[a].liquidity <= docs'[a].liquidity
        /\ \A t \in DOMAIN docs[a].collaterals :
               /\ t \in DOMAIN docs'[a].collaterals
               /\ docs[a].collaterals[t] <= docs'[a].collaterals[t]

-----------------------------------------------------------------------------
\* Nothing is on its way, and nothing is stored, when the process starts first.
LEMMA InitOrder ==
    ASSUME Init
    PROVE  OrderInv
<1>1. repoQueue \in Seq({}) /\ Places = {} /\ block = 0 /\ storing = {} /\ reading = {}
      /\ DOMAIN docs = {}
    BY DEF Init, Places, NoDocs
<1>2. QED
    BY <1>1 DEF OrderInv, Ordered, DocsSettled

\* A step that touches neither the results nor the store keeps both.
LEMMA SameOrder ==
    ASSUME OrderInv, UNCHANGED <<block, reading, repoQueue, storing, docs>>
    PROVE  OrderInv' /\ NoRegress
<1>1. Places' = Places
    BY DEF Places
<1>2. OrderInv'
    BY <1>1 DEF OrderInv, Ordered, DocsSettled, Complete, Reading, NotBefore, Settled, Answered
<1>3. \A a \in DOMAIN docs : /\ docs[a].liquidity \in 0 .. block
                             /\ \A t \in DOMAIN docs[a].collaterals :
                                    docs[a].collaterals[t] \in 0 .. block
    BY DEF OrderInv, DocsSettled, Settled
<1>4. NoRegress
    BY <1>3 DEF NoRegress, OrderInv, Ordered
<1>5. QED
    BY <1>2, <1>4

\* A new block is later than all that was read.
LEMMA MineOrder ==
    ASSUME OrderInv, Mine
    PROVE  OrderInv' /\ NoRegress
<1>1. block \in Nat /\ block' = block + 1 /\ UNCHANGED <<reading, repoQueue, storing, docs>>
    BY DEF Mine, worker, repository, OrderInv, Ordered
<1>2. Places' = Places /\ \A x \in 0 .. block : x \in 0 .. block'
    BY <1>1 DEF Places
<1>3. OrderInv'
    BY <1>1, <1>2 DEF OrderInv, Ordered, DocsSettled, Complete, Reading, NotBefore, Settled, Answered
<1>4. \A a \in DOMAIN docs : /\ docs[a].liquidity \in 0 .. block
                             /\ \A t \in DOMAIN docs[a].collaterals :
                                    docs[a].collaterals[t] \in 0 .. block
    BY DEF OrderInv, DocsSettled, Settled
<1>5. NoRegress
    BY <1>1, <1>4 DEF NoRegress
<1>6. QED
    BY <1>3, <1>5

\* A crash loses what is on its way, and leaves the store alone.
LEMMA CrashOrder ==
    ASSUME OrderInv, Crash
    PROVE  OrderInv' /\ NoRegress
<1>1. /\ block \in Nat /\ UNCHANGED <<block, docs>>
      /\ repoQueue' = <<>> /\ reading' = {} /\ storing' = {}
    BY DEF Crash, chain, OrderInv, Ordered
<1>2. Places' = {} /\ repoQueue' \in Seq({})
    BY <1>1 DEF Places
<1>3. \A a \in DOMAIN docs : /\ docs[a].liquidity \in 0 .. block
                             /\ \A t \in DOMAIN docs[a].collaterals :
                                    docs[a].collaterals[t] \in 0 .. block
    BY DEF OrderInv, DocsSettled, Settled
<1>4. DocsSettled'
    BY <1>1, <1>2, <1>3 DEF DocsSettled, Settled
<1>5. Ordered'
    BY <1>1, <1>2 DEF Ordered
<1>6. NoRegress
    BY <1>1, <1>3 DEF NoRegress
<1>7. QED
    BY <1>4, <1>5, <1>6 DEF OrderInv

\* A step that drops retrievals under way, and may begin one.
LEMMA ReadingDropped ==
    ASSUME OrderInv, UNCHANGED <<block, repoQueue, storing, docs>>,
           \A r \in reading' : r \in reading \/ \E key : r = Request(key)
    PROVE  OrderInv' /\ NoRegress
<1>1. Places' = Places /\ block \in Nat
    BY DEF Places, OrderInv, Ordered
<1>2. ASSUME NEW r \in reading'
      PROVE  /\ Reading(r)
             /\ \A i \in Places : NotBefore(repoQueue[i], r)
             /\ \A d \in storing : NotBefore(d, r)
             /\ \A l, b : Settled(l, b) => NotBefore([liquidity |-> l, balances |-> b], r)
    <2>1. CASE r \in reading
        BY <2>1 DEF OrderInv, Ordered, Settled
    <2>2. CASE \E key : r = Request(key)
        BY <1>1, <2>2 DEF Request, Reading, NotBefore
    <2>3. QED
        BY <2>1, <2>2
<1>3. Ordered'
    BY <1>1, <1>2 DEF OrderInv, Ordered, Complete, Reading, NotBefore, Answered
<1>4. \A l, b : Settled(l, b) => Settled(l, b)'
    BY <1>1, <1>2 DEF Settled, NotBefore
<1>5. DocsSettled'
    BY <1>4 DEF OrderInv, DocsSettled
<1>6. \A a \in DOMAIN docs : /\ docs[a].liquidity \in 0 .. block
                             /\ \A t \in DOMAIN docs[a].collaterals :
                                    docs[a].collaterals[t] \in 0 .. block
    BY DEF OrderInv, DocsSettled, Settled
<1>7. NoRegress
    BY <1>1, <1>6 DEF NoRegress
<1>8. QED
    BY <1>3, <1>5, <1>7 DEF OrderInv

\* What a document holds does not change: no regress.
LEMMA SameDocs ==
    ASSUME OrderInv, UNCHANGED docs
    PROVE  NoRegress
<1>1. \A a \in DOMAIN docs : /\ docs[a].liquidity \in 0 .. block
                             /\ \A t \in DOMAIN docs[a].collaterals :
                                    docs[a].collaterals[t] \in 0 .. block
    BY DEF OrderInv, DocsSettled, Settled
<1>2. QED
    BY <1>1 DEF NoRegress, OrderInv, Ordered

\* What arrives is read at the present block: nothing was read later.
LEMMA ReadLast ==
    ASSUME block \in Nat, NEW r, Reading(r), NEW field \in {"liquidity", "balances"}
    PROVE  LET read == [r EXCEPT ![field] = block]
           IN  /\ Reading(read)
               /\ \A x : x.liquidity \in 0 .. block /\ x.balances \in 0 .. block /\ NotBefore(x, r)
                             => NotBefore(x, read)
<1> DEFINE read == [r EXCEPT ![field] = block]
<1>0. PICK k, l, b : r = [key |-> k, liquidity |-> l, balances |-> b]
    BY DEF Reading
<1>1. CASE field = "liquidity"
    <2>1. read = [key |-> r.key, liquidity |-> block, balances |-> r.balances]
        BY <1>0, <1>1
    <2>2. read.key = r.key /\ read.liquidity = block /\ read.balances = r.balances
        BY <2>1
    <2>3. QED
        BY <2>1, <2>2 DEF Reading, NotBefore
<1>2. CASE field = "balances"
    <2>1. read = [key |-> r.key, liquidity |-> r.liquidity, balances |-> block]
        BY <1>0, <1>2
    <2>2. read.key = r.key /\ read.liquidity = r.liquidity /\ read.balances = block
        BY <2>1
    <2>3. QED
        BY <2>1, <2>2 DEF Reading, NotBefore
<1>3. QED
    BY <1>1, <1>2

\* A value that is settled is one a result can be compared with.
LEMMA SettledBefore ==
    ASSUME NEW l, NEW b, Settled(l, b)
    PROVE  LET x == [liquidity |-> l, balances |-> b]
           IN  /\ x.liquidity \in 0 .. block /\ x.balances \in 0 .. block
               /\ \A r \in reading : NotBefore(x, r)
BY DEF Settled

\* An answer completes a result, which goes last, or is the first of two.
LEMMA AnswerOrder ==
    ASSUME OrderInv, NEW r \in reading, NEW field \in {"liquidity", "balances"}, Answer(r, field)
    PROVE  OrderInv' /\ NoRegress
<1> DEFINE read == [r EXCEPT ![field] = block]
<1>1. /\ block \in Nat /\ UNCHANGED <<block, storing, docs>>
      /\ Reading(r)
    BY DEF Answer, chain, OrderInv, Ordered
<1>2. /\ Reading(read)
      /\ \A x : x.liquidity \in 0 .. block /\ x.balances \in 0 .. block /\ NotBefore(x, r)
                    => NotBefore(x, read)
    BY <1>1, ReadLast
<1>3. /\ \A i \in Places : NotBefore(repoQueue[i], read)
      /\ \A d \in storing : NotBefore(d, read)
    BY <1>2 DEF OrderInv, Ordered, Complete, Reading
<1>4. \A l, b : Settled(l, b) => NotBefore([liquidity |-> l, balances |-> b], read)
    <2>1. SUFFICES ASSUME NEW l, NEW b, Settled(l, b)
                   PROVE  NotBefore([liquidity |-> l, balances |-> b], read)
        OBVIOUS
    <2>2. QED
        BY <2>1, <1>2, SettledBefore
<1>5. NoRegress
    BY <1>1, SameDocs
<1>6. CASE Answered(read)
    <2>1. repoQueue' = Append(repoQueue, read) /\ TakeTask
        BY <1>6 DEF Answer
    <2>2. \A x \in reading' : \E key : x = Request(key)
        BY <2>1 DEF TakeTask
    <2>3. PICK S : repoQueue \in Seq(S)
        BY DEF OrderInv, Ordered
    <2>4. /\ repoQueue \in Seq(S \cup {read}) /\ repoQueue' \in Seq(S \cup {read})
          /\ Len(repoQueue) \in Nat /\ Len(repoQueue') = Len(repoQueue) + 1
          /\ \A i \in Places : repoQueue'[i] = repoQueue[i]
          /\ repoQueue'[Len(repoQueue) + 1] = read
        <3>1. repoQueue \in Seq(S \cup {read})
            BY <2>3
        <3>2. QED
            BY <2>1, <3>1 DEF Places
    <2>5. Places' = Places \cup {Len(repoQueue) + 1} /\ Places \subseteq Nat
          /\ \A i \in Places : i <= Len(repoQueue)
        BY <2>4 DEF Places
    <2>6. \A x, y : NotBefore(x, y)' <=> NotBefore(x, y)
        BY DEF NotBefore
    <2>7. \A x : Complete(x)' <=> Complete(x)
        BY <1>1 DEF Complete, Reading, Answered
    <2>8. NotBefore(read, read) /\ Complete(read)
        BY <1>1, <1>2, <1>6 DEF NotBefore, Reading, Complete
    <2>9. /\ \A i \in Places' : Complete(repoQueue'[i])
          /\ \A d \in storing' : Complete(d) /\ \A i \in Places' : NotBefore(d, repoQueue'[i])
        BY <1>1, <1>3, <2>4, <2>5, <2>8 DEF OrderInv, Ordered
    <2>10. \A i, j \in Places' : i <= j => NotBefore(repoQueue'[i], repoQueue'[j])
        <3>1. SUFFICES ASSUME NEW i \in Places', NEW j \in Places', i <= j
                       PROVE  NotBefore(repoQueue'[i], repoQueue'[j])
            OBVIOUS
        <3>2. CASE j \in Places
            <4>1. i \in Places
                BY <2>4, <2>5, <3>1, <3>2
            <4>2. QED
                BY <2>4, <3>1, <3>2, <4>1 DEF OrderInv, Ordered
        <3>3. CASE j = Len(repoQueue) + 1
            BY <1>3, <2>4, <2>5, <2>8, <3>3
        <3>4. QED
            BY <2>5, <3>2, <3>3
    <2>11. \A x \in reading' : /\ Reading(x)'
                               /\ \A i \in Places' : NotBefore(repoQueue'[i], x)
                               /\ \A d \in storing' : NotBefore(d, x)
        BY <1>1, <2>2 DEF Request, Reading, NotBefore
    <2>12. Ordered'
        BY <1>1, <2>4, <2>6, <2>7, <2>9, <2>10, <2>11 DEF Ordered
    <2>13. \A l, b : Settled(l, b) => Settled(l, b)'
        <3>1. SUFFICES ASSUME NEW l, NEW b, Settled(l, b) PROVE Settled(l, b)'
            OBVIOUS
        <3> DEFINE x == [liquidity |-> l, balances |-> b]
        <3>2. \A i \in Places' : NotBefore(x, repoQueue'[i])
            BY <1>4, <2>4, <2>5, <3>1 DEF Settled
        <3>3. \A y \in storing' \cup reading' : NotBefore(x, y)
            BY <1>1, <2>2, <3>1 DEF Settled, Request, NotBefore
        <3>4. QED
            BY <1>1, <2>6, <3>1, <3>2, <3>3 DEF Settled
    <2>14. DocsSettled'
        BY <1>1, <2>13 DEF OrderInv, DocsSettled
    <2>15. QED
        BY <1>5, <2>12, <2>14 DEF OrderInv
<1>7. CASE ~Answered(read)
    <2>1. UNCHANGED repoQueue /\ \A x \in reading' : x \in reading \/ x = read
        BY <1>7 DEF Answer
    <2>2. Places' = Places
        BY <2>1 DEF Places
    <2>3. Ordered'
        BY <1>1, <1>2, <1>3, <2>1, <2>2 DEF OrderInv, Ordered, Complete, Reading, NotBefore, Answered
    <2>4. \A l, b : Settled(l, b) => Settled(l, b)'
        BY <1>1, <1>4, <2>1, <2>2 DEF Settled, NotBefore
    <2>5. DocsSettled'
        BY <1>1, <2>4 DEF OrderInv, DocsSettled
    <2>6. QED
        BY <1>5, <2>3, <2>5 DEF OrderInv
<1>8. QED
    BY <1>6, <1>7

\* What processAll takes is what was read first of what is queued.
LEMMA TakeDataOrder ==
    ASSUME Ordered, TakeData, UNCHANGED <<block, reading>>
    PROVE  /\ Ordered'
           /\ \A i \in Places' : \E j \in Places : repoQueue'[i] = repoQueue[j]
           /\ \A d \in storing' : \E j \in Places : d = repoQueue[j]
<1>1. PICK S : repoQueue \in Seq(S)
    BY DEF Ordered
<1>2. CASE repoQueue = <<>>
    <2>1. storing' = {} /\ UNCHANGED repoQueue /\ Places' = Places
        BY <1>2 DEF TakeData, Places
    <2>2. Ordered'
        BY <2>1 DEF Ordered, Complete, Reading, NotBefore, Answered
    <2>3. QED
        BY <2>1, <2>2
<1>3. CASE repoQueue # <<>>
    <2>1. storing' = {Head(repoQueue)} /\ repoQueue' = Tail(repoQueue)
        BY <1>3 DEF TakeData
    <2>2. /\ Len(repoQueue) \in Nat \ {0} /\ Head(repoQueue) = repoQueue[1]
          /\ repoQueue' \in Seq(S) /\ Len(repoQueue') = Len(repoQueue) - 1
          /\ \A i \in 1 .. Len(repoQueue') : repoQueue'[i] = repoQueue[i + 1]
        BY <1>1, <1>3, <2>1
    <2>3. /\ 1 \in Places /\ \A i \in Places' : i + 1 \in Places /\ 1 <= i + 1 /\ i \in Nat
          /\ \A i \in Places' : repoQueue'[i] = repoQueue[i + 1]
          /\ \A d \in storing' : d = repoQueue[1]
        BY <2>1, <2>2 DEF Places
    <2>4. \A x, y : NotBefore(x, y)' <=> NotBefore(x, y)
        BY DEF NotBefore
    <2>5. \A x : /\ Complete(x)' <=> Complete(x)
                 /\ Reading(x)' <=> Reading(x)
        BY DEF Complete, Reading, Answered
    <2>6. \A i, j \in Places' : i <= j => NotBefore(repoQueue'[i], repoQueue'[j])
        BY <2>3 DEF Ordered
    <2>7. \A i \in Places' : Complete(repoQueue'[i])
        BY <2>3 DEF Ordered
    <2>8. \A d \in storing' : Complete(d) /\ \A i \in Places' : NotBefore(d, repoQueue'[i])
        BY <2>3 DEF Ordered
    <2>9. \A r \in reading' : /\ Reading(r)
                              /\ \A i \in Places' : NotBefore(repoQueue'[i], r)
                              /\ \A d \in storing' : NotBefore(d, r)
        BY <2>3 DEF Ordered
    <2>10. Ordered'
        BY <2>2, <2>4, <2>5, <2>6, <2>7, <2>8, <2>9 DEF Ordered
    <2>11. QED
        BY <2>3, <2>10
<1>4. QED
    BY <1>2, <1>3

\* What is settled stays settled when the queue moves on.
LEMMA TakeDataSettled ==
    ASSUME Ordered, TakeData, UNCHANGED <<block, reading>>, NEW l, NEW b,
           l \in 0 .. block, b \in 0 .. block,
           \A i \in Places : NotBefore([liquidity |-> l, balances |-> b], repoQueue[i]),
           \A r \in reading : NotBefore([liquidity |-> l, balances |-> b], r)
    PROVE  Settled(l, b)'
<1>1. \A x, y : NotBefore(x, y)' <=> NotBefore(x, y)
    BY DEF NotBefore
<1>2. /\ \A i \in Places' : \E j \in Places : repoQueue'[i] = repoQueue[j]
      /\ \A d \in storing' : \E j \in Places : d = repoQueue[j]
    BY TakeDataOrder
<1>3. QED
    BY <1>1, <1>2 DEF Settled

\* The timer of the repository begins with what was read first.
LEMMA ProcessAllOrder ==
    ASSUME OrderInv, ProcessAll
    PROVE  OrderInv' /\ NoRegress
<1>1. Ordered /\ TakeData /\ UNCHANGED <<block, reading, docs>>
    BY DEF ProcessAll, OrderInv, chain, worker
<1>2. Ordered'
    BY <1>1, TakeDataOrder
<1>3. \A l, b : Settled(l, b) => Settled(l, b)'
    <2>1. SUFFICES ASSUME NEW l, NEW b, Settled(l, b) PROVE Settled(l, b)'
        OBVIOUS
    <2>2. /\ l \in 0 .. block /\ b \in 0 .. block
          /\ \A i \in Places : NotBefore([liquidity |-> l, balances |-> b], repoQueue[i])
          /\ \A r \in reading : NotBefore([liquidity |-> l, balances |-> b], r)
        BY <2>1 DEF Settled
    <2>3. QED
        BY <1>1, <2>2, TakeDataSettled
<1>4. DocsSettled'
    BY <1>1, <1>3 DEF OrderInv, DocsSettled
<1>5. QED
    BY <1>1, <1>2, <1>4, SameDocs DEF OrderInv

\* What is written was read no later than the rest, and no earlier than what
\* it replaces.
LEMMA ProcessOneOrder ==
    ASSUME OrderInv, NEW data \in storing, ProcessOne(data)
    PROVE  OrderInv' /\ NoRegress
<1> DEFINE t == data.key[1]
           a == data.key[2]
<1>1. /\ Ordered /\ TakeData /\ UNCHANGED <<block, reading>>
      /\ docs' = With(docs, a, Updated(data))
    BY DEF ProcessOne, OrderInv, chain, worker
<1>2. Ordered'
    BY <1>1, TakeDataOrder
<1>3. /\ block \in Nat /\ Complete(data)
      /\ data.liquidity \in 0 .. block /\ data.balances \in 0 .. block
      /\ data.liquidity # 0 /\ data.balances # 0
      /\ \A i \in Places : NotBefore(data, repoQueue[i])
      /\ \A r \in reading : NotBefore(data, r)
    BY <1>1 DEF Ordered, Complete, Reading, Answered
<1>4. /\ DOMAIN docs' = DOMAIN docs \cup {a}
      /\ \A x \in DOMAIN docs : x # a => docs'[x] = docs[x]
      /\ docs'[a] = Updated(data)
    BY <1>1 DEF With
<1>5. /\ docs'[a].liquidity = data.liquidity
      /\ \A s \in DOMAIN docs'[a].collaterals :
             \/ docs'[a].collaterals[s] = data.balances
             \/ /\ a \in DOMAIN docs /\ s \in DOMAIN docs[a].collaterals
                /\ docs'[a].collaterals[s] = docs[a].collaterals[s]
    BY <1>4 DEF Updated, With
<1>6. a \in DOMAIN docs =>
          \A s \in DOMAIN docs[a].collaterals :
              /\ s \in DOMAIN docs'[a].collaterals
              /\ \/ s = t /\ docs'[a].collaterals[s] = data.balances
                 \/ docs'[a].collaterals[s] = docs[a].collaterals[s]
    BY <1>4 DEF Updated, With
<1>7. \A l, b : Settled(l, b) =>
                    /\ Settled(l, b)' /\ l \in 0 .. block /\ b \in 0 .. block
                    /\ l <= data.liquidity /\ b <= data.balances
    <2>1. SUFFICES ASSUME NEW l, NEW b, Settled(l, b)
                   PROVE  /\ Settled(l, b)' /\ l \in 0 .. block /\ b \in 0 .. block
                          /\ l <= data.liquidity /\ b <= data.balances
        OBVIOUS
    <2>2. /\ l \in 0 .. block /\ b \in 0 .. block
          /\ \A i \in Places : NotBefore([liquidity |-> l, balances |-> b], repoQueue[i])
          /\ \A r \in reading : NotBefore([liquidity |-> l, balances |-> b], r)
          /\ NotBefore([liquidity |-> l, balances |-> b], data)
        BY <2>1 DEF Settled
    <2>3. Settled(l, b)'
        BY <1>1, <2>2, TakeDataSettled
    <2>4. l <= data.liquidity /\ b <= data.balances
        BY <1>3, <2>2 DEF NotBefore
    <2>5. QED
        BY <2>2, <2>3, <2>4
<1> DEFINE L == [liquidity |-> data.liquidity, balances |-> 0]
           B == [liquidity |-> 0, balances |-> data.balances]
<1>N. \A y : /\ y.liquidity \in 0 .. block /\ y.balances \in 0 .. block /\ NotBefore(data, y)
              => NotBefore(L, y) /\ NotBefore(B, y)
    BY <1>1 DEF NotBefore
<1>R. /\ \A i \in Places : /\ repoQueue[i].liquidity \in 0 .. block
                            /\ repoQueue[i].balances \in 0 .. block
      /\ \A r \in reading : r.liquidity \in 0 .. block /\ r.balances \in 0 .. block
    BY <1>1 DEF Ordered, Complete, Reading
<1>8. Settled(data.liquidity, 0)'
    <2>1. /\ \A i \in Places : NotBefore([liquidity |-> data.liquidity, balances |-> 0], repoQueue[i])
          /\ \A r \in reading : NotBefore([liquidity |-> data.liquidity, balances |-> 0], r)
        BY <1>3, <1>N, <1>R
    <2>2. QED
        BY <1>1, <1>3, <2>1, TakeDataSettled
<1>9. Settled(0, data.balances)'
    <2>1. /\ \A i \in Places : NotBefore([liquidity |-> 0, balances |-> data.balances], repoQueue[i])
          /\ \A r \in reading : NotBefore([liquidity |-> 0, balances |-> data.balances], r)
        BY <1>3, <1>N, <1>R
    <2>2. QED
        BY <1>1, <1>3, <2>1, TakeDataSettled
<1>10. DocsSettled'
    <2>1. SUFFICES ASSUME NEW x \in DOMAIN docs'
                   PROVE  /\ Settled(docs[x].liquidity, 0)'
                          /\ \A s \in DOMAIN docs'[x].collaterals :
                                 Settled(0, docs[x].collaterals[s])'
        BY DEF DocsSettled
    <2>2. CASE x # a
        BY <1>4, <1>7, <2>1, <2>2 DEF OrderInv, DocsSettled
    <2>3. CASE x = a
        BY <1>5, <1>7, <1>8, <1>9, <2>3 DEF OrderInv, DocsSettled
    <2>4. QED
        BY <2>2, <2>3
<1>11. NoRegress
    <2>1. SUFFICES ASSUME NEW x \in DOMAIN docs
                   PROVE  /\ x \in DOMAIN docs'
                          /\ docs[x].liquidity <= docs'[x].liquidity
                          /\ \A s \in DOMAIN docs[x].collaterals :
                                 /\ s \in DOMAIN docs'[x].collaterals
                                 /\ docs[x].collaterals[s] <= docs'[x].collaterals[s]
        BY DEF NoRegress
    <2>2. /\ docs[x].liquidity \in 0 .. block /\ docs[x].liquidity <= data.liquidity
          /\ \A s \in DOMAIN docs[x].collaterals :
                 /\ docs[x].collaterals[s] \in 0 .. block
                 /\ docs[x].collaterals[s] <= data.balances
        BY <1>7, <2>1 DEF OrderInv, DocsSettled
    <2>3. CASE x # a
        BY <1>3, <1>4, <2>1, <2>2, <2>3
    <2>4. CASE x = a
        BY <1>3, <1>4, <1>5, <1>6, <2>1, <2>2, <2>4
    <2>5. QED
        BY <2>3, <2>4
<1>12. QED
    BY <1>2, <1>10, <1>11 DEF OrderInv

\* Every step keeps the order, and no document goes back.
LEMMA NextOrder ==
    ASSUME OrderInv, [Next]_vars
    PROVE  OrderInv' /\ NoRegress
<1>1. CASE Mine
    BY <1>1, MineOrder
<1>2. CASE Start
    BY <1>2, SameOrder DEF Start, chain, worker, repository
<1>3. CASE Crash
    BY <1>3, CrashOrder
<1>4. ASSUME NEW t \in Tokens, ReceiveLatest(t) PROVE OrderInv' /\ NoRegress
    BY <1>4, SameOrder DEF ReceiveLatest, chain, worker, repository
<1>5. ASSUME NEW t \in Tokens, ReceiveEvents(t) PROVE OrderInv' /\ NoRegress
    BY <1>5, SameOrder DEF ReceiveEvents, chain, repository
<1>6. ASSUME NEW t \in Tokens, PollFails(t) PROVE OrderInv' /\ NoRegress
    BY <1>6, SameOrder DEF PollFails, chain, worker, repository
<1>7. ASSUME NEW t \in Tokens, Notify(t) PROVE OrderInv' /\ NoRegress
    BY <1>7, SameOrder DEF Notify, chain, worker, repository
<1>8. CASE RetrieveAll
    <2>1. /\ UNCHANGED <<block, repoQueue, storing, docs>>
          /\ \A r \in reading' : \E key : r = Request(key)
        BY <1>8 DEF RetrieveAll, TakeTask, chain, repository
    <2>2. QED
        BY <2>1, ReadingDropped
<1>9. CASE AnswerStep
    BY <1>9, AnswerOrder DEF AnswerStep
<1>10. CASE RetrievalFails
    <2>1. UNCHANGED <<block, repoQueue, storing, docs>> /\ reading' = {}
        BY <1>10 DEF RetrievalFails, chain, repository
    <2>2. QED
        BY <2>1, ReadingDropped
<1>11. CASE ProcessAll
    BY <1>11, ProcessAllOrder
<1>12. CASE StoreStep
    BY <1>12, ProcessOneOrder DEF StoreStep
<1>13. ASSUME NEW stale \in SUBSET DOMAIN docs, Refresh(stale) PROVE OrderInv' /\ NoRegress
    BY <1>13, SameOrder DEF Refresh, chain, repository
<1>14. CASE UNCHANGED vars
    BY <1>14, SameOrder DEF vars, chain, worker, repository
<1>15. QED
    BY <1>1, <1>2, <1>3, <1>4, <1>5, <1>6, <1>7, <1>8, <1>9, <1>10, <1>11, <1>12, <1>13, <1>14
    DEF Next, ObserverStep

\* The pipeline of the indexing server holds its results in the order they
\* were read (retrieval-worker.js:33, repository.js:80).
THEOREM ResultsInOrder == Spec => []OrderInv
<1>1. Init => OrderInv
    BY InitOrder
<1>2. OrderInv /\ [Next]_vars => OrderInv'
    BY NextOrder
<1>3. QED
    BY <1>1, <1>2, PTL DEF Spec

\* A document never goes back in time.
THEOREM DocumentsNeverRegress == Spec => DocsNeverRegress
<1>1. OrderInv /\ [Next]_vars => [NoRegress]_docs
    BY NextOrder
<1>2. [][NoRegress]_docs <=> DocsNeverRegress
    BY DEF NoRegress, DocsNeverRegress
<1>3. QED
    BY <1>1, <1>2, ResultsInOrder, PTL DEF Spec
-----------------------------------------------------------------------------
(***************************************************************************)
(* The loops that add tasks.                                               *)
(***************************************************************************)
LogEntry == [block : Nat, event : Event]
Works == [queue : Seq(Key), pendingKeys : SUBSET Key]
InQueue(q, key) == \E i \in 1 .. Len(q) : q[i] = key

\* v is w with tasks for the keys added that w did not have.
Extends(w, v) ==
    /\ v \in Works
    /\ w.pendingKeys \subseteq v.pendingKeys
    /\ \A key : InQueue(w.queue, key) => InQueue(v.queue, key)
    /\ \A key \in v.pendingKeys \ w.pendingKeys : InQueue(v.queue, key)

LEMMA ExtendsTrans ==
    ASSUME NEW u, NEW v, NEW w, Extends(u, v), Extends(v, w)
    PROVE  Extends(u, w)
    BY DEF Extends

LEMMA TaskAdded ==
    ASSUME NEW w \in Works, NEW key \in Key
    PROVE  Extends(w, AddTask(w, key)) /\ key \in AddTask(w, key).pendingKeys
<1>1. w.queue \in Seq(Key) /\ w.pendingKeys \in SUBSET Key
    BY DEF Works
<1>2. CASE key \in w.pendingKeys
    BY <1>2 DEF AddTask, Extends
<1>3. CASE key \notin w.pendingKeys
    <2> DEFINE q == Append(w.queue, key)
               v == [queue |-> q, pendingKeys |-> w.pendingKeys \cup {key}]
    <2>1. /\ q \in Seq(Key) /\ Len(q) = Len(w.queue) + 1 /\ Len(w.queue) \in Nat
          /\ \A i \in 1 .. Len(w.queue) : q[i] = w.queue[i]
          /\ q[Len(w.queue) + 1] = key
        BY <1>1, AppendProperties, LenProperties
    <2> HIDE DEF q
    <2>2. InQueue(q, key)
        <3>1. Len(w.queue) + 1 \in 1 .. Len(q)
            BY <2>1
        <3>2. QED
            BY <2>1, <3>1 DEF InQueue
    <2>3. \A k : InQueue(w.queue, k) => InQueue(q, k)
        <3>1. \A i \in 1 .. Len(w.queue) : i \in 1 .. Len(q)
            BY <2>1
        <3>2. QED
            BY <2>1, <3>1 DEF InQueue
    <2>4. AddTask(w, key) = v
        BY <1>3 DEF AddTask, q
    <2>5. v \in Works /\ v.queue = q /\ v.pendingKeys = w.pendingKeys \cup {key}
        BY <1>1, <2>1 DEF Works
    <2> HIDE DEF v
    <2>6. QED
        BY <2>2, <2>3, <2>4, <2>5 DEF Extends
<1>4. QED
    BY <1>2, <1>3

\* The event of an account is a task, or was one before.
LEMMA EventTasks ==
    ASSUME NEW w \in Works, NEW t \in Tokens, NEW entry, entry.event \in Event
    PROVE  LET v == ProcessEvent(w, t, entry.event)
           IN  /\ Extends(w, v)
               /\ \A a \in Accounts : Concerns(entry, a) => <<t, a>> \in v.pendingKeys
<1> DEFINE e == entry.event
           v == ProcessEvent(w, t, e)
<1>1. /\ e.party \in Accounts \cup {Own} /\ e.other \in Accounts \cup {Own}
      /\ e.topic \in OnePartyTopics \cup TwoPartyTopics \cup OtherTopics
    BY DEF Event
<1>2. OnePartyTopics \cap TwoPartyTopics = {} /\ OnePartyTopics \cap OtherTopics = {}
      /\ TwoPartyTopics \cap OtherTopics = {}
    BY DEF OnePartyTopics, TwoPartyTopics, OtherTopics
<1>3. Own \notin Accounts
    BY AccountIndexerAssumption
<1>4. \A u \in Works : Extends(u, u)
    BY DEF Extends
<1>5. ASSUME NEW u \in Works, NEW x \in Accounts \cup {Own}
      PROVE  /\ Extends(u, AccountChange(u, t, x)) /\ AccountChange(u, t, x) \in Works
             /\ x # Own => <<t, x>> \in AccountChange(u, t, x).pendingKeys
    <2>1. CASE x = Own
        BY <1>4, <2>1 DEF AccountChange
    <2>2. CASE x # Own
        <3>1. <<t, x>> \in Key /\ AccountChange(u, t, x) = AddTask(u, <<t, x>>)
            BY <2>2 DEF Key, AccountChange
        <3>2. QED
            BY <3>1, TaskAdded DEF Extends
    <2>3. QED
        BY <2>1, <2>2
<1> HIDE DEF e
<1>6. CASE e.topic \in OnePartyTopics
    <2>1. v = AccountChange(w, t, e.party)
        BY <1>6 DEF ProcessEvent
    <2>2. \A a : Concerns(entry, a) => a = e.party
        BY <1>2, <1>6 DEF Concerns, e
    <2>3. Extends(w, v) /\ (e.party # Own => <<t, e.party>> \in v.pendingKeys)
        BY <1>1, <1>5, <2>1
    <2> HIDE DEF v
    <2>4. \A a \in Accounts : Concerns(entry, a) => <<t, a>> \in v.pendingKeys
        BY <1>3, <2>2, <2>3
    <2>5. QED
        BY <2>3, <2>4 DEF e, v
<1>7. CASE e.topic \in TwoPartyTopics
    <2> DEFINE u == AccountChange(w, t, e.party)
    <2>1. v = AccountChange(u, t, e.other)
        BY <1>2, <1>7 DEF ProcessEvent
    <2>2. \A a : Concerns(entry, a) => a = e.party \/ a = e.other
        BY DEF Concerns, e
    <2>3. u \in Works /\ Extends(w, u) /\ (e.party # Own => <<t, e.party>> \in u.pendingKeys)
        BY <1>1, <1>5
    <2> HIDE DEF u
    <2>4. Extends(u, v) /\ (e.other # Own => <<t, e.other>> \in v.pendingKeys)
        BY <1>1, <1>5, <2>1, <2>3
    <2> HIDE DEF v
    <2>5. Extends(w, v)
        BY <2>3, <2>4, ExtendsTrans
    <2>6. u.pendingKeys \subseteq v.pendingKeys
        BY <2>4 DEF Extends
    <2>7. \A a \in Accounts : Concerns(entry, a) => <<t, a>> \in v.pendingKeys
        BY <1>3, <2>2, <2>3, <2>4, <2>6
    <2>8. QED
        BY <2>5, <2>7 DEF e, v
<1>8. CASE e.topic \in OtherTopics
    <2>1. v = w /\ \A a : ~Concerns(entry, a)
        BY <1>2, <1>8 DEF ProcessEvent, Concerns, e
    <2>2. QED
        BY <1>4, <2>1 DEF e
<1>9. QED
    BY <1>1, <1>6, <1>7, <1>8

\* A loop over steps that add tasks adds what each of them adds.
LEMMA LoopExtends ==
    ASSUME NEW n \in Nat, NEW start \in Works, NEW round,
           \A i \in 1 .. n, w \in Works : Extends(w, round[i][w]),
           NEW run, Loop(n, round, start, run)
    PROVE  /\ \A i \in 0 .. n : run[i] \in Works /\ Extends(start, run[i])
           /\ Extends(start, run[n])
           /\ \A i \in 1 .. n : run[i - 1] \in Works /\ run[i] = round[i][run[i - 1]]
           /\ \A i \in 1 .. n : run[i].pendingKeys \subseteq run[n].pendingKeys
<1>1. run[0] = start /\ \A i \in 1 .. n : run[i] = round[i][run[i - 1]]
    BY DEF Loop
<1> DEFINE T == {i \in 0 .. n : run[i] \in Works /\ Extends(start, run[i])}
<1>2. 0 \in T
    BY <1>1 DEF Extends
<1>3. ASSUME NEW i \in 1 .. n, i - 1 \in T PROVE i \in T
    <2>1. Extends(run[i - 1], run[i]) /\ Extends(start, run[i - 1])
        BY <1>1, <1>3
    <2>2. Extends(start, run[i])
        BY <2>1, ExtendsTrans
    <2>3. i \in 0 .. n
        OBVIOUS
    <2>4. QED
        BY <2>2, <2>3 DEF Extends
<1> HIDE DEF T
<1>4. 0 .. n \subseteq T
    BY <1>2, <1>3, SetInduction
<1>5. \A i \in 0 .. n : run[i] \in Works /\ Extends(start, run[i])
    BY <1>4 DEF T
<1>6. \A i \in 1 .. n : i - 1 \in 0 .. n
    OBVIOUS
<1>7. ASSUME NEW i \in 1 .. n
      PROVE  run[i].pendingKeys \subseteq run[n].pendingKeys
    <2> DEFINE U == {j \in 0 .. n : i <= j => run[i].pendingKeys \subseteq run[j].pendingKeys}
    <2>1. 0 \in U
        OBVIOUS
    <2>2. ASSUME NEW j \in 1 .. n, j - 1 \in U PROVE j \in U
        <3>1. run[j - 1].pendingKeys \subseteq run[j].pendingKeys
            BY <1>1, <1>5, <1>6 DEF Extends
        <3>2. j \in 0 .. n
            OBVIOUS
        <3>3. i <= j => i = j \/ i <= j - 1
            OBVIOUS
        <3>4. QED
            BY <2>2, <3>1, <3>2, <3>3
    <2> HIDE DEF U
    <2>3. 0 .. n \subseteq U
        BY <2>1, <2>2, SetInduction
    <2>4. n \in 0 .. n /\ i <= n
        OBVIOUS
    <2>5. QED
        BY <2>3, <2>4 DEF U
<1>8. n \in 0 .. n
    OBVIOUS
<1>9. QED
    BY <1>1, <1>5, <1>6, <1>7, <1>8


\* The loop over the events of a poll.
EventLoop(t, polled, f) ==
    f = [n \in 0 .. Len(log[t]) |->
            IF n = 0 THEN Work
            ELSE IF n \in polled THEN ProcessEvent(f[n - 1], t, log[t][n].event)
                 ELSE f[n - 1]]

LEMMA EventLoopRuns ==
    ASSUME Work \in Works, NEW t \in Tokens, log[t] \in Seq(LogEntry), NEW polled
    PROVE  /\ EventLoop(t, polled, CHOOSE f : EventLoop(t, polled, f))
           /\ ProcessEvents(t, polled) = (CHOOSE f : EventLoop(t, polled, f))[Len(log[t])]
<1> DEFINE n == Len(log[t])
           Body(i, w) == IF i \in polled THEN ProcessEvent(w, t, log[t][i].event) ELSE w
           round == [i \in 1 .. n |-> [w \in Works |-> Body(i, w)]]
<1>1. n \in Nat /\ \A i \in 1 .. n : log[t][i].event \in Event
    <2>1. \A i \in 1 .. n : log[t][i] \in LogEntry
        BY ElementOfSeq
    <2>2. QED
        BY <2>1, LenProperties DEF LogEntry
<1>2. \A i \in 1 .. n, w \in Works : Body(i, w) \in Works
    <2>1. \A i \in 1 .. n, w \in Works : ProcessEvent(w, t, log[t][i].event) \in Works
        BY <1>1, EventTasks DEF Extends
    <2>2. QED
        BY <2>1
<1> HIDE DEF Body
<1>3. Rounds(n, Works, round)
    BY <1>2 DEF Rounds
<1> HIDE DEF n
<1> DEFINE start == Work
           r == round
<1>4. start \in Works /\ Rounds(n, Works, r)
    BY <1>3
<1> HIDE DEF r, start
<1>5. PICK run : run \in [0 .. n -> Works] /\ Loop(n, r, start, run)
    BY <1>1, <1>4, LoopRuns
<1>6. \A i \in 0 .. n : run[i] = IF i = 0 THEN Work ELSE Body(i, run[i - 1])
    <2>1. SUFFICES ASSUME NEW i \in 0 .. n PROVE run[i] = IF i = 0 THEN Work ELSE Body(i, run[i - 1])
        OBVIOUS
    <2>2. CASE i = 0
        BY <1>5, <2>2 DEF start, Loop
    <2>3. CASE i # 0
        <3>1. i \in 1 .. n /\ i - 1 \in 0 .. n
            BY <1>1, <2>3
        <3>2. run[i - 1] \in Works
            BY <1>5, <3>1
        <3>3. r[i] = [w \in Works |-> Body(i, w)]
            BY <3>1 DEF r
        <3>4. QED
            BY <1>5, <2>3, <3>1, <3>2, <3>3 DEF Loop
    <2>4. QED
        BY <2>2, <2>3
<1>7. run = [i \in 0 .. n |-> run[i]]
    BY <1>5
<1>8. run = [i \in 0 .. n |-> IF i = 0 THEN Work ELSE Body(i, run[i - 1])]
    BY <1>6, <1>7, Zenon
<1>9. EventLoop(t, polled, run)
    BY <1>8, Zenon DEF EventLoop, Body, n
<1>10. EventLoop(t, polled, CHOOSE f : EventLoop(t, polled, f))
    BY <1>9, Zenon
<1>11. ProcessEvents(t, polled) = (CHOOSE f : EventLoop(t, polled, f))[Len(log[t])]
    BY Zenon DEF ProcessEvents, EventLoop
<1>12. QED
    BY <1>10, <1>11

\* A poll makes tasks for the accounts of its events.
LEMMA PollTasks ==
    ASSUME Work \in Works, NEW t \in Tokens, log[t] \in Seq(LogEntry), NEW polled
    PROVE  /\ Extends(Work, ProcessEvents(t, polled))
           /\ \A i \in 1 .. Len(log[t]), a \in Accounts :
                  i \in polled /\ Concerns(log[t][i], a)
                      => <<t, a>> \in ProcessEvents(t, polled).pendingKeys
<1> DEFINE n == Len(log[t])
           run == CHOOSE f : EventLoop(t, polled, f)
           Body(i, w) == IF i \in polled THEN ProcessEvent(w, t, log[t][i].event) ELSE w
           start == Work
           round == [i \in 1 .. n |-> [w \in Works |-> Body(i, w)]]
<1>1. n \in Nat /\ \A i \in 1 .. n : log[t][i].event \in Event
    <2>1. \A i \in 1 .. n : log[t][i] \in LogEntry
        BY ElementOfSeq
    <2>2. QED
        BY <2>1, LenProperties DEF LogEntry
<1>2. EventLoop(t, polled, run) /\ ProcessEvents(t, polled) = run[n]
    BY EventLoopRuns
<1>3. \A i \in 0 .. n : run[i] = IF i = 0 THEN start ELSE Body(i, run[i - 1])
    <2> HIDE DEF run
    <2>1. run = [i \in 0 .. n |-> IF i = 0 THEN start ELSE Body(i, run[i - 1])]
        BY <1>2, Zenon DEF EventLoop
    <2>2. QED
        BY <2>1, Zenon
<1>4. \A i \in 1 .. n, w \in Works :
          /\ Extends(w, Body(i, w))
          /\ i \in polled => \A a \in Accounts : Concerns(log[t][i], a)
                                 => <<t, a>> \in Body(i, w).pendingKeys
    <2>1. SUFFICES ASSUME NEW i \in 1 .. n, NEW w \in Works
                   PROVE  /\ Extends(w, Body(i, w))
                          /\ i \in polled => \A a \in Accounts : Concerns(log[t][i], a)
                                                 => <<t, a>> \in Body(i, w).pendingKeys
        OBVIOUS
    <2>2. CASE i \in polled
        BY <1>1, <2>2, EventTasks
    <2>3. CASE i \notin polled
        BY <2>3 DEF Extends
    <2>4. QED
        BY <2>2, <2>3
<1> HIDE DEF Body, run
<1>5. \A i \in 1 .. n, w \in Works : round[i][w] = Body(i, w)
    OBVIOUS
<1> HIDE DEF round
<1>6. \A i \in 1 .. n, w \in Works : Extends(w, round[i][w])
    BY <1>4, <1>5
<1> DEFINE T == {i \in 0 .. n : run[i] \in Works}
<1>7. \A i \in 0 .. n : run[i] \in Works
    <2>1. 0 \in T
        BY <1>1, <1>3 DEF start
    <2>2. ASSUME NEW i \in 1 .. n, i - 1 \in T PROVE i \in T
        <3>1. run[i] = Body(i, run[i - 1]) /\ i \in 0 .. n
            BY <1>1, <1>3
        <3>2. QED
            BY <1>4, <2>2, <3>1 DEF Extends
    <2> HIDE DEF T, n
    <2>3. 0 .. n \subseteq T
        BY <1>1, <2>1, <2>2, SetInduction
    <2>4. QED
        BY <2>3 DEF T
<1>8. Loop(n, round, start, run)
    <2>1. \A i \in 1 .. n : i # 0 /\ i \in 0 .. n /\ i - 1 \in 0 .. n
        BY <1>1
    <2>2. \A i \in 1 .. n : run[i] = round[i][run[i - 1]]
        BY <1>3, <1>5, <1>7, <2>1
    <2>3. 0 \in 0 .. n
        BY <1>1
    <2>4. QED
        BY <1>3, <2>2, <2>3 DEF Loop
<1>9. /\ Extends(start, run[n])
      /\ \A i \in 1 .. n : run[i - 1] \in Works /\ run[i] = round[i][run[i - 1]]
      /\ \A i \in 1 .. n : run[i].pendingKeys \subseteq run[n].pendingKeys
    <2> HIDE DEF n, start
    <2>1. start \in Works
        BY DEF start
    <2>2. QED
        BY <1>1, <1>6, <1>8, <2>1, LoopExtends
<1>10. ASSUME NEW i \in 1 .. n, NEW a \in Accounts, i \in polled, Concerns(log[t][i], a)
       PROVE  <<t, a>> \in run[n].pendingKeys
    <2>1. run[i] = Body(i, run[i - 1]) /\ run[i - 1] \in Works
        BY <1>5, <1>9
    <2>2. <<t, a>> \in run[i].pendingKeys
        BY <1>4, <1>10, <2>1
    <2>3. QED
        BY <1>9, <2>2
<1>11. QED
    BY <1>2, <1>9, <1>10 DEF start

-----------------------------------------------------------------------------
(***************************************************************************)
(* Nothing is lost between the queues.                                     *)
(***************************************************************************)
AtMostOne(S) == S = {} \/ \E x : S = {x}

ChainTypes ==
    /\ block \in 0 .. MaxBlock
    /\ DOMAIN log = Tokens
    /\ \A t \in Tokens : /\ log[t] \in Seq(LogEntry)
                         /\ \A i \in 1 .. Len(log[t]) : log[t][i].block <= block

\* An observer that runs knows the checkpoint that is on disk.
ObserverTypes ==
    /\ phase \in [Tokens -> Phase] /\ subscribed \in [Tokens -> BOOLEAN]
    /\ DOMAIN lastCheckPoint = Tokens /\ DOMAIN savedCheckPoint = Tokens
    /\ DOMAIN target = Tokens /\ DOMAIN delivered = Tokens
    /\ \A t \in Tokens :
           /\ savedCheckPoint[t] \in 0 .. block
           /\ lastCheckPoint[t] = IF phase[t] = "down" THEN 0 ELSE savedCheckPoint[t]
           /\ target[t] \in 0 .. block
           /\ delivered[t] \in 0 .. Len(log[t])

WorkerTypes ==
    /\ queue \in Seq(Key) /\ pendingKeys \in SUBSET Key
    /\ reading \in SUBSET Retrieved /\ AtMostOne(reading)
    /\ reading # {} => isRetrieving

StoreTypes ==
    /\ repoQueue \in Seq(Retrieved)
    /\ storing \in SUBSET Retrieved /\ AtMostOne(storing)
    /\ isProcessing = (storing # {})
    /\ DOMAIN docs \subseteq Accounts /\ \A a \in DOMAIN docs : docs[a] \in Doc

FaultTypes == crashes \in Nat /\ errors \in Nat /\ crashes + errors <= MaxFaults

Types == ChainTypes /\ ObserverTypes /\ WorkerTypes /\ StoreTypes /\ FaultTypes

\* A key with a task is in one of the stages, or stored.
OnItsWay(key) ==
    \/ InQueue(queue, key)
    \/ \E r \in reading \cup storing : r.key = key
    \/ \E i \in 1 .. Len(repoQueue) : repoQueue[i].key = key
    \/ Stored(key[1], key[2])

PolledPending ==
    \A t \in Tokens : \A i \in 1 .. Len(log[t]), a \in Accounts :
        Concerns(log[t][i], a) /\ log[t][i].block <= savedCheckPoint[t]
            => <<t, a>> \in pendingKeys

Delivered == PolledPending /\ \A key \in pendingKeys : OnItsWay(key)

FlowInv == Types /\ (crashes = 0 /\ errors = 0 => Delivered)
\* The parts of the invariant say what the type invariant says.
LEMMA TypesGiveTypeOK ==
    ASSUME Types
    PROVE  TypeOK
<1>1. \A S : AtMostOne(S) => Cardinality(S) <= 1
    <2>1. SUFFICES ASSUME NEW S, AtMostOne(S) PROVE Cardinality(S) <= 1
        OBVIOUS
    <2>2. CASE S = {}
        BY <2>2, FS_EmptySet
    <2>3. CASE \E x : S = {x}
        BY <2>3, FS_Singleton
    <2>4. QED
        BY <2>1, <2>2, <2>3 DEF AtMostOne
<1>2. Cardinality(reading) <= 1 /\ Cardinality(storing) <= 1
    BY <1>1 DEF Types, WorkerTypes, StoreTypes
<1>3. \A t \in Tokens : lastCheckPoint[t] \in 0 .. savedCheckPoint[t]
    <2>1. SUFFICES ASSUME NEW t \in Tokens PROVE lastCheckPoint[t] \in 0 .. savedCheckPoint[t]
        OBVIOUS
    <2>2. savedCheckPoint[t] \in 0 .. block /\ block \in 0 .. MaxBlock
        BY DEF Types, ObserverTypes, ChainTypes
    <2>3. lastCheckPoint[t] = 0 \/ lastCheckPoint[t] = savedCheckPoint[t]
        BY DEF Types, ObserverTypes
    <2>4. MaxBlock \in Nat
        BY AccountIndexerAssumption
    <2>5. QED
        BY <2>2, <2>3, <2>4
<1>4. QED
    BY <1>2, <1>3 DEF Types, ChainTypes, ObserverTypes, WorkerTypes, StoreTypes, FaultTypes,
                      TypeOK

LEMMA FlowInit ==
    ASSUME Init
    PROVE  FlowInv
<1>1. 0 \in 0 .. MaxBlock /\ MaxBlock \in Nat /\ MaxFaults \in Nat
    BY AccountIndexerAssumption
<1>2. ChainTypes
    BY <1>1 DEF Init, ChainTypes, Everywhere
<1>3. ObserverTypes
    BY DEF Init, ObserverTypes, Everywhere, Phase
<1>4. WorkerTypes
    BY DEF Init, WorkerTypes, AtMostOne
<1>5. StoreTypes
    <2>1. storing = {} /\ isProcessing = FALSE /\ repoQueue = <<>> /\ DOMAIN docs = {}
        BY DEF Init, NoDocs
    <2>2. isProcessing = (storing # {})
        BY <2>1
    <2>3. repoQueue \in Seq(Retrieved) /\ AtMostOne(storing)
        BY <2>1 DEF AtMostOne
    <2>4. QED
        BY <2>1, <2>2, <2>3 DEF StoreTypes
<1>6. FaultTypes
    BY <1>1 DEF Init, FaultTypes
<1>7. Delivered
    BY DEF Init, Delivered, PolledPending, Everywhere
<1>8. QED
    BY <1>2, <1>3, <1>4, <1>5, <1>6, <1>7 DEF FlowInv, Types

\* A step that leaves chain, checkpoints and pending keys alone delivers what
\* it leaves on its way.
LEMMA StillDelivered ==
    ASSUME Delivered, UNCHANGED <<log, savedCheckPoint, pendingKeys>>,
           \A key \in pendingKeys : OnItsWay(key) => OnItsWay(key)'
    PROVE  Delivered'
    BY DEF Delivered, PolledPending

\* The stages are left alone.
LEMMA SameStages ==
    ASSUME UNCHANGED <<queue, reading, storing, repoQueue, docs>>
    PROVE  \A key : OnItsWay(key) => OnItsWay(key)'
    BY DEF OnItsWay, Stored

LEMMA FlowMine ==
    ASSUME FlowInv, Mine
    PROVE  FlowInv'
<1>1. /\ block < MaxBlock /\ block' = block + 1
      /\ UNCHANGED <<phase, lastCheckPoint, savedCheckPoint, target, subscribed, delivered>>
      /\ UNCHANGED <<queue, pendingKeys, isRetrieving, reading>>
      /\ UNCHANGED <<repoQueue, isProcessing, storing, docs, crashes, errors>>
    BY DEF Mine, observers, checkpoints, subscription, worker, repository, faults
<1>2. Types /\ block \in Nat /\ block' \in 0 .. MaxBlock
    BY <1>1, AccountIndexerAssumption DEF FlowInv, Types, ChainTypes
<1>3. \A e \in Events : [block |-> block + 1, event |-> e] \in LogEntry
    BY <1>2, AccountIndexerAssumption DEF LogEntry
<1>4. DOMAIN log' = Tokens
    BY <1>2 DEF Mine, Types, ChainTypes
<1>5. ASSUME NEW t \in Tokens
      PROVE  /\ log'[t] \in Seq(LogEntry) /\ Len(log[t]) <= Len(log'[t])
             /\ \A i \in 1 .. Len(log'[t]) : log'[t][i].block <= block + 1
             /\ \A i \in 1 .. Len(log'[t]) :
                    \/ i \in 1 .. Len(log[t]) /\ log'[t][i] = log[t][i]
                    \/ log'[t][i].block = block + 1
    <2>1. /\ log[t] \in Seq(LogEntry) /\ Len(log[t]) \in Nat
          /\ \A i \in 1 .. Len(log[t]) : log[t][i].block <= block /\ log[t][i].block \in Nat
        <3>1. log[t] \in Seq(LogEntry)
            BY <1>2 DEF Types, ChainTypes
        <3>2. \A i \in 1 .. Len(log[t]) : log[t][i] \in LogEntry
            BY <3>1, ElementOfSeq
        <3>3. QED
            BY <1>2, <3>1, <3>2, LenProperties DEF Types, ChainTypes, LogEntry
    <2>2. CASE log'[t] = log[t]
        BY <1>2, <2>1, <2>2
    <2>3. CASE \E e \in Events : log'[t] = Append(log[t], [block |-> block + 1, event |-> e])
        <3>1. PICK x \in LogEntry : log'[t] = Append(log[t], x) /\ x.block = block + 1
            BY <1>3, <2>3
        <3>2. /\ log'[t] \in Seq(LogEntry) /\ Len(log'[t]) = Len(log[t]) + 1
              /\ \A i \in 1 .. Len(log[t]) : log'[t][i] = log[t][i]
              /\ log'[t][Len(log[t]) + 1] = x
            BY <2>1, <3>1, AppendProperties
        <3>3. \A i \in 1 .. Len(log[t]) + 1 : i \in 1 .. Len(log[t]) \/ i = Len(log[t]) + 1
            BY <2>1
        <3>4. \A i \in 1 .. Len(log[t]) : log[t][i].block <= block + 1
            BY <1>2, <2>1
        <3>5. block + 1 <= block + 1
            BY <1>2
        <3>6. Len(log[t]) <= Len(log[t]) + 1
            BY <2>1
        <3>7. QED
            BY <3>1, <3>2, <3>3, <3>4, <3>5, <3>6
    <2>4. log'[t] = log[t] \/ \E e \in Events : log'[t] = Append(log[t], [block |-> block + 1, event |-> e])
        BY <1>2 DEF Mine, Types, ChainTypes
    <2>5. QED
        BY <2>2, <2>3, <2>4
<1>6. ChainTypes'
    BY <1>1, <1>2, <1>4, <1>5 DEF ChainTypes
<1>7. ObserverTypes'
    <2>1. \A x \in 0 .. block : x \in 0 .. block'
        BY <1>1, <1>2
    <2>2. ASSUME NEW t \in Tokens PROVE delivered[t] \in 0 .. Len(log'[t])
        <3>1. delivered[t] \in 0 .. Len(log[t])
            BY <1>2 DEF Types, ObserverTypes
        <3>2. Len(log[t]) \in Nat /\ Len(log'[t]) \in Nat
            BY <1>2, <1>5, LenProperties DEF Types, ChainTypes
        <3>3. QED
            BY <1>5, <3>1, <3>2
    <2>3. QED
        BY <1>1, <1>2, <2>1, <2>2 DEF Types, ObserverTypes
<1>8. WorkerTypes' /\ StoreTypes' /\ FaultTypes'
    BY <1>1, <1>2 DEF Types, WorkerTypes, StoreTypes, FaultTypes
<1>9. ASSUME Delivered PROVE Delivered'
    <2>1. \A key : OnItsWay(key) => OnItsWay(key)'
        BY <1>1, SameStages
    <2>2. PolledPending'
        <3>1. SUFFICES ASSUME NEW t \in Tokens, NEW i \in 1 .. Len(log'[t]), NEW a \in Accounts,
                              Concerns(log'[t][i], a), log'[t][i].block <= savedCheckPoint[t]
                       PROVE  <<t, a>> \in pendingKeys
            BY <1>1 DEF PolledPending, Concerns
        <3>2. savedCheckPoint[t] \in 0 .. block
            BY <1>2 DEF Types, ObserverTypes
        <3>3. log'[t][i].block # block + 1
            BY <1>2, <3>1, <3>2
        <3>4. i \in 1 .. Len(log[t]) /\ log'[t][i] = log[t][i]
            BY <1>5, <3>3
        <3>5. QED
            BY <1>9, <3>1, <3>4 DEF Delivered, PolledPending
    <2>3. QED
        BY <1>1, <1>9, <2>1, <2>2 DEF Delivered
<1>10. QED
    BY <1>1, <1>6, <1>7, <1>8, <1>9 DEF FlowInv, Types

\* The observers' steps leave the stages of the pipeline alone.
LEMMA FlowObserver ==
    ASSUME FlowInv, ObserverTypes',
           UNCHANGED <<chain, savedCheckPoint, worker, repository, crashes>>,
           errors' = errors \/ (errors' = errors + 1 /\ crashes + errors < MaxFaults)
    PROVE  FlowInv'
<1>1. UNCHANGED <<block, log, queue, pendingKeys, isRetrieving, reading>>
      /\ UNCHANGED <<repoQueue, isProcessing, storing, docs>>
    BY DEF chain, worker, repository
<1>2. Types
    BY DEF FlowInv
<1>3. ChainTypes' /\ WorkerTypes' /\ StoreTypes'
    BY <1>1, <1>2 DEF Types, ChainTypes, WorkerTypes, StoreTypes
<1>4. FaultTypes'
    BY <1>2, AccountIndexerAssumption DEF Types, FaultTypes
<1>5. ASSUME crashes' = 0, errors' = 0 PROVE Delivered'
    <2>1. crashes = 0 /\ errors = 0
        BY <1>2, <1>5 DEF Types, FaultTypes
    <2>2. \A key : OnItsWay(key) => OnItsWay(key)'
        BY <1>1, SameStages
    <2>3. Delivered
        BY <2>1 DEF FlowInv
    <2>4. QED
        BY <1>1, <2>2, <2>3, StillDelivered
<1>6. QED
    BY <1>3, <1>4, <1>5 DEF FlowInv, Types

LEMMA FlowStart ==
    ASSUME FlowInv, Start
    PROVE  FlowInv'
<1>1. ObserverTypes'
    BY DEF Start, InitializeObservers, StartObservers, FlowInv, Types, ObserverTypes, ChainTypes,
           chain, subscription, Everywhere, Phase
<1>2. QED
    BY <1>1, FlowObserver DEF Start, faults

LEMMA FlowReceiveLatest ==
    ASSUME FlowInv, NEW t \in Tokens, ReceiveLatest(t)
    PROVE  FlowInv'
<1>1. block \in Nat
    BY AccountIndexerAssumption DEF FlowInv, Types, ChainTypes
<1>2. ObserverTypes'
    BY <1>1 DEF ReceiveLatest, FlowInv, Types, ObserverTypes, chain, checkpoints, subscription, Phase
<1>3. QED
    BY <1>2, FlowObserver DEF ReceiveLatest, faults, checkpoints

LEMMA FlowPollFails ==
    ASSUME FlowInv, NEW t \in Tokens, PollFails(t)
    PROVE  FlowInv'
<1>1. ObserverTypes'
    BY DEF PollFails, FlowInv, Types, ObserverTypes, chain, checkpoints, subscription, Phase
<1>2. QED
    BY <1>1, FlowObserver DEF PollFails, checkpoints

LEMMA FlowNotify ==
    ASSUME FlowInv, NEW t \in Tokens, Notify(t)
    PROVE  FlowInv'
<1>1. Len(log[t]) \in Nat
    BY LenProperties DEF FlowInv, Types, ChainTypes
<1>2. delivered' = [delivered EXCEPT ![t] = @ + 1] /\ delivered[t] < Len(log[t])
    BY DEF Notify
<1>3. delivered[t] + 1 \in 0 .. Len(log[t])
    BY <1>1, <1>2 DEF FlowInv, Types, ObserverTypes
<1>4. DOMAIN delivered' = Tokens /\ \A x \in Tokens : delivered'[x] \in 0 .. Len(log[x])
    BY <1>2, <1>3 DEF FlowInv, Types, ObserverTypes
<1>5. /\ phase' \in [Tokens -> Phase]
      /\ \A x \in Tokens : phase'[x] = "down" <=> phase[x] = "down"
    BY DEF Notify, FlowInv, Types, ObserverTypes, Phase
<1>6. ObserverTypes'
    BY <1>4, <1>5 DEF Notify, FlowInv, Types, ObserverTypes, chain, checkpoints
<1>7. QED
    BY <1>6, FlowObserver DEF Notify, checkpoints, faults

\* The keys added to the worker's queue are on their way.
LEMMA TasksAdded ==
    ASSUME FlowInv, NEW work, Extends(Work, work),
           queue' = work.queue, pendingKeys' = work.pendingKeys,
           UNCHANGED <<isRetrieving, reading, repository>>
    PROVE  /\ WorkerTypes' /\ StoreTypes'
           /\ pendingKeys \subseteq pendingKeys'
           /\ (\A key \in pendingKeys : OnItsWay(key)) => \A key \in pendingKeys' : OnItsWay(key)'
<1>1. UNCHANGED <<isRetrieving, reading, repoQueue, isProcessing, storing, docs>>
    BY DEF repository
<1>2. work.queue \in Seq(Key) /\ work.pendingKeys \in SUBSET Key
    BY DEF Extends, Works
<1>3. WorkerTypes' /\ StoreTypes'
    BY <1>1, <1>2 DEF FlowInv, Types, WorkerTypes, StoreTypes
<1>4. /\ pendingKeys \subseteq pendingKeys'
      /\ \A key : InQueue(queue, key) => InQueue(queue', key)
      /\ \A key \in pendingKeys' \ pendingKeys : InQueue(queue', key)
    BY DEF Extends, Work
<1>5. \A key : OnItsWay(key) => OnItsWay(key)'
    BY <1>1, <1>4 DEF OnItsWay, Stored, InQueue
<1>6. \A key : InQueue(queue', key) => OnItsWay(key)'
    BY DEF OnItsWay, InQueue
<1>7. QED
    BY <1>3, <1>4, <1>5, <1>6

LEMMA FlowReceiveEvents ==
    ASSUME FlowInv, NEW t \in Tokens, ReceiveEvents(t)
    PROVE  FlowInv'
<1> DEFINE polled == {i \in DOMAIN log[t] : /\ lastCheckPoint[t] + 1 <= log[t][i].block
                                            /\ log[t][i].block <= target[t]}
           work == ProcessEvents(t, polled)
           below == {i \in DOMAIN log[t] : log[t][i].block < target[t]}
<1>1. /\ phase[t] = "events"
      /\ queue' = work.queue /\ pendingKeys' = work.pendingKeys
      /\ lastCheckPoint' = [lastCheckPoint EXCEPT ![t] = target[t]]
      /\ savedCheckPoint' = [savedCheckPoint EXCEPT ![t] = target[t]]
      /\ phase' = [phase EXCEPT ![t] = "idle"]
      /\ subscribed' = [subscribed EXCEPT ![t] = TRUE]
      /\ delivered' = IF subscribed[t] THEN delivered
                      ELSE [delivered EXCEPT ![t] = Cardinality(below)]
      /\ UNCHANGED <<block, log, target, isRetrieving, reading, repository, crashes, errors>>
    BY DEF ReceiveEvents, chain, faults
<1>2. Types /\ (crashes = 0 /\ errors = 0 => Delivered)
    BY DEF FlowInv
<1>3. /\ log[t] \in Seq(LogEntry) /\ Len(log[t]) \in Nat /\ DOMAIN log[t] = 1 .. Len(log[t])
      /\ \A i \in 1 .. Len(log[t]) : log[t][i] \in LogEntry
    <2>1. log[t] \in Seq(LogEntry)
        BY <1>2 DEF Types, ChainTypes
    <2>2. QED
        BY <2>1, ElementOfSeq, LenProperties
<1>4. Cardinality(below) \in 0 .. Len(log[t])
    <2>1. IsFiniteSet(1 .. Len(log[t])) /\ Cardinality(1 .. Len(log[t])) = Len(log[t])
        BY <1>3, FS_Interval
    <2>2. below \subseteq 1 .. Len(log[t])
        BY <1>3
    <2> HIDE DEF below
    <2>3. IsFiniteSet(below) /\ Cardinality(below) <= Len(log[t])
        BY <2>1, <2>2, FS_Subset
    <2>4. Cardinality(below) \in Nat
        BY <2>3, FS_CardinalityType
    <2>5. QED
        BY <1>3, <2>3, <2>4
<1> HIDE DEF below
<1>5. Work \in Works
    BY <1>2 DEF Work, Works, Types, WorkerTypes
<1>6. /\ Extends(Work, work)
      /\ \A i \in 1 .. Len(log[t]), a \in Accounts :
             i \in polled /\ Concerns(log[t][i], a) => <<t, a>> \in work.pendingKeys
    BY <1>3, <1>5, PollTasks
<1> HIDE DEF work
<1>7. /\ WorkerTypes' /\ StoreTypes' /\ pendingKeys \subseteq pendingKeys'
      /\ (\A key \in pendingKeys : OnItsWay(key)) => \A key \in pendingKeys' : OnItsWay(key)'
    BY <1>1, <1>6, TasksAdded
<1>8. ChainTypes' /\ FaultTypes'
    BY <1>1, <1>2 DEF Types, ChainTypes, FaultTypes
<1>9. target[t] \in 0 .. block /\ savedCheckPoint[t] \in 0 .. block
      /\ lastCheckPoint[t] = savedCheckPoint[t]
    BY <1>1, <1>2 DEF Types, ObserverTypes
<1>10. ObserverTypes'
    <2>1. DOMAIN delivered' = Tokens /\ \A x \in Tokens : delivered'[x] \in 0 .. Len(log[x])
        BY <1>1, <1>2, <1>4 DEF Types, ObserverTypes
    <2>2. /\ phase' \in [Tokens -> Phase] /\ subscribed' \in [Tokens -> BOOLEAN]
          /\ \A x \in Tokens : phase'[x] = IF x = t THEN "idle" ELSE phase[x]
        BY <1>1, <1>2 DEF Types, ObserverTypes, Phase
    <2>3. QED
        BY <1>1, <1>2, <1>9, <2>1, <2>2 DEF Types, ObserverTypes
<1>11. ASSUME crashes = 0, errors = 0 PROVE PolledPending'
    <2>1. SUFFICES ASSUME NEW s \in Tokens, NEW i \in 1 .. Len(log[s]), NEW a \in Accounts,
                          Concerns(log[s][i], a), log[s][i].block <= savedCheckPoint'[s]
                   PROVE  <<s, a>> \in pendingKeys'
        BY <1>1 DEF PolledPending, Concerns
    <2>2. PolledPending
        BY <1>2, <1>11 DEF Delivered
    <2>3. CASE log[s][i].block <= savedCheckPoint[s]
        BY <1>7, <2>1, <2>2, <2>3 DEF PolledPending
    <2>4. CASE ~(log[s][i].block <= savedCheckPoint[s])
        <3>1. s = t
            BY <1>1, <1>2, <2>1, <2>4 DEF Types, ObserverTypes
        <3>2. log[t][i].block \in Nat /\ block \in Nat
            BY <1>2, <1>3, <2>1, <3>1, AccountIndexerAssumption DEF LogEntry, Types, ChainTypes
        <3>3. savedCheckPoint'[t] = target[t]
            BY <1>1, <1>2 DEF Types, ObserverTypes
        <3>4. i \in polled
            BY <1>3, <1>9, <2>1, <2>4, <3>1, <3>2, <3>3
        <3>5. QED
            BY <1>1, <1>6, <2>1, <3>1, <3>4
    <2>5. QED
        BY <2>3, <2>4
<1>12. QED
    BY <1>1, <1>2, <1>7, <1>8, <1>10, <1>11 DEF FlowInv, Types, Delivered

\* What the steps of the worker and of the repository leave alone.
LEMMA FlowPipeline ==
    ASSUME FlowInv, WorkerTypes', StoreTypes', FaultTypes',
           UNCHANGED <<chain, observers, pendingKeys>>,
           crashes' = 0 /\ errors' = 0 =>
               /\ crashes = 0 /\ errors = 0
               /\ \A key \in Key : OnItsWay(key) => OnItsWay(key)'
    PROVE  FlowInv'
<1>1. UNCHANGED <<block, log, phase, lastCheckPoint, savedCheckPoint, target, subscribed, delivered>>
    BY DEF chain, observers, checkpoints, subscription
<1>2. ChainTypes' /\ ObserverTypes'
    BY <1>1 DEF FlowInv, Types, ChainTypes, ObserverTypes
<1>3. ASSUME crashes' = 0, errors' = 0 PROVE Delivered'
    <2>1. Delivered /\ pendingKeys \subseteq Key
        BY <1>3 DEF FlowInv, Types, WorkerTypes
    <2>2. \A key \in Key : OnItsWay(key) => OnItsWay(key)'
        BY <1>3
    <2>3. \A key \in pendingKeys : OnItsWay(key) => OnItsWay(key)'
        BY <2>1, <2>2
    <2>4. QED
        BY <1>1, <2>1, <2>3, StillDelivered
<1>4. QED
    BY <1>2, <1>3 DEF FlowInv, Types

\* The task taken from the queue is the retrieval under way.
LEMMA TaskTaken ==
    ASSUME TakeTask, queue \in Seq(Key)
    PROVE  /\ queue' \in Seq(Key)
           /\ reading' \in SUBSET Retrieved /\ AtMostOne(reading')
           /\ reading' # {} => isRetrieving'
           /\ \A key : InQueue(queue, key) => \/ InQueue(queue', key)
                                             \/ \E r \in reading' : r.key = key
<1>1. CASE queue = <<>>
    <2>1. reading' = {} /\ queue' = queue
        BY <1>1 DEF TakeTask
    <2>2. QED
        BY <2>1 DEF AtMostOne, InQueue
<1>2. CASE queue # <<>>
    <2>1. reading' = {Request(Head(queue))} /\ isRetrieving' = TRUE /\ queue' = Tail(queue)
        BY <1>2 DEF TakeTask
    <2>2. Len(queue) \in Nat \ {0} /\ Head(queue) = queue[1] /\ Head(queue) \in Key
        BY <1>2
    <2>3. /\ Tail(queue) \in Seq(Key) /\ Len(Tail(queue)) = Len(queue) - 1
          /\ \A i \in 1 .. Len(queue) - 1 : Tail(queue)[i] = queue[i + 1]
        BY <1>2
    <2>4. Request(Head(queue)) \in Retrieved /\ Request(Head(queue)).key = queue[1]
        BY <2>2, AccountIndexerAssumption DEF Request, Retrieved, ReadAt
    <2>5. ASSUME NEW key, InQueue(queue, key)
          PROVE  InQueue(queue', key) \/ \E r \in reading' : r.key = key
        <3>1. PICK i \in 1 .. Len(queue) : queue[i] = key
            BY <2>5 DEF InQueue
        <3>2. CASE i = 1
            BY <2>1, <2>4, <3>1, <3>2
        <3>3. CASE i # 1
            <4>1. i - 1 \in 1 .. Len(queue) - 1 /\ (i - 1) + 1 = i
                BY <2>2, <3>3
            <4>2. queue'[i - 1] = key /\ i - 1 \in 1 .. Len(queue')
                BY <2>1, <2>3, <3>1, <4>1
            <4>3. QED
                BY <4>2 DEF InQueue
        <3>4. QED
            BY <3>2, <3>3
    <2>6. QED
        BY <2>1, <2>3, <2>4, <2>5 DEF AtMostOne
<1>3. QED
    BY <1>1, <1>2

LEMMA FlowRetrieveAll ==
    ASSUME FlowInv, RetrieveAll
    PROVE  FlowInv'
<1>1. /\ ~isRetrieving /\ TakeTask
      /\ UNCHANGED <<chain, observers, pendingKeys, repository, faults>>
      /\ UNCHANGED <<repoQueue, isProcessing, storing, docs, crashes, errors>>
    BY DEF RetrieveAll, repository, faults
<1>2. queue \in Seq(Key) /\ pendingKeys \in SUBSET Key /\ reading = {}
    BY <1>1 DEF FlowInv, Types, WorkerTypes
<1>3. /\ queue' \in Seq(Key)
      /\ reading' \in SUBSET Retrieved /\ AtMostOne(reading')
      /\ reading' # {} => isRetrieving'
      /\ \A key : InQueue(queue, key) => \/ InQueue(queue', key)
                                        \/ \E r \in reading' : r.key = key
    BY <1>1, <1>2, TaskTaken
<1>4. WorkerTypes'
    BY <1>1, <1>2, <1>3 DEF WorkerTypes
<1>5. StoreTypes' /\ FaultTypes'
    BY <1>1 DEF FlowInv, Types, StoreTypes, FaultTypes
<1>6. \A key : OnItsWay(key) => OnItsWay(key)'
    BY <1>1, <1>2, <1>3 DEF OnItsWay, Stored, InQueue
<1>7. QED
    BY <1>1, <1>4, <1>5, <1>6, FlowPipeline

LEMMA FlowAnswer ==
    ASSUME FlowInv, NEW r \in reading, NEW field \in {"liquidity", "balances"}, Answer(r, field)
    PROVE  FlowInv'
<1> DEFINE read == [r EXCEPT ![field] = block]
<1>1. UNCHANGED <<chain, observers, pendingKeys, isProcessing, storing, docs, crashes, errors>>
    BY DEF Answer, faults
<1>2. /\ queue \in Seq(Key) /\ pendingKeys \in SUBSET Key /\ repoQueue \in Seq(Retrieved)
      /\ r \in Retrieved /\ reading = {r} /\ isRetrieving /\ block \in ReadAt
    BY DEF FlowInv, Types, WorkerTypes, StoreTypes, ChainTypes, AtMostOne, ReadAt
<1>3. read \in Retrieved /\ read.key = r.key
    BY <1>2 DEF Retrieved
<1> HIDE DEF read
<1>4. FaultTypes'
    BY <1>1 DEF FlowInv, Types, FaultTypes
<1>5. CASE Answered(read)
    <2>1. repoQueue' = Append(repoQueue, read) /\ TakeTask
        BY <1>5 DEF Answer, read
    <2>2. /\ queue' \in Seq(Key)
          /\ reading' \in SUBSET Retrieved /\ AtMostOne(reading')
          /\ reading' # {} => isRetrieving'
          /\ \A key : InQueue(queue, key) => \/ InQueue(queue', key)
                                            \/ \E x \in reading' : x.key = key
        BY <1>2, <2>1, TaskTaken
    <2>3. WorkerTypes'
        BY <1>1, <1>2, <2>2 DEF WorkerTypes
    <2>4. /\ repoQueue' \in Seq(Retrieved)
          /\ Len(repoQueue) \in Nat /\ Len(repoQueue') = Len(repoQueue) + 1
          /\ \A i \in 1 .. Len(repoQueue) : repoQueue'[i] = repoQueue[i]
          /\ repoQueue'[Len(repoQueue) + 1] = read
        BY <1>2, <1>3, <2>1, AppendProperties, LenProperties
    <2>5. StoreTypes'
        BY <1>1, <2>4 DEF FlowInv, Types, StoreTypes
    <2>6. /\ \A i \in 1 .. Len(repoQueue) : i \in 1 .. Len(repoQueue')
          /\ Len(repoQueue) + 1 \in 1 .. Len(repoQueue')
        BY <2>4
    <2>7. \A key : OnItsWay(key) => OnItsWay(key)'
        <3>1. SUFFICES ASSUME NEW key, OnItsWay(key) PROVE OnItsWay(key)'
            OBVIOUS
        <3>2. CASE InQueue(queue, key)
            BY <2>2, <3>2 DEF OnItsWay, InQueue
        <3>3. CASE r.key = key
            BY <1>3, <2>4, <2>6, <3>3 DEF OnItsWay
        <3>4. CASE \E x \in storing : x.key = key
            BY <1>1, <3>4 DEF OnItsWay
        <3>5. CASE \E i \in 1 .. Len(repoQueue) : repoQueue[i].key = key
            <4>1. \E i \in 1 .. Len(repoQueue') : repoQueue'[i].key = key
                BY <2>4, <2>6, <3>5
            <4>2. QED
                BY <4>1 DEF OnItsWay
        <3>6. CASE Stored(key[1], key[2])
            BY <1>1, <3>6 DEF OnItsWay, Stored
        <3>7. QED
            BY <1>2, <3>1, <3>2, <3>3, <3>4, <3>5, <3>6 DEF OnItsWay
    <2>8. QED
        BY <1>1, <1>4, <2>3, <2>5, <2>7, FlowPipeline
<1>6. CASE ~Answered(read)
    <2>1. reading' = (reading \ {r}) \cup {read} /\ UNCHANGED <<queue, isRetrieving, repoQueue>>
        BY <1>6 DEF Answer, read
    <2>2. reading' = {read}
        BY <1>2, <2>1
    <2>3. WorkerTypes'
        BY <1>1, <1>2, <1>3, <2>1, <2>2 DEF WorkerTypes, AtMostOne
    <2>4. StoreTypes'
        BY <1>1, <2>1 DEF FlowInv, Types, StoreTypes
    <2>5. \A key : OnItsWay(key) => OnItsWay(key)'
        BY <1>1, <1>2, <1>3, <2>1, <2>2 DEF OnItsWay, Stored, InQueue
    <2>6. QED
        BY <1>1, <1>4, <2>3, <2>4, <2>5, FlowPipeline
<1>7. QED
    BY <1>5, <1>6

LEMMA FlowRetrievalFails ==
    ASSUME FlowInv, RetrievalFails
    PROVE  FlowInv'
<1>1. /\ crashes + errors < MaxFaults /\ reading' = {} /\ errors' = errors + 1
      /\ UNCHANGED <<chain, observers, pendingKeys, crashes>>
      /\ UNCHANGED <<queue, isRetrieving, repoQueue, isProcessing, storing, docs>>
    BY DEF RetrievalFails, repository
<1>2. WorkerTypes' /\ StoreTypes'
    BY <1>1 DEF FlowInv, Types, WorkerTypes, StoreTypes, AtMostOne
<1>3. crashes \in Nat /\ errors \in Nat /\ MaxFaults \in Nat
    BY AccountIndexerAssumption DEF FlowInv, Types, FaultTypes
<1>4. FaultTypes' /\ errors' # 0
    BY <1>1, <1>3 DEF FaultTypes
<1>5. QED
    BY <1>1, <1>2, <1>4, FlowPipeline

\* The data taken from the repository's queue are what is being stored.
LEMMA DataTaken ==
    ASSUME TakeData, repoQueue \in Seq(Retrieved)
    PROVE  /\ repoQueue' \in Seq(Retrieved)
           /\ storing' \in SUBSET Retrieved /\ AtMostOne(storing')
           /\ isProcessing' = (storing' # {})
           /\ \A key : (\E i \in 1 .. Len(repoQueue) : repoQueue[i].key = key)
                  => \/ \E i \in 1 .. Len(repoQueue') : repoQueue'[i].key = key
                     \/ \E r \in storing' : r.key = key
<1>1. CASE repoQueue = <<>>
    <2>1. storing' = {} /\ repoQueue' = repoQueue /\ isProcessing' = FALSE
        BY <1>1 DEF TakeData
    <2>2. isProcessing' = (storing' # {})
        BY <2>1
    <2>3. QED
        BY <2>1, <2>2 DEF AtMostOne
<1>2. CASE repoQueue # <<>>
    <2>1. storing' = {Head(repoQueue)} /\ isProcessing' = TRUE /\ repoQueue' = Tail(repoQueue)
        BY <1>2 DEF TakeData
    <2>2. Len(repoQueue) \in Nat \ {0} /\ Head(repoQueue) = repoQueue[1]
          /\ Head(repoQueue) \in Retrieved
        BY <1>2
    <2>3. /\ Tail(repoQueue) \in Seq(Retrieved) /\ Len(Tail(repoQueue)) = Len(repoQueue) - 1
          /\ \A i \in 1 .. Len(repoQueue) - 1 : Tail(repoQueue)[i] = repoQueue[i + 1]
        BY <1>2
    <2>4. isProcessing' = (storing' # {})
        BY <2>1
    <2>5. ASSUME NEW key, NEW i \in 1 .. Len(repoQueue), repoQueue[i].key = key
          PROVE  \/ \E j \in 1 .. Len(repoQueue') : repoQueue'[j].key = key
                 \/ \E r \in storing' : r.key = key
        <3>1. CASE i = 1
            BY <2>1, <2>2, <2>5, <3>1
        <3>2. CASE i # 1
            <4>1. i - 1 \in 1 .. Len(repoQueue) - 1 /\ (i - 1) + 1 = i
                BY <2>2, <3>2
            <4>2. repoQueue'[i - 1].key = key /\ i - 1 \in 1 .. Len(repoQueue')
                BY <2>1, <2>3, <2>5, <4>1
            <4>3. QED
                BY <4>2
        <3>3. QED
            BY <3>1, <3>2
    <2>6. QED
        BY <2>1, <2>2, <2>3, <2>4, <2>5 DEF AtMostOne
<1>3. QED
    BY <1>1, <1>2

LEMMA FlowProcessAll ==
    ASSUME FlowInv, ProcessAll
    PROVE  FlowInv'
<1>1. /\ ~isProcessing /\ TakeData
      /\ UNCHANGED <<chain, observers, docs, crashes, errors>>
      /\ UNCHANGED <<queue, pendingKeys, isRetrieving, reading>>
    BY DEF ProcessAll, worker, faults
<1>2. repoQueue \in Seq(Retrieved) /\ storing = {}
    BY <1>1 DEF FlowInv, Types, StoreTypes
<1>3. /\ repoQueue' \in Seq(Retrieved)
      /\ storing' \in SUBSET Retrieved /\ AtMostOne(storing')
      /\ isProcessing' = (storing' # {})
      /\ \A key : (\E i \in 1 .. Len(repoQueue) : repoQueue[i].key = key)
             => \/ \E i \in 1 .. Len(repoQueue') : repoQueue'[i].key = key
                \/ \E r \in storing' : r.key = key
    BY <1>1, <1>2, DataTaken
<1>4. WorkerTypes' /\ FaultTypes'
    BY <1>1 DEF FlowInv, Types, WorkerTypes, FaultTypes
<1>5. StoreTypes'
    BY <1>1, <1>3 DEF FlowInv, Types, StoreTypes
<1>6. \A key : OnItsWay(key) => OnItsWay(key)'
    BY <1>1, <1>2, <1>3 DEF OnItsWay, Stored, InQueue
<1>7. QED
    BY <1>1, <1>4, <1>5, <1>6, FlowPipeline

\* A document has the two fields that processOne writes.
LEMMA DocFields ==
    ASSUME NEW d \in Doc
    PROVE  /\ DOMAIN d = {"liquidity", "collaterals"} /\ d.liquidity \in ReadAt
           /\ \E S \in SUBSET Tokens : d.collaterals \in [S -> ReadAt]
<1>1. PICK S \in SUBSET Tokens : d \in [liquidity : ReadAt, collaterals : [S -> ReadAt]]
    BY DEF Doc
<1>2. QED
    BY <1>1

\* What is written is a document of the account, and stores its token.
LEMMA DocWritten ==
    ASSUME StoreTypes, NEW data \in Retrieved
    PROVE  LET next == With(docs, data.key[2], Updated(data))
           IN  /\ DOMAIN next \subseteq Accounts /\ \A a \in DOMAIN next : next[a] \in Doc
               /\ data.key \in Key /\ data.key = <<data.key[1], data.key[2]>>
               /\ data.key[2] \in DOMAIN next
               /\ data.key[1] \in DOMAIN next[data.key[2]].collaterals
               /\ \A a \in DOMAIN docs : /\ a \in DOMAIN next
                                         /\ DOMAIN docs[a].collaterals \subseteq
                                                DOMAIN next[a].collaterals
<1> DEFINE t == data.key[1]
           a == data.key[2]
           updated == Updated(data)
           next == With(docs, a, updated)
<1>1. data.key \in Key /\ data.liquidity \in ReadAt /\ data.balances \in ReadAt
    BY DEF Retrieved
<1>2. data.key = <<t, a>> /\ t \in Tokens /\ a \in Accounts
    BY <1>1 DEF Key
<1> HIDE DEF t, a
<1>3. PICK S \in SUBSET Tokens :
          /\ t \in S /\ updated.collaterals \in [S -> ReadAt]
          /\ a \in DOMAIN docs => DOMAIN docs[a].collaterals \subseteq S
          /\ updated = [liquidity |-> data.liquidity, collaterals |-> updated.collaterals]
    <2>1. CASE a \in DOMAIN docs
        <3>1. docs[a] \in Doc
            BY <2>1 DEF StoreTypes
        <3>2. PICK S \in SUBSET Tokens : docs[a].collaterals \in [S -> ReadAt]
            BY <3>1, DocFields
        <3>3. updated = [liquidity |-> data.liquidity,
                         collaterals |-> With(docs[a].collaterals, t, data.balances)]
            BY <2>1 DEF Updated, t, a
        <3>4. With(docs[a].collaterals, t, data.balances) \in [S \cup {t} -> ReadAt]
            BY <1>1, <3>2 DEF With
        <3>5. S \cup {t} \in SUBSET Tokens /\ DOMAIN docs[a].collaterals = S
            BY <1>2, <3>2
        <3>6. QED
            BY <3>3, <3>4, <3>5
    <2>2. CASE a \notin DOMAIN docs
        <3>1. updated = [liquidity |-> data.liquidity,
                         collaterals |-> [x \in {t} |-> data.balances]]
            BY <2>2 DEF Updated, t, a
        <3>2. [x \in {t} |-> data.balances] \in [{t} -> ReadAt] /\ {t} \in SUBSET Tokens
            BY <1>1, <1>2
        <3>3. QED
            BY <2>2, <3>1, <3>2
    <2>3. QED
        BY <2>1, <2>2
<1>4. updated \in Doc
    <2>1. updated \in [liquidity : ReadAt, collaterals : [S -> ReadAt]]
        BY <1>1, <1>3
    <2>2. QED
        BY <2>1 DEF Doc
<1>5. DOMAIN updated.collaterals = S
    BY <1>3
<1> HIDE DEF updated
<1>6. /\ DOMAIN next = DOMAIN docs \cup {a}
      /\ \A x \in DOMAIN docs \cup {a} : next[x] = IF x = a THEN updated ELSE docs[x]
    BY DEF With
<1> HIDE DEF next
<1>7. DOMAIN next \subseteq Accounts /\ \A x \in DOMAIN next : next[x] \in Doc
    BY <1>2, <1>4, <1>6 DEF StoreTypes
<1>8. \A x \in DOMAIN docs : /\ x \in DOMAIN next
                             /\ DOMAIN docs[x].collaterals \subseteq DOMAIN next[x].collaterals
    BY <1>3, <1>5, <1>6
<1>9. QED
    BY <1>1, <1>2, <1>3, <1>5, <1>6, <1>7, <1>8 DEF next, updated, t, a

LEMMA FlowProcessOne ==
    ASSUME FlowInv, NEW data \in storing, ProcessOne(data)
    PROVE  FlowInv'
<1>1. /\ docs' = With(docs, data.key[2], Updated(data)) /\ TakeData
      /\ UNCHANGED <<chain, observers, crashes, errors>>
      /\ UNCHANGED <<queue, pendingKeys, isRetrieving, reading>>
    BY DEF ProcessOne, worker, faults
<1>2. /\ StoreTypes /\ repoQueue \in Seq(Retrieved) /\ storing = {data} /\ data \in Retrieved
    BY DEF FlowInv, Types, StoreTypes, AtMostOne
<1>3. /\ repoQueue' \in Seq(Retrieved)
      /\ storing' \in SUBSET Retrieved /\ AtMostOne(storing')
      /\ isProcessing' = (storing' # {})
      /\ \A key : (\E i \in 1 .. Len(repoQueue) : repoQueue[i].key = key)
             => \/ \E i \in 1 .. Len(repoQueue') : repoQueue'[i].key = key
                \/ \E r \in storing' : r.key = key
    BY <1>1, <1>2, DataTaken
<1>4. /\ DOMAIN docs' \subseteq Accounts /\ \A a \in DOMAIN docs' : docs'[a] \in Doc
      /\ data.key[2] \in DOMAIN docs' /\ data.key[1] \in DOMAIN docs'[data.key[2]].collaterals
      /\ \A a \in DOMAIN docs : /\ a \in DOMAIN docs'
                                /\ DOMAIN docs[a].collaterals \subseteq DOMAIN docs'[a].collaterals
    BY <1>1, <1>2, DocWritten
<1>5. WorkerTypes' /\ FaultTypes'
    BY <1>1 DEF FlowInv, Types, WorkerTypes, FaultTypes
<1>6. StoreTypes'
    BY <1>3, <1>4 DEF StoreTypes
<1>7. ASSUME NEW key, OnItsWay(key) PROVE OnItsWay(key)'
    <2>1. CASE InQueue(queue, key) \/ \E r \in reading : r.key = key
        BY <1>1, <2>1 DEF OnItsWay, InQueue
    <2>2. CASE data.key = key
        BY <1>4, <2>2 DEF OnItsWay, Stored
    <2>3. CASE \E i \in 1 .. Len(repoQueue) : repoQueue[i].key = key
        BY <1>3, <2>3 DEF OnItsWay
    <2>4. CASE Stored(key[1], key[2])
        BY <1>4, <2>4 DEF OnItsWay, Stored
    <2>5. QED
        BY <1>2, <1>7, <2>1, <2>2, <2>3, <2>4 DEF OnItsWay
<1>8. QED
    BY <1>1, <1>5, <1>6, <1>7, FlowPipeline

\* A refresh finds no field `balance` in any document: it adds nothing.
LEMMA RefreshAddsNothing ==
    ASSUME StoreTypes, NEW stale \in SUBSET DOMAIN docs, Refresh(stale)
    PROVE  UNCHANGED <<queue, pendingKeys>>
<1> DEFINE found == UNION {BalanceSymbols(docs[a]) \X {a} : a \in stale}
           Adds(keys, f) == f = [n \in 0 .. Cardinality(found) |->
                                    IF n = 0 THEN Work ELSE AddTask(f[n - 1], keys[n])]
           work(keys) == CHOOSE f : Adds(keys, f)
<1>1. \A a \in stale : BalanceSymbols(docs[a]) = {}
    <2>1. \A a \in stale : "balance" \notin DOMAIN docs[a]
        BY DocFields DEF StoreTypes
    <2>2. QED
        BY <2>1 DEF BalanceSymbols
<1>2. found = {}
    BY <1>1
<1>3. Cardinality(found) = 0
    BY <1>2, FS_EmptySet
<1>4. PICK keys : /\ queue' = work(keys)[Cardinality(found)].queue
                  /\ pendingKeys' = work(keys)[Cardinality(found)].pendingKeys
    BY Zenon DEF Refresh
<1> HIDE DEF found
<1>5. Adds(keys, [n \in 0 .. 0 |-> Work])
    <2>1. \A n \in 0 .. 0 : n = 0
        OBVIOUS
    <2>2. QED
        BY <1>3, <2>1
<1>6. Adds(keys, work(keys))
    BY <1>5, Zenon
<1> HIDE DEF work
<1>7. work(keys)[0] = Work
    <2>1. 0 \in 0 .. 0
        OBVIOUS
    <2>2. QED
        BY <1>3, <1>6, <2>1
<1>8. QED
    BY <1>3, <1>4, <1>7 DEF Work

LEMMA FlowSame ==
    ASSUME FlowInv, UNCHANGED vars
    PROVE  FlowInv'
<1>1. UNCHANGED <<block, log, phase, lastCheckPoint, savedCheckPoint, target, subscribed, delivered>>
      /\ UNCHANGED <<queue, pendingKeys, isRetrieving, reading>>
      /\ UNCHANGED <<repoQueue, isProcessing, storing, docs, crashes, errors>>
    BY DEF vars, chain, observers, checkpoints, subscription, worker, repository, faults
<1>2. WorkerTypes' /\ StoreTypes' /\ FaultTypes'
    BY <1>1 DEF FlowInv, Types, WorkerTypes, StoreTypes, FaultTypes
<1>3. \A key : OnItsWay(key) => OnItsWay(key)'
    BY <1>1, SameStages
<1>4. QED
    BY <1>1, <1>2, <1>3, FlowPipeline DEF vars

LEMMA FlowRefresh ==
    ASSUME FlowInv, NEW stale \in SUBSET DOMAIN docs, Refresh(stale)
    PROVE  FlowInv'
<1>1. UNCHANGED <<queue, pendingKeys>>
    BY RefreshAddsNothing DEF FlowInv, Types
<1>2. UNCHANGED vars
    BY <1>1 DEF Refresh, vars, worker
<1>3. QED
    BY <1>2, FlowSame

\* A crash empties the queues: only the types are left of the invariant.
LEMMA FlowCrash ==
    ASSUME FlowInv, Crash
    PROVE  FlowInv'
<1>1. /\ crashes + errors < MaxFaults /\ crashes' = crashes + 1
      /\ UNCHANGED <<block, log, savedCheckPoint, docs, errors>>
    BY DEF Crash, chain
<1>2. Types /\ block \in Nat /\ MaxFaults \in Nat
    BY AccountIndexerAssumption DEF FlowInv, Types, ChainTypes
<1>3. ChainTypes'
    BY <1>1, <1>2 DEF Types, ChainTypes
<1>4. ObserverTypes'
    <2>1. \A t \in Tokens : Len(log[t]) \in Nat
        BY <1>2, LenProperties DEF Types, ChainTypes
    <2>2. QED
        BY <1>1, <1>2, <2>1 DEF Crash, Types, ObserverTypes, Everywhere, Phase
<1>5. WorkerTypes'
    BY DEF Crash, WorkerTypes, AtMostOne
<1>6. StoreTypes'
    <2>1. storing' = {} /\ isProcessing' = FALSE /\ repoQueue' = <<>>
        BY DEF Crash
    <2>2. isProcessing' = (storing' # {})
        BY <2>1
    <2>3. QED
        BY <1>1, <1>2, <2>1, <2>2 DEF Types, StoreTypes, AtMostOne
<1>7. FaultTypes' /\ crashes' # 0
    BY <1>1, <1>2 DEF Types, FaultTypes
<1>8. QED
    BY <1>3, <1>4, <1>5, <1>6, <1>7 DEF FlowInv, Types

\* The invariant of the pipeline holds whatever the tokens, the accounts and
\* their events are: observers, worker and repository keep their states apart
\* (isRetrieving, isProcessing, one result at a time), and until a fault every
\* account an observer polled is in one of the stages or stored.
THEOREM PipelineInvariant == Spec => []FlowInv
<1>1. Init => FlowInv
    BY FlowInit
<1>2. FlowInv /\ [Next]_vars => FlowInv'
    <2> SUFFICES ASSUME FlowInv, [Next]_vars PROVE FlowInv'
        OBVIOUS
    <2>1. CASE Mine
        BY <2>1, FlowMine
    <2>2. CASE Start
        BY <2>2, FlowStart
    <2>3. CASE Crash
        BY <2>3, FlowCrash
    <2>4. ASSUME NEW t \in Tokens, ObserverStep(t) \/ PollFails(t) \/ Notify(t) PROVE FlowInv'
        BY <2>4, FlowReceiveLatest, FlowReceiveEvents, FlowPollFails, FlowNotify DEF ObserverStep
    <2>5. CASE RetrieveAll
        BY <2>5, FlowRetrieveAll
    <2>6. CASE AnswerStep
        BY <2>6, FlowAnswer DEF AnswerStep
    <2>7. CASE RetrievalFails
        BY <2>7, FlowRetrievalFails
    <2>8. CASE ProcessAll
        BY <2>8, FlowProcessAll
    <2>9. CASE StoreStep
        BY <2>9, FlowProcessOne DEF StoreStep
    <2>10. ASSUME NEW stale \in SUBSET DOMAIN docs, Refresh(stale) PROVE FlowInv'
        BY <2>10, FlowRefresh
    <2>11. CASE UNCHANGED vars
        BY <2>11, FlowSame
    <2>12. QED
        BY <2>1, <2>2, <2>3, <2>4, <2>5, <2>6, <2>7, <2>8, <2>9, <2>10, <2>11 DEF Next
<1>3. QED
    BY <1>1, <1>2, PTL DEF Spec

\* The flags of the two workers say whether each is at work, and each has one
\* account in hand at most (retrieval-worker.js:33, repository.js:80); nobody
\* is ahead of the chain.
THEOREM PipelineTypes == Spec => []TypeOK
<1>1. FlowInv => TypeOK
    BY TypesGiveTypeOK DEF FlowInv
<1>2. QED
    BY <1>1, PipelineInvariant, PTL

\* The checkpoint is saved before anything is retrieved (token-observer.js:61),
\* and still no account is lost between the queues, until a crash or a
\* rejected call.
THEOREM NothingIsLost == Spec => []NothingLost
<1>1. FlowInv => NothingLost
    <2> SUFFICES ASSUME FlowInv, crashes = 0, errors = 0,
                        NEW t \in Tokens, NEW a \in Accounts, NEW i \in DOMAIN log[t],
                        Concerns(log[t][i], a), log[t][i].block <= savedCheckPoint[t]
                 PROVE  \/ \E j \in DOMAIN queue : queue[j] = <<t, a>>
                        \/ \E r \in reading \cup storing : r.key = <<t, a>>
                        \/ InSeq(repoQueue, <<t, a>>)
                        \/ Stored(t, a)
        BY Zenon DEF NothingLost
    <2>1. /\ DOMAIN log[t] = 1 .. Len(log[t]) /\ DOMAIN queue = 1 .. Len(queue)
          /\ DOMAIN repoQueue = 1 .. Len(repoQueue)
        BY LenProperties DEF FlowInv, Types, ChainTypes, WorkerTypes, StoreTypes
    <2>2. <<t, a>> \in pendingKeys
        BY <2>1 DEF FlowInv, Delivered, PolledPending
    <2>3. OnItsWay(<<t, a>>)
        BY <2>2 DEF FlowInv, Delivered
    <2> DEFINE key == <<t, a>>
    <2>4. key[1] = t /\ key[2] = a
        OBVIOUS
    <2> HIDE DEF key
    <2>5. OnItsWay(key)
        BY <2>3 DEF key
    <2>6. \/ \E j \in DOMAIN queue : queue[j] = key
          \/ \E r \in reading \cup storing : r.key = key
          \/ InSeq(repoQueue, key)
          \/ Stored(t, a)
        BY <2>1, <2>4, <2>5 DEF OnItsWay, InQueue, InSeq
    <2>7. QED
        BY <2>6 DEF key
<1>2. QED
    BY <1>1, PipelineInvariant, PTL
=============================================================================
