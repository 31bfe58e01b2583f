--------------------------- MODULE CouncilProofs ---------------------------
(***************************************************************************)
(* Theorems about the council: the ayes of a proposal are the ayes of      *)
(* different accounts, the members are those of the current term, and the  *)
(* council implements the life cycle of its proposals.  Then about the     *)
(* observer that follows it: its events tell all of a proposal's life, the *)
(* store keeps up with them through polls and crashes, and the queries     *)
(* agree with the council once the observer has caught up.                 *)
(***************************************************************************)
EXTENDS CouncilIndexer, DataTheorems, SequenceTheorems

(***************************************************************************)
(* The inductive invariant.                                                *)
(***************************************************************************)

\* The ayes of a proposal are its voters, its proposer among them.
Counts(p) ==
    /\ p \in Proposal
    /\ IsFiniteSet(p.voters)
    /\ p.ayes = Cardinality(p.voters)
    /\ p.proposer \in p.voters

TermOK == CouncilTypeOK /\ TermsMatch
AllCount(ps) == ps \in Seq(Proposal) /\ \A id \in 1 .. Len(ps) : Counts(ps[id])

\* A proposal that waits for its call was queued; its call may have canceled or
\* executed it since.
Calling == {"Queued", "Canceled", "Executed"}
CallsOK == \A n \in 1 .. Len(executing) : proposals[executing[n]].state \in Calling

IInv == TermOK /\ AllCount(proposals) /\ CallsOK

\* How a proposal may change in an operation of block `now` that executes none,
\* and how all of them may.
Moves(p, q, now) ==
    \/ q.state = p.state /\ q.eta = p.eta
    \/ p.state = "Pending" /\ q.state \in {"Expired", "Canceled"} /\ q.eta = p.eta
    \/ p.state = "Pending" /\ q.state = "Queued" /\ q.eta > now
    \/ p.state = "Queued" /\ q.state = "Canceled" /\ q.eta = p.eta

Opened(q) == q.state = "Pending" /\ q.eta = 0

Evolves(old, new, now) ==
    /\ AllCount(new)
    /\ \/ Len(new) = Len(old)
       \/ Len(new) = Len(old) + 1 /\ Opened(new[Len(new)])
    /\ \A id \in 1 .. Len(old) : Moves(old[id], new[id], now)

\* Such an operation, seen from the proposals, the settings and the calls.
Operates ==
    /\ TermOK' /\ block' = block /\ executing' = executing
    /\ Evolves(proposals, proposals', block)
    /\ runs' = IF Len(proposals') = Len(proposals) THEN runs ELSE Append(runs, 0)

-----------------------------------------------------------------------------
(***************************************************************************)
(* Proposals.                                                              *)
(***************************************************************************)

\* No change is a change.
LEMMA NothingMoves ==
    ASSUME NEW ps, AllCount(ps), NEW now \in Nat
    PROVE  Evolves(ps, ps, now)
    BY DEF Evolves, Moves

\* One proposal moves.
LEMMA OneMoves ==
    ASSUME NEW ps, AllCount(ps), NEW now \in Nat, NEW id \in 1 .. Len(ps),
           NEW q, Counts(q), Moves(ps[id], q, now)
    PROVE  Evolves(ps, [ps EXCEPT ![id] = q], now)
<1> DEFINE new == [ps EXCEPT ![id] = q]
<1>1. ps \in Seq(Proposal) /\ q \in Proposal
    BY DEF AllCount, Counts
<1>2. new \in Seq(Proposal) /\ Len(new) = Len(ps)
    BY <1>1
<1>3. new[id] = q /\ \A i \in 1 .. Len(ps) : i # id => new[i] = ps[i]
    BY <1>1
<1> HIDE DEF new
<1>4. AllCount(new)
    BY <1>2, <1>3 DEF AllCount
<1>5. \A i \in 1 .. Len(ps) : Moves(ps[i], new[i], now)
    BY <1>3 DEF Moves
<1>6. QED
    BY <1>2, <1>4, <1>5 DEF Evolves, new

\* A proposal in another state keeps its votes.
LEMMA StateCounts ==
    ASSUME NEW p, Counts(p), NEW s \in ProposalState
    PROVE  /\ Counts([p EXCEPT !.state = s])
           /\ [p EXCEPT !.state = s].state = s
           /\ [p EXCEPT !.state = s].eta = p.eta
    BY DEF Counts, Proposal, ProposalState

\* A proposal is opened with its proposer's aye.
LEMMA ProposeEvolves ==
    ASSUME IInv, NEW sender \in Accounts, NEW delay \in Nat, NEW period \in Nat,
           Propose(sender, delay, period)
    PROVE  Evolves(proposals, proposals', block)
<1> DEFINE q == [proposer |-> sender, startBlock |-> block + delay,
                 endBlock |-> block + delay + period, eta |-> 0,
                 ayes |-> 1, voters |-> {sender}, state |-> "Pending"]
<1>1. block \in Nat /\ AllCount(proposals) /\ proposals \in Seq(Proposal)
    BY DEF IInv, TermOK, CouncilTypeOK, AllCount
<1>2. IsFiniteSet({sender}) /\ Cardinality({sender}) = 1
    BY FS_Singleton
<1>3. Counts(q)
    BY <1>1, <1>2 DEF Counts, Proposal, ProposalState
<1>4. q.state = "Pending" /\ q.eta = 0
    OBVIOUS
<1>5. proposals' = Append(proposals, q)
    BY DEF Propose
<1> HIDE DEF q
<1>6. q \in Proposal
    BY <1>3 DEF Counts
<1>7. /\ proposals' \in Seq(Proposal) /\ Len(proposals') = Len(proposals) + 1
      /\ proposals'[Len(proposals')] = q
      /\ \A id \in 1 .. Len(proposals) : proposals'[id] = proposals[id]
    BY <1>1, <1>5, <1>6
<1>8. AllCount(proposals')
    <2>1. \A id \in 1 .. Len(proposals') :
              id \in 1 .. Len(proposals) \/ id = Len(proposals')
        BY <1>1, <1>7
    <2>2. QED
        BY <1>1, <1>3, <1>7, <2>1 DEF AllCount
<1>9. \A id \in 1 .. Len(proposals) : Moves(proposals[id], proposals'[id], block)
    BY <1>7 DEF Moves
<1>10. QED
    BY <1>4, <1>7, <1>8, <1>9 DEF Evolves, Opened

\* What a vote makes of a proposal, and what queueing makes of it then.
Voted(p, a) == [p EXCEPT !.ayes = @ + 1, !.voters = @ \cup {a}]
Queued(p, e) == [p EXCEPT !.state = "Queued", !.eta = e]

\* A vote adds one aye and one voter.
LEMMA AyeCounts ==
    ASSUME NEW p, Counts(p), NEW a \in Accounts, a \notin p.voters
    PROVE  Counts(Voted(p, a)) /\ Voted(p, a).state = p.state /\ Voted(p, a).eta = p.eta
<1>1. p \in Proposal
    BY DEF Counts
<1>2. /\ IsFiniteSet(p.voters \cup {a})
      /\ Cardinality(p.voters \cup {a}) = p.ayes + 1
    BY FS_AddElement DEF Counts
<1>3. Voted(p, a) \in Proposal
    <2> DEFINE ayes == p.ayes + 1
               voters == p.voters \cup {a}
    <2>1. ayes \in Nat /\ voters \in SUBSET Accounts
        BY <1>1 DEF Proposal
    <2>2. Voted(p, a) = [p EXCEPT !.ayes = ayes, !.voters = voters]
        BY DEF Voted
    <2> HIDE DEF ayes, voters
    <2>3. QED
        BY <1>1, <2>1, <2>2 DEF Proposal
<1>4. /\ Voted(p, a).voters = p.voters \cup {a} /\ Voted(p, a).ayes = p.ayes + 1
      /\ Voted(p, a).proposer = p.proposer
      /\ Voted(p, a).state = p.state /\ Voted(p, a).eta = p.eta
    BY <1>1 DEF Voted, Proposal
<1>5. QED
    BY <1>2, <1>3, <1>4 DEF Counts

\* The queue adds a date.
LEMMA QueuedCounts ==
    ASSUME NEW p, Counts(p), NEW e \in Nat
    PROVE  Counts(Queued(p, e)) /\ Queued(p, e).state = "Queued" /\ Queued(p, e).eta = e
    BY DEF Counts, Queued, Proposal, ProposalState

\* A vote adds the aye of an account that has none yet, and may queue the
\* proposal for a later block; too late, it expires.
LEMMA VoteEvolves ==
    ASSUME IInv, NEW sender \in Accounts, NEW id \in 1 .. Len(proposals), Vote(sender, id)
    PROVE  Evolves(proposals, proposals', block)
<1>1. /\ block \in Nat /\ executionDelay \in Nat \ {0}
      /\ AllCount(proposals) /\ Counts(proposals[id])
    BY DEF IInv, TermOK, CouncilTypeOK, AllCount
<1>2. sender \notin proposals[id].voters /\ proposals[id].state = "Pending"
    BY DEF Vote
<1>3. CASE VoteTooLate(id)
    <2> DEFINE q == [proposals[id] EXCEPT !.state = "Expired"]
    <2>1. proposals' = [proposals EXCEPT ![id] = q]
        BY <1>3 DEF VoteTooLate
    <2>2. Counts(q) /\ q.state = "Expired" /\ q.eta = proposals[id].eta
        BY <1>1, StateCounts DEF ProposalState
    <2> HIDE DEF q
    <2>3. Moves(proposals[id], q, block)
        BY <1>2, <2>2 DEF Moves
    <2>4. QED
        BY <1>1, <2>1, <2>2, <2>3, OneMoves
<1>4. CASE VoteAye(sender, id)
    <2> DEFINE voted == Voted(proposals[id], sender)
               eta == block + executionDelay
               queued == Queued(voted, eta)
    <2>1. \/ proposals' = [proposals EXCEPT ![id] = queued]
          \/ proposals' = [proposals EXCEPT ![id] = voted]
        BY <1>4 DEF VoteAye, Voted, Queued
    <2>2. /\ Counts(voted)
          /\ voted.state = proposals[id].state /\ voted.eta = proposals[id].eta
        BY <1>1, <1>2, AyeCounts
    <2>3. eta \in Nat /\ eta > block
        BY <1>1
    <2> HIDE DEF voted, eta
    <2>4. Counts(queued) /\ queued.state = "Queued" /\ queued.eta = eta
        BY <2>2, <2>3, QueuedCounts
    <2> HIDE DEF queued
    <2>5. Moves(proposals[id], voted, block) /\ Moves(proposals[id], queued, block)
        BY <1>2, <2>2, <2>3, <2>4 DEF Moves
    <2>6. QED
        BY <1>1, <2>1, <2>2, <2>4, <2>5, OneMoves
<1>5. QED
    BY <1>3, <1>4 DEF Vote

\* What a cancellation leaves, one proposal at a time.
LEMMA CanceledState ==
    ASSUME NEW ps, AllCount(ps), NEW other \in 1 .. Len(ps)
    PROVE  /\ AllCount(Canceled(ps, other)) /\ Len(Canceled(ps, other)) = Len(ps)
           /\ \A id \in 1 .. Len(ps) :
                  Canceled(ps, other)[id] =
                      IF id = other /\ Cancelable(ps[id])
                      THEN [ps[id] EXCEPT !.state = "Canceled"] ELSE ps[id]
<1> DEFINE q == [ps[other] EXCEPT !.state = "Canceled"]
<1>1. Counts(q)
    BY StateCounts DEF AllCount, ProposalState
<1>2. ps \in Seq(Proposal) /\ q \in Proposal
    BY <1>1 DEF AllCount, Counts
<1>3. CASE Cancelable(ps[other])
    <2>1. Canceled(ps, other) = [ps EXCEPT ![other] = q]
        BY <1>3 DEF Canceled
    <2> HIDE DEF q
    <2>2. /\ Canceled(ps, other) \in Seq(Proposal) /\ Len(Canceled(ps, other)) = Len(ps)
          /\ \A id \in 1 .. Len(ps) :
                 Canceled(ps, other)[id] = IF id = other THEN q ELSE ps[id]
        BY <1>2, <2>1
    <2>3. QED
        BY <1>1, <1>3, <2>2 DEF AllCount, q
<1>4. CASE ~Cancelable(ps[other])
    BY <1>4 DEF Canceled
<1>5. QED
    BY <1>3, <1>4

\* cancel moves at most the one proposal, and no date.
LEMMA CanceledMoves ==
    ASSUME NEW ps, AllCount(ps), NEW other \in 1 .. Len(ps), NEW now \in Nat,
           NEW id \in 1 .. Len(ps)
    PROVE  /\ Canceled(ps, other)[id].eta = ps[id].eta
           /\ Moves(ps[id], Canceled(ps, other)[id], now)
<1>1. Counts(ps[id])
    BY DEF AllCount
<1>2. CASE id = other /\ Cancelable(ps[id])
    <2>1. Canceled(ps, other)[id] = [ps[id] EXCEPT !.state = "Canceled"]
        BY <1>2, CanceledState
    <2>2. /\ Canceled(ps, other)[id].state = "Canceled"
          /\ Canceled(ps, other)[id].eta = ps[id].eta
        BY <1>1, <2>1, StateCounts DEF ProposalState
    <2>3. QED
        BY <1>2, <2>2 DEF Moves, Cancelable
<1>3. CASE ~(id = other /\ Cancelable(ps[id]))
    BY <1>3, CanceledState DEF Moves
<1>4. QED
    BY <1>2, <1>3

\* cancel
LEMMA CancelEvolves ==
    ASSUME IInv, NEW id \in 1 .. Len(proposals), proposals' = Canceled(proposals, id)
    PROVE  Evolves(proposals, proposals', block)
<1>1. AllCount(proposals) /\ block \in Nat
    BY DEF IInv, TermOK, CouncilTypeOK
<1>2. QED
    BY <1>1, CanceledState, CanceledMoves DEF Evolves

-----------------------------------------------------------------------------
(***************************************************************************)
(* Operations.                                                             *)
(***************************************************************************)

\* The calls stay sound when an operation does not begin or end one.
LEMMA CallsKept ==
    ASSUME IInv, Evolves(proposals, proposals', block), executing' = executing,
           runs' = IF Len(proposals') = Len(proposals) THEN runs ELSE Append(runs, 0)
    PROVE  /\ executing' \in Seq(1 .. Len(proposals'))
           /\ runs' \in Seq(Nat) /\ Len(runs') = Len(proposals')
<1>1. /\ executing \in Seq(1 .. Len(proposals)) /\ runs \in Seq(Nat)
      /\ Len(runs) = Len(proposals) /\ Len(proposals) \in Nat
    BY DEF IInv, TermOK, CouncilTypeOK
<1>2. Len(proposals') = Len(proposals) \/ Len(proposals') = Len(proposals) + 1
    BY DEF Evolves
<1>3. 1 .. Len(proposals) \subseteq 1 .. Len(proposals')
    BY <1>1, <1>2
<1>4. executing' \in Seq(1 .. Len(proposals'))
    BY <1>1, <1>3, SeqMonotonic
<1>5. QED
    BY <1>1, <1>2, <1>4

\* The settings stay sound when nobody touches them.
LEMMA SettingsKept ==
    ASSUME IInv, Evolves(proposals, proposals', block), executing' = executing,
           runs' = IF Len(proposals') = Len(proposals) THEN runs ELSE Append(runs, 0),
           UNCHANGED <<block, term, settings>>
    PROVE  Operates
<1>1. /\ executing' \in Seq(1 .. Len(proposals'))
      /\ runs' \in Seq(Nat) /\ Len(runs') = Len(proposals')
    BY CallsKept
<1>2. TermOK'
    BY <1>1 DEF IInv, TermOK, CouncilTypeOK, TermsMatch, Evolves, AllCount, term, settings
<1>3. QED
    BY <1>2 DEF Operates

\* A reform leaves the members of one term.
LEMMA ReformTerm ==
    ASSUME IInv, Reform, UNCHANGED <<block, proposals, executing, runs>>
    PROVE  Operates
<1>1. AllCount(proposals) /\ block \in Nat
    BY DEF IInv, TermOK, CouncilTypeOK
<1>2. /\ Evolves(proposals, proposals', block)
      /\ runs' = IF Len(proposals') = Len(proposals) THEN runs ELSE Append(runs, 0)
    BY <1>1, NothingMoves
<1>3. /\ block' \in Nat /\ proposals' \in Seq(Proposal)
      /\ executing' \in Seq(1 .. Len(proposals'))
      /\ runs' \in Seq(Nat) /\ Len(runs') = Len(proposals')
    BY DEF IInv, TermOK, CouncilTypeOK
<1>4. CASE \E newMembers \in Terms : StartTerm(newMembers)
    <2>1. PICK newMembers \in Terms : StartTerm(newMembers)
        BY <1>4
    <2>2. newMembers \in Seq(Accounts)
        BY CouncilAssumption
    <2>3. /\ memberMap' = {newMembers[i] : i \in DOMAIN newMembers}
          /\ members' = newMembers /\ UNCHANGED settings
        BY <2>1 DEF StartTerm, IInv, TermOK, TermsMatch
    <2>4. TermOK'
        BY <1>3, <2>2, <2>3 DEF IInv, TermOK, CouncilTypeOK, TermsMatch, settings
    <2>5. QED
        BY <1>2, <2>4 DEF Operates
<1>5. CASE \E val \in MaxMembersChoices : SetMaxMembers(val)
    <2>1. TermOK'
        BY <1>3, <1>5, CouncilAssumption
        DEF SetMaxMembers, IInv, TermOK, CouncilTypeOK, TermsMatch, term
    <2>2. QED
        BY <1>2, <2>1 DEF Operates
<1>6. CASE \E val \in ExecutionDelays : SetExecutionDelay(val)
    <2>1. TermOK'
        BY <1>3, <1>6, CouncilAssumption
        DEF SetExecutionDelay, IInv, TermOK, CouncilTypeOK, TermsMatch, term
    <2>2. QED
        BY <1>2, <2>1 DEF Operates
<1>7. QED
    BY <1>4, <1>5, <1>6 DEF Reform

\* Every step of the council is such an operation, the beginning or the return
\* of a call, or the end of a block.
LEMMA StepOperates ==
    ASSUME IInv, CouncilNext
    PROVE  \/ Operates \/ ExecuteReturns \/ NextBlock
           \/ \E id \in 1 .. Len(proposals) : Execute(id)
<1>1. AllCount(proposals) /\ block \in Nat /\ DOMAIN proposals = 1 .. Len(proposals)
      /\ Len(proposals) \in Nat
    BY DEF IInv, TermOK, CouncilTypeOK, AllCount
<1>2. ASSUME NEW sender \in Proposers, NEW delay \in Delays, NEW period \in Periods,
             Propose(sender, delay, period)
      PROVE  Operates
    <2>1. sender \in Accounts /\ delay \in Nat /\ period \in Nat
        BY CouncilAssumption
    <2>2. Evolves(proposals, proposals', block)
        BY <1>2, <2>1, ProposeEvolves
    <2>3. Len(proposals') = Len(proposals) + 1
        BY <1>1, <1>2 DEF Propose, AllCount
    <2>4. QED
        <3>1. Len(proposals') # Len(proposals)
            <4> DEFINE n == Len(proposals)
            <4>1. n \in Nat
                BY <1>1
            <4> HIDE DEF n
            <4>2. n + 1 # n
                BY <4>1
            <4>3. QED
                BY <2>3, <4>2 DEF n
        <3>2. runs' = Append(runs, 0) /\ UNCHANGED <<block, term, settings, executing>>
            BY <1>2 DEF Propose
        <3>3. QED
            BY <2>2, <3>1, <3>2, SettingsKept
<1>3. ASSUME NEW id \in DOMAIN proposals, Evolves(proposals, proposals', block),
             Len(proposals') = Len(proposals), UNCHANGED <<block, term, settings, calls>>
      PROVE  Operates
    BY <1>3, SettingsKept DEF calls
<1>4. ASSUME NEW sender \in Accounts, NEW id \in DOMAIN proposals, Vote(sender, id)
      PROVE  Operates
    <2>1. Len(proposals') = Len(proposals)
        BY <1>1, <1>4 DEF Vote, VoteTooLate, VoteAye, AllCount
    <2>2. QED
        BY <1>1, <1>3, <1>4, <2>1, VoteEvolves DEF Vote
<1>5. ASSUME NEW sender \in Accounts, NEW id \in DOMAIN proposals, Cancel(sender, id)
      PROVE  Operates
    <2>1. Len(proposals') = Len(proposals)
        BY <1>1, <1>5, CanceledState DEF Cancel
    <2>2. QED
        BY <1>1, <1>3, <1>5, <2>1, CancelEvolves DEF Cancel
<1>6. ASSUME NEW sender \in Accounts, Govern(sender)
      PROVE  Operates
    BY <1>6, ReformTerm DEF Govern, calls
<1>7. QED
    BY <1>1, <1>2, <1>4, <1>5, <1>6 DEF CouncilNext

\* The calls of a council, when operations that are none come between.
LEMMA OperatesCalls ==
    ASSUME IInv, Operates
    PROVE  IInv'
<1>1. executing \in Seq(1 .. Len(proposals)) /\ Len(proposals) \in Nat
    BY DEF IInv, TermOK, CouncilTypeOK
<1>2. ASSUME NEW n \in 1 .. Len(executing)
      PROVE  proposals'[executing[n]].state \in Calling
    <2>1. executing[n] \in 1 .. Len(proposals)
        BY <1>1, ElementOfSeq
    <2>2. Moves(proposals[executing[n]], proposals'[executing[n]], block)
        BY <2>1 DEF Operates, Evolves
    <2>3. QED
        BY <2>2 DEF IInv, CallsOK, Calling, Moves
<1>3. CallsOK'
    BY <1>2 DEF Operates, CallsOK
<1>4. QED
    BY <1>3 DEF IInv, Operates, Evolves

\* execute begins.
LEMMA ExecuteCalls ==
    ASSUME IInv, NEW id \in 1 .. Len(proposals), Execute(id)
    PROVE  IInv'
<1>1. /\ executing \in Seq(1 .. Len(proposals)) /\ runs \in Seq(Nat)
      /\ Len(runs) = Len(proposals) /\ Len(proposals) \in Nat
    BY DEF IInv, TermOK, CouncilTypeOK
<1>2. /\ executing' = Append(executing, id) /\ runs' = [runs EXCEPT ![id] = @ + 1]
      /\ proposals' = proposals /\ UNCHANGED <<block, term, settings>>
      /\ proposals[id].state = "Queued"
    BY DEF Execute, Executable
<1>3. /\ executing' \in Seq(1 .. Len(proposals)) /\ Len(executing') = Len(executing) + 1
      /\ Len(executing) \in Nat /\ executing'[Len(executing) + 1] = id
      /\ \A n \in 1 .. Len(executing) : executing'[n] = executing[n]
    BY <1>1, <1>2, AppendProperties, LenProperties
<1>4. runs' \in Seq(Nat) /\ Len(runs') = Len(proposals)
    BY <1>1, <1>2
<1>5. \A n \in 1 .. Len(executing') : n \in 1 .. Len(executing) \/ n = Len(executing) + 1
    BY <1>3
<1>6. CallsOK'
    BY <1>2, <1>3, <1>5 DEF IInv, CallsOK, Calling
<1>7. TermOK'
    BY <1>2, <1>3, <1>4 DEF IInv, TermOK, CouncilTypeOK, TermsMatch, term, settings
<1>8. QED
    BY <1>2, <1>6, <1>7 DEF IInv

\* The innermost call, and the others.
LEMMA Innermost ==
    ASSUME IInv, ExecuteReturns
    PROVE  LET id == executing[Len(executing)]
           IN  /\ id \in 1 .. Len(proposals) /\ id \in Nat /\ Len(executing) \in Nat \ {0}
               /\ proposals' = Executed(proposals, id)
               /\ Counts([proposals[id] EXCEPT !.state = "Executed"])
               /\ proposals' \in Seq(Proposal) /\ Len(proposals') = Len(proposals)
               /\ proposals'[id].state = "Executed" /\ proposals'[id].eta = proposals[id].eta
               /\ \A i \in 1 .. Len(proposals) : i # id => proposals'[i] = proposals[i]
               /\ AllCount(proposals')
               /\ executing' \in Seq(1 .. Len(proposals)) /\ Len(executing') = Len(executing) - 1
               /\ \A n \in 1 .. Len(executing) - 1 : executing'[n] = executing[n]
<1> DEFINE id == executing[Len(executing)]
           q == [proposals[id] EXCEPT !.state = "Executed"]
<1>1. /\ executing \in Seq(1 .. Len(proposals)) /\ executing # <<>>
      /\ Len(proposals) \in Nat /\ AllCount(proposals) /\ proposals \in Seq(Proposal)
    BY DEF IInv, TermOK, CouncilTypeOK, ExecuteReturns
<1>2. Len(executing) \in Nat \ {0}
    BY <1>1, EmptySeq, LenProperties
<1>3. id \in 1 .. Len(proposals) /\ id \in Nat
    BY <1>1, <1>2, ElementOfSeq
<1>4. /\ proposals' = Executed(proposals, id)
      /\ executing' = SubSeq(executing, 1, Len(executing) - 1)
    BY DEF ExecuteReturns
<1>5. /\ executing' \in Seq(1 .. Len(proposals)) /\ Len(executing') = Len(executing) - 1
      /\ \A n \in 1 .. Len(executing) - 1 : executing'[n] = executing[n]
    <2> DEFINE last == Len(executing) - 1
    <2>1. last \in Nat /\ \A n \in 1 .. last : executing[n] \in 1 .. Len(proposals)
        BY <1>1, <1>2, ElementOfSeq
    <2>2. executing' = SubSeq(executing, 1, last)
        BY <1>4
    <2> HIDE DEF last
    <2>3. /\ executing' \in Seq(1 .. Len(proposals)) /\ Len(executing') = last
          /\ \A n \in 1 .. last : executing'[n] = executing[n]
        BY <2>1, <2>2, SubSeqProperties
    <2>4. QED
        BY <2>3 DEF last
<1>6. Counts(q) /\ q.state = "Executed" /\ q.eta = proposals[id].eta
    BY <1>1, <1>3, StateCounts DEF AllCount, ProposalState
<1>7. proposals' = [proposals EXCEPT ![id] = q]
    BY <1>4 DEF Executed
<1> HIDE DEF q
<1>8. q \in Proposal
    BY <1>6 DEF Counts
<1> HIDE DEF id
<1>9. /\ proposals' \in Seq(Proposal) /\ Len(proposals') = Len(proposals)
      /\ proposals'[id] = q
      /\ \A i \in 1 .. Len(proposals) : i # id => proposals'[i] = proposals[i]
    BY <1>1, <1>3, <1>7, <1>8
<1>10. AllCount(proposals')
    BY <1>1, <1>6, <1>9 DEF AllCount
<1>11. QED
    BY <1>2, <1>3, <1>4, <1>5, <1>6, <1>9, <1>10 DEF id, q

\* execute returns.
LEMMA ReturnCalls ==
    ASSUME IInv, ExecuteReturns
    PROVE  IInv'
<1> DEFINE id == executing[Len(executing)]
<1>1. /\ id \in 1 .. Len(proposals) /\ Len(executing) \in Nat \ {0}
      /\ proposals' \in Seq(Proposal) /\ Len(proposals') = Len(proposals)
      /\ proposals'[id].state = "Executed"
      /\ \A i \in 1 .. Len(proposals) : i # id => proposals'[i] = proposals[i]
      /\ AllCount(proposals')
      /\ executing' \in Seq(1 .. Len(proposals)) /\ Len(executing') = Len(executing) - 1
      /\ \A n \in 1 .. Len(executing) - 1 : executing'[n] = executing[n]
    BY Innermost
<1>2. UNCHANGED <<block, term, settings, runs>>
    BY DEF ExecuteReturns
<1>3. ASSUME NEW n \in 1 .. Len(executing')
      PROVE  proposals'[executing'[n]].state \in Calling
    <2>1. n \in 1 .. Len(executing) /\ executing'[n] = executing[n]
        BY <1>1
    <2>2. executing'[n] \in 1 .. Len(proposals)
        BY <1>1, ElementOfSeq
    <2>3. proposals[executing'[n]].state \in Calling
        BY <2>1 DEF IInv, CallsOK
    <2> HIDE DEF id
    <2>4. QED
        BY <1>1, <2>2, <2>3 DEF Calling
<1>4. CallsOK'
    BY <1>3 DEF CallsOK
<1>5. TermOK'
    BY <1>1, <1>2 DEF IInv, TermOK, CouncilTypeOK, TermsMatch, term, settings
<1>6. QED
    BY <1>1, <1>4, <1>5 DEF IInv

-----------------------------------------------------------------------------
(***************************************************************************)
(* The invariant, and what follows from it.                                *)
(***************************************************************************)
\* The first state of the council.
LEMMA InitInvariant ==
    ASSUME CouncilInit
    PROVE  IInv
<1>1. /\ proposals = <<>> /\ proposals \in Seq(Proposal) /\ Len(proposals) = 0
      /\ executing = <<>> /\ executing \in Seq(1 .. Len(proposals)) /\ Len(executing) = 0
      /\ runs \in Seq(Nat) /\ Len(runs) = Len(proposals)
    BY DEF CouncilInit
<1>2. AllCount(proposals) /\ CallsOK
    BY <1>1 DEF AllCount, CallsOK
<1>3. TermOK
    BY <1>1, CouncilAssumption DEF CouncilInit, TermOK, CouncilTypeOK, TermsMatch
<1>4. QED
    BY <1>2, <1>3 DEF IInv

\* No step disturbs the invariant.
LEMMA NextInvariant ==
    ASSUME IInv, [CouncilNext]_councilVars
    PROVE  IInv'
<1>1. CASE NextBlock
    <2>1. block' \in Nat /\ UNCHANGED <<proposals, term, settings, calls>>
        BY <1>1 DEF NextBlock, IInv, TermOK, CouncilTypeOK
    <2>2. QED
        BY <2>1 DEF IInv, TermOK, CouncilTypeOK, TermsMatch, AllCount, CallsOK, term, settings, calls
<1>2. CASE UNCHANGED councilVars
    BY <1>2 DEF councilVars, IInv, TermOK, CouncilTypeOK, TermsMatch, AllCount, CallsOK,
                term, settings, calls
<1>3. QED
    BY <1>1, <1>2, StepOperates, OperatesCalls, ExecuteCalls, ReturnCalls

\* IInv holds in every reachable state.
THEOREM Invariant == CouncilSpec => []IInv
<1>1. CouncilInit => IInv
    BY InitInvariant
<1>2. IInv /\ [CouncilNext]_councilVars => IInv'
    BY NextInvariant
<1>3. QED
    BY <1>1, <1>2, PTL DEF CouncilSpec

\* The accounts with a member's rights are those of the list of members, after
\* any number of terms (startNewTerm).
THEOREM MembersOfTheTerm == CouncilSpec => []TermsMatch
<1>1. IInv => TermsMatch
    BY DEF IInv, TermOK
<1>2. QED
    BY <1>1, Invariant, PTL

\* The ayes of a proposal are as many as the accounts that voted for it (vote).
THEOREM AyesAreVoters == CouncilSpec => []AyesCounted
<1>1. IInv => AyesCounted
    BY DEF IInv, AllCount, Counts, AyesCounted
<1>2. QED
    BY <1>1, Invariant, PTL

-----------------------------------------------------------------------------
(***************************************************************************)
(* The life cycle.                                                         *)
(***************************************************************************)
Stacked(ex, id) == \E n \in DOMAIN ex : ex[n] = id

\* The life of the proposals ps, when ex is under way and rs has run; so that
\* Life can be said of two states.
StandsAt(ps, ex, id) ==
    IF ~Stacked(ex, id) THEN ps[id].state
    ELSE IF ps[id].state = "Queued" THEN "Running" ELSE "Returning"
LifeAt(ps, ex, rs, id) ==
    [state |-> StandsAt(ps, ex, id), eta |-> ps[id].eta, runs |-> rs[id]]
LifeOf(ps, ex, rs) == [id \in DOMAIN ps |-> LifeAt(ps, ex, rs, id)]

\* A life is a sequence, one entry per proposal.
LEMMA LifeEntries ==
    ASSUME NEW ps, AllCount(ps), NEW ex, NEW rs
    PROVE  /\ Len(LifeOf(ps, ex, rs)) = Len(ps) /\ Len(ps) \in Nat
           /\ \A id \in 1 .. Len(ps) : LifeOf(ps, ex, rs)[id] = LifeAt(ps, ex, rs, id)
<1>1. ps \in Seq(Proposal) /\ DOMAIN ps = 1 .. Len(ps) /\ Len(ps) \in Nat
    BY DEF AllCount
<1>2. LifeOf(ps, ex, rs) = [id \in 1 .. Len(ps) |-> LifeAt(ps, ex, rs, id)]
    BY <1>1 DEF LifeOf
<1>3. QED
    BY <1>1, <1>2

\* Steps along the edges are operations of the life cycle.
LEMMA OperationOfLife ==
    ASSUME AllCount(proposals), AllCount(proposals'), block' = block,
           Len(proposals') = Len(proposals) \/
               /\ Len(proposals') = Len(proposals) + 1
               /\ LifeAt(proposals', executing', runs', Len(proposals')) =
                      [state |-> "Pending", eta |-> 0, runs |-> 0],
           \A id \in 1 .. Len(proposals) :
               Lifecycle!Edge(LifeAt(proposals, executing, runs, id),
                              LifeAt(proposals', executing', runs', id))
    PROVE  Lifecycle!Operation
<1> DEFINE old == LifeOf(proposals, executing, runs)
           new == LifeOf(proposals', executing', runs')
<1>1. /\ Len(old) = Len(proposals) /\ Len(proposals) \in Nat
      /\ \A id \in 1 .. Len(proposals) : old[id] = LifeAt(proposals, executing, runs, id)
    BY LifeEntries
<1>2. /\ Len(new) = Len(proposals') /\ Len(proposals') \in Nat
      /\ \A id \in 1 .. Len(proposals') : new[id] = LifeAt(proposals', executing', runs', id)
    BY LifeEntries
<1>3. Life = old /\ Life' = new
    BY DEF Life, LifeOf, LifeAt, StandsAt, Stacked, Standing, OnStack
<1> HIDE DEF old, new
<1>4. \A id \in 1 .. Len(old) : Lifecycle!Edge(old[id], new[id])
    BY <1>1, <1>2
<1>5. \/ Len(new) = Len(old)
      \/ Len(new) = Len(old) + 1 /\ Lifecycle!Created(new[Len(new)])
    <2>1. Len(proposals') = Len(proposals) + 1 => Len(proposals') \in 1 .. Len(proposals')
        BY <1>1, <1>2
    <2>2. QED
        BY <1>1, <1>2, <2>1 DEF Lifecycle!Created
<1>6. QED
    BY <1>3, <1>4, <1>5 DEF Lifecycle!Operation

\* Two lives that agree are equal.
LEMMA SameLife ==
    ASSUME NEW ps, NEW ex, NEW rs, NEW qs, NEW ey, NEW ts, NEW id,
           StandsAt(ps, ex, id) = StandsAt(qs, ey, id), ps[id].eta = qs[id].eta,
           rs[id] = ts[id]
    PROVE  Lifecycle!Edge(LifeAt(ps, ex, rs, id), LifeAt(qs, ey, ts, id))
    BY DEF Lifecycle!Edge, LifeAt

\* An operation that executes nothing moves the proposals along the edges; one
\* that waits for its call can only be canceled.
LEMMA OperatesLife ==
    ASSUME IInv, Operates
    PROVE  Lifecycle!Operation
<1>1. /\ AllCount(proposals) /\ AllCount(proposals') /\ block' = block
      /\ executing' = executing /\ Evolves(proposals, proposals', block)
      /\ Len(proposals) \in Nat /\ runs \in Seq(Nat) /\ Len(runs) = Len(proposals)
      /\ executing \in Seq(1 .. Len(proposals))
      /\ runs' = IF Len(proposals') = Len(proposals) THEN runs ELSE Append(runs, 0)
      /\ DOMAIN executing = 1 .. Len(executing)
    BY LenProperties DEF IInv, TermOK, CouncilTypeOK, Operates, Evolves
<1>2. \/ Len(proposals') = Len(proposals)
      \/ Len(proposals') = Len(proposals) + 1 /\ Opened(proposals'[Len(proposals')])
    BY <1>1 DEF Evolves
<1>3. \A id \in 1 .. Len(proposals) : runs'[id] = runs[id]
    BY <1>1, AppendProperties
<1>4. ASSUME NEW id \in 1 .. Len(proposals)
      PROVE  Lifecycle!Edge(LifeAt(proposals, executing, runs, id),
                            LifeAt(proposals', executing', runs', id))
    <2> DEFINE s == proposals[id].state
               t == proposals'[id].state
               d == proposals[id].eta
               e == proposals'[id].eta
    <2>1. Moves(proposals[id], proposals'[id], block)
        BY <1>1 DEF Evolves
    <2>2. \/ t = s /\ e = d
          \/ s = "Pending" /\ t \in {"Expired", "Canceled"} /\ e = d
          \/ s = "Pending" /\ t = "Queued" /\ e > block
          \/ s = "Queued" /\ t = "Canceled" /\ e = d
        BY <2>1 DEF Moves
    <2> DEFINE old == LifeAt(proposals, executing, runs, id)
               new == LifeAt(proposals', executing', runs', id)
    <2>3. /\ old.state = StandsAt(proposals, executing, id) /\ old.eta = d
          /\ new.state = StandsAt(proposals', executing, id) /\ new.eta = e
          /\ old.runs = runs[id] /\ new.runs = runs[id]
        BY <1>1, <1>3 DEF LifeAt
    <2>4. CASE t = s /\ e = d
        <3>1. StandsAt(proposals, executing, id) = StandsAt(proposals', executing', id)
            BY <1>1, <2>4 DEF StandsAt
        <3>2. QED
            BY <1>3, <2>4, <3>1, SameLife
    <2>5. CASE Stacked(executing, id) /\ ~(t = s /\ e = d)
        <3>1. PICK n \in 1 .. Len(executing) : executing[n] = id
            BY <1>1, <2>5 DEF Stacked
        <3>2. s \in Calling
            BY <3>1 DEF IInv, CallsOK
        <3>3. s = "Queued" /\ t = "Canceled" /\ e = d
            BY <2>2, <2>5, <3>2 DEF Calling
        <3>4. old.state = "Running" /\ new.state = "Returning"
            BY <2>3, <2>5, <3>3 DEF StandsAt
        <3> HIDE DEF old, new
        <3>5. Lifecycle!Edge(old, new)
            BY <2>3, <3>3, <3>4 DEF Lifecycle!Edge
        <3>6. QED
            BY <3>5 DEF old, new
    <2>6. CASE ~Stacked(executing, id) /\ ~(t = s /\ e = d)
        <3>1. old.state = s /\ new.state = t
            BY <2>3, <2>6 DEF StandsAt
        <3> HIDE DEF old, new
        <3>2. Lifecycle!Edge(old, new)
            BY <2>2, <2>3, <2>6, <3>1 DEF Lifecycle!Edge
        <3>3. QED
            BY <3>2 DEF old, new
    <2>7. QED
        BY <2>4, <2>5, <2>6
<1>5. ASSUME Len(proposals') = Len(proposals) + 1
      PROVE  LifeAt(proposals', executing', runs', Len(proposals')) =
                 [state |-> "Pending", eta |-> 0, runs |-> 0]
    <2>1. Opened(proposals'[Len(proposals')]) /\ Len(proposals') # Len(proposals)
        BY <1>1, <1>2, <1>5
    <2>2. runs'[Len(proposals')] = 0
        BY <1>1, <1>5, <2>1, AppendProperties
    <2>3. ~Stacked(executing, Len(proposals'))
        <3>1. \A n \in 1 .. Len(executing) : executing[n] \in 1 .. Len(proposals)
            BY <1>1, ElementOfSeq
        <3>2. QED
            BY <1>1, <1>5, <3>1 DEF Stacked
    <2>4. QED
        BY <1>1, <2>1, <2>2, <2>3 DEF LifeAt, StandsAt, Opened
<1>6. QED
    BY <1>1, <1>2, <1>4, <1>5, OperationOfLife

\* A call begins for a queued proposal, within its window, once more.
LEMMA ExecuteLife ==
    ASSUME IInv, NEW id \in 1 .. Len(proposals), Execute(id)
    PROVE  Lifecycle!Operation
<1>1. /\ AllCount(proposals) /\ Len(proposals) \in Nat
      /\ runs \in Seq(Nat) /\ Len(runs) = Len(proposals)
      /\ executing \in Seq(1 .. Len(proposals))
    BY DEF IInv, TermOK, CouncilTypeOK
<1>2. /\ proposals' = proposals /\ block' = block
      /\ executing' = Append(executing, id) /\ runs' = [runs EXCEPT ![id] = @ + 1]
      /\ proposals[id].state = "Queued"
      /\ proposals[id].eta <= block /\ block <= proposals[id].eta + GracePeriod
    <2>1. proposals[id].eta \in Nat /\ block \in Nat
        BY <1>1 DEF IInv, TermOK, CouncilTypeOK, AllCount, Counts, Proposal
    <2>2. QED
        BY <2>1 DEF Execute, Executable
<1>3. /\ DOMAIN executing = 1 .. Len(executing) /\ Len(executing) \in Nat
      /\ DOMAIN executing' = 1 .. Len(executing) + 1
      /\ executing'[Len(executing) + 1] = id
      /\ \A n \in 1 .. Len(executing) : executing'[n] = executing[n]
    BY <1>1, <1>2, AppendProperties, LenProperties
<1>4. \A n \in 1 .. Len(executing) + 1 : n \in 1 .. Len(executing) \/ n = Len(executing) + 1
    BY <1>3
<1>5. Len(executing) + 1 \in 1 .. Len(executing) + 1
      /\ \A n \in 1 .. Len(executing) : n \in 1 .. Len(executing) + 1
    BY <1>3
<1>6. /\ Stacked(executing', id)
      /\ \A i : i # id => (Stacked(executing', i) <=> Stacked(executing, i))
    BY <1>3, <1>4, <1>5 DEF Stacked
<1>7. /\ runs'[id] = runs[id] + 1
      /\ \A i \in 1 .. Len(proposals) : i # id => runs'[i] = runs[i]
    BY <1>1, <1>2
<1>8. ASSUME NEW i \in 1 .. Len(proposals)
      PROVE  Lifecycle!Edge(LifeAt(proposals, executing, runs, i),
                            LifeAt(proposals', executing', runs', i))
    <2>1. CASE i # id
        <3>1. StandsAt(proposals, executing, i) = StandsAt(proposals', executing', i)
            BY <1>2, <1>6, <2>1 DEF StandsAt
        <3>2. QED
            BY <1>2, <1>7, <2>1, <3>1, SameLife
    <2>2. CASE i = id
        <3> DEFINE old == LifeAt(proposals, executing, runs, i)
                   new == LifeAt(proposals', executing', runs', i)
        <3>1. /\ old.state \in {"Queued", "Running"} /\ new.state = "Running"
              /\ old.eta = proposals[id].eta /\ new.eta = proposals[id].eta
              /\ old.runs = runs[id] /\ new.runs = runs[id] + 1
            BY <1>2, <1>6, <1>7, <2>2 DEF LifeAt, StandsAt
        <3> HIDE DEF old, new
        <3>2. Lifecycle!Edge(old, new)
            BY <1>2, <3>1 DEF Lifecycle!Edge
        <3>3. QED
            BY <3>2 DEF old, new
    <2>3. QED
        BY <2>1, <2>2
<1>9. AllCount(proposals') /\ Len(proposals') = Len(proposals)
    BY <1>1, <1>2
<1>10. QED
    BY <1>1, <1>2, <1>8, <1>9, OperationOfLife

\* A call that returns leaves its proposal executed, and returning as long as
\* another call of it is under way.
LEMMA ReturnLife ==
    ASSUME IInv, ExecuteReturns
    PROVE  Lifecycle!Operation
<1> DEFINE id == executing[Len(executing)]
<1>1. /\ id \in 1 .. Len(proposals) /\ Len(executing) \in Nat \ {0}
      /\ Len(proposals') = Len(proposals)
      /\ proposals'[id].state = "Executed" /\ proposals'[id].eta = proposals[id].eta
      /\ \A i \in 1 .. Len(proposals) : i # id => proposals'[i] = proposals[i]
      /\ AllCount(proposals')
      /\ executing' \in Seq(1 .. Len(proposals)) /\ Len(executing') = Len(executing) - 1
      /\ \A n \in 1 .. Len(executing) - 1 : executing'[n] = executing[n]
    BY Innermost
<1>2. /\ AllCount(proposals) /\ executing \in Seq(1 .. Len(proposals))
      /\ block' = block /\ runs' = runs
    BY DEF IInv, TermOK, CouncilTypeOK, ExecuteReturns
<1>3. DOMAIN executing = 1 .. Len(executing) /\ DOMAIN executing' = 1 .. Len(executing) - 1
    BY <1>1, <1>2, LenProperties
<1>4. \A n \in 1 .. Len(executing) : n \in 1 .. Len(executing) - 1 \/ n = Len(executing)
    BY <1>1
<1>5. Len(executing) \in 1 .. Len(executing)
      /\ \A n \in 1 .. Len(executing) - 1 : n \in 1 .. Len(executing)
    BY <1>1
<1>6. /\ Stacked(executing, id)
      /\ \A i : i # id => (Stacked(executing', i) <=> Stacked(executing, i))
    <2>1. Stacked(executing, id)
        BY <1>3, <1>5 DEF Stacked
    <2>2. ASSUME NEW i, i # id
          PROVE  Stacked(executing', i) <=> Stacked(executing, i)
        BY <1>1, <1>3, <1>4, <1>5, <2>2 DEF Stacked
    <2>3. QED
        BY <2>1, <2>2
<1> HIDE DEF id
<1>7. ASSUME NEW i \in 1 .. Len(proposals)
      PROVE  Lifecycle!Edge(LifeAt(proposals, executing, runs, i),
                            LifeAt(proposals', executing', runs', i))
    <2>1. CASE i # id
        <3>1. StandsAt(proposals, executing, i) = StandsAt(proposals', executing', i)
            BY <1>1, <1>6, <2>1 DEF StandsAt
        <3>2. QED
            BY <1>1, <1>2, <2>1, <3>1, SameLife
    <2>2. CASE i = id
        <3> DEFINE old == LifeAt(proposals, executing, runs, i)
                   new == LifeAt(proposals', executing', runs', i)
        <3>1. /\ old.state \in {"Running", "Returning"}
              /\ new.state \in {"Executed", "Returning"}
              /\ old.eta = new.eta /\ old.runs = new.runs
              /\ old.state = new.state => old = new
            BY <1>1, <1>2, <1>6, <2>2 DEF LifeAt, StandsAt
        <3> HIDE DEF old, new
        <3>2. Lifecycle!Edge(old, new)
            BY <3>1 DEF Lifecycle!Edge
        <3>3. QED
            BY <3>2 DEF old, new
    <2>3. QED
        BY <2>1, <2>2
<1>8. QED
    BY <1>1, <1>2, <1>7, OperationOfLife

\* A block ends when no call is under way.
LEMMA BlockOfLife ==
    ASSUME IInv, NextBlock
    PROVE  Lifecycle!Tick
<1>1. AllCount(proposals) /\ executing = <<>>
    BY DEF IInv, NextBlock
<1>2. /\ Len(LifeOf(proposals, executing, runs)) = Len(proposals)
      /\ \A id \in 1 .. Len(proposals) :
             LifeOf(proposals, executing, runs)[id] = LifeAt(proposals, executing, runs, id)
    BY <1>1, LifeEntries
<1>3. Life = LifeOf(proposals, executing, runs)
    BY DEF Life, LifeOf, LifeAt, StandsAt, Stacked, Standing, OnStack
<1>4. ASSUME NEW id \in 1 .. Len(proposals)
      PROVE  LifeAt(proposals, executing, runs, id).state \notin Lifecycle!UnderWay
    <2>1. ~Stacked(executing, id)
        BY <1>1 DEF Stacked
    <2>2. LifeAt(proposals, executing, runs, id).state = proposals[id].state
        BY <2>1 DEF LifeAt, StandsAt
    <2>3. proposals[id].state \in ProposalState
        BY <1>1 DEF AllCount, Counts, Proposal
    <2>4. QED
        BY <2>2, <2>3 DEF ProposalState, Lifecycle!UnderWay
<1>5. UNCHANGED Life
    BY DEF NextBlock, Life, Standing, OnStack, calls
<1>6. QED
    BY <1>2, <1>3, <1>4, <1>5 DEF NextBlock, Lifecycle!Tick

\* The council implements the life cycle of its proposals, whatever their calls
\* do to the council, executing the proposal itself included (execute).
THEOREM CouncilKeepsLifecycle == CouncilSpec => ProposalsKeepLifecycle
<1>1. CouncilInit => Lifecycle!LifecycleInit
    BY DEF CouncilInit, Life, Lifecycle!LifecycleInit
<1>2. IInv /\ [CouncilNext]_councilVars
          => [Lifecycle!Operation \/ Lifecycle!Tick]_<<block, Life>>
    <2> SUFFICES ASSUME IInv, [CouncilNext]_councilVars
                 PROVE  [Lifecycle!Operation \/ Lifecycle!Tick]_<<block, Life>>
        OBVIOUS
    <2>1. CASE UNCHANGED councilVars
        BY <2>1 DEF councilVars, calls, Life, Standing, OnStack
    <2>2. QED
        BY <2>1, StepOperates, OperatesLife, ExecuteLife, ReturnLife, BlockOfLife
<1>3. QED
    BY <1>1, <1>2, Invariant, PTL DEF CouncilSpec, ProposalsKeepLifecycle, Lifecycle!LifecycleSpec

-----------------------------------------------------------------------------
(***************************************************************************)
(* What the events tell of the proposals.                                  *)
(***************************************************************************)

\* The state an event leaves its proposal in, for the topics that leave one.
StateOf == [ProposalCreated |-> "Pending", ProposalExpired |-> "Expired",
            ProposalQueued |-> "Queued", ProposalExecuted |-> "Executed",
            ProposalCanceled |-> "Canceled"]
Topic == DOMAIN StateOf \cup {"ProposalVoted", "Reform"}

Entry == [block : Nat, topic : Topic, id : Nat, arg : Accounts \cup Nat \cup BOOLEAN]

Sets(e, id) == e.topic \in DOMAIN StateOf /\ e.id = id
Creates(e, id) == e.topic = "ProposalCreated" /\ e.id = id
Queues(e, id) == e.topic = "ProposalQueued" /\ e.id = id
Votes(e, id) == e.topic = "ProposalVoted" /\ e.id = id

\* The state and the date of proposal id after the first n events of l.
StateAt(l, id, n, state) ==
    \E i \in 1 .. n : /\ Sets(l[i], id) /\ state = StateOf[l[i].topic]
                      /\ \A j \in i + 1 .. n : ~Sets(l[j], id)

EtaAt(l, id, n, eta) ==
    \/ eta = 0 /\ \A j \in 1 .. n : ~Queues(l[j], id)
    \/ \E i \in 1 .. n : /\ Queues(l[i], id) /\ eta = l[i].arg
                         /\ \A j \in i + 1 .. n : ~Queues(l[j], id)

VotesAt(l, id, n) == {i \in 1 .. n : Votes(l[i], id)}

InVain(l, id) == \E i \in 1 .. Len(l) : l[i].topic = "ProposalCanceled" /\ l[i].id = id /\ ~l[i].arg

\* The events are in the order of their blocks, and the first of a proposal is
\* its only creation.
LogOK(l, count, now) ==
    /\ l \in Seq(Entry)
    /\ \A i \in 1 .. Len(l) : 1 <= l[i].block /\ l[i].block <= now
    /\ \A i, j \in 1 .. Len(l) : i <= j => l[i].block <= l[j].block
    /\ \A i \in 1 .. Len(l) : l[i].topic = "ProposalQueued" => l[i].arg \in Nat
    /\ \A i \in 1 .. Len(l) : l[i].topic = "Reform" \/
           /\ l[i].id \in 1 .. count
           /\ \E j \in 1 .. i : Creates(l[j], l[i].id)
    /\ \A i, j \in 1 .. Len(l), id \in 1 .. count :
           Creates(l[i], id) /\ Creates(l[j], id) => i = j
    /\ \A id \in 1 .. count : \E i \in 1 .. Len(l) : Creates(l[i], id)

\* The events tell the state of a proposal, its date and its ayes.
Told(l, id, p) ==
    /\ InVain(l, id) \/ StateAt(l, id, Len(l), p.state)
    /\ EtaAt(l, id, Len(l), p.eta)
    /\ Cardinality(VotesAt(l, id, Len(l))) = p.ayes - 1

LogInv(ps, l, now) ==
    /\ now \in Nat \ {0} /\ AllCount(ps) /\ Len(ps) <= MaxProposals
    /\ LogOK(l, Len(ps), now)
    /\ \A id \in 1 .. Len(ps) : Told(l, id, ps[id])

(***************************************************************************)
(* The observer.                                                           *)
(***************************************************************************)
PollInv ==
    /\ phase \in Phase /\ subscribed \in BOOLEAN
    /\ crashes \in 0 .. MaxCrashes /\ errors \in 0 .. MaxErrors
    /\ phase = "failed" => crashes > 0 \/ errors > 0
    /\ delivered \in 0 .. Len(log) /\ target \in Nat
    /\ lastCheckPoint \in Nat /\ savedCheckPoint \in Nat /\ savedCheckPoint < block
    /\ phase # "down" => lastCheckPoint = savedCheckPoint
    /\ phase \in {"events", "processing"} => target \in savedCheckPoint .. block - 1

\* The poll under way has processed the first n events of the log.
Rest(n) == batch = SubSeq(log, n + 1, EventsUntil(target))

Seen(n) ==
    IF phase = "processing"
    THEN n \in EventsUntil(savedCheckPoint) .. EventsUntil(target) /\ Rest(n)
    ELSE n = EventsUntil(savedCheckPoint)

VoteDocs(id) == {i \in 1 .. Len(voterDocs) : voterDocs[i].pid = id}

\* What is stored is the news of the first n events, or newer; and unless a poll
\* failed or a crash came before, it is no more than that.
Stored(n) ==
    /\ voterDocs \in Seq([pid : Nat, voter : Accounts \cup Nat \cup BOOLEAN])
    /\ DOMAIN docs \subseteq 1 .. Len(proposals)
    /\ \A k \in 1 .. Len(voterDocs) : voterDocs[k].pid \in 1 .. Len(proposals)
    /\ \A id \in DOMAIN docs :
           /\ docs[id] = [eta |-> docs[id].eta, state |-> docs[id].state]
           /\ \E m \in n .. Len(log) : StateAt(log, id, m, docs[id].state)
           /\ \E m \in n .. Len(log) : EtaAt(log, id, m, docs[id].eta)
    /\ \A i \in 1 .. n :
           /\ log[i].topic = "ProposalCreated" => log[i].id \in DOMAIN docs
           /\ log[i].topic = "ProposalVoted" =>
                  \E k \in 1 .. Len(voterDocs) :
                      voterDocs[k] = [pid |-> log[i].id, voter |-> log[i].arg]
    /\ crashes = 0 /\ phase # "failed" =>
           /\ \A id \in DOMAIN docs : \E i \in 1 .. n : Creates(log[i], id)
           /\ \A id \in 1 .. Len(proposals) :
                  Cardinality(VoteDocs(id)) = Cardinality(VotesAt(log, id, n))

IndexInv ==
    /\ LogInv(proposals, log, block) /\ PollInv
    /\ \E n \in 0 .. Len(log) : Seen(n) /\ Stored(n)

-----------------------------------------------------------------------------
(***************************************************************************)
(* Logs that grow.                                                         *)
(***************************************************************************)
Grows(l, k) ==
    /\ l \in Seq(Entry) /\ k \in Seq(Entry) /\ Len(l) <= Len(k)
    /\ \A i \in 1 .. Len(l) : k[i] = l[i]

LEMMA Appended ==
    ASSUME NEW l \in Seq(Entry), NEW e \in Entry
    PROVE  /\ Append(l, e) \in Seq(Entry) /\ Len(l) \in Nat
           /\ Len(Append(l, e)) = Len(l) + 1
           /\ \A i \in 1 .. Len(l) : Append(l, e)[i] = l[i]
           /\ Append(l, e)[Len(l) + 1] = e
    BY AppendProperties, LenProperties

\* What the first events tell is not changed by later ones.
LEMMA FirstEvents ==
    ASSUME NEW l, NEW k, Grows(l, k), NEW id, NEW n \in 0 .. Len(l), NEW x
    PROVE  /\ StateAt(k, id, n, x) <=> StateAt(l, id, n, x)
           /\ EtaAt(k, id, n, x) <=> EtaAt(l, id, n, x)
           /\ VotesAt(k, id, n) = VotesAt(l, id, n)
<1>1. Len(l) \in Nat /\ \A i \in 1 .. n : k[i] = l[i]
    BY LenProperties DEF Grows
<1>2. \A i \in 1 .. n : \A j \in i + 1 .. n : j \in 1 .. n
    BY <1>1
<1>3. StateAt(k, id, n, x) <=> StateAt(l, id, n, x)
    BY <1>1, <1>2, Zenon DEF StateAt
<1>4. EtaAt(k, id, n, x) <=> EtaAt(l, id, n, x)
    BY <1>1, <1>2, Zenon DEF EtaAt
<1>5. VotesAt(k, id, n) = VotesAt(l, id, n)
    BY <1>1 DEF VotesAt
<1>6. QED
    BY <1>3, <1>4, <1>5

\* What one more event tells of the state.
LEMMA StateNext ==
    ASSUME NEW l, NEW id, NEW n \in Nat
    PROVE  /\ Sets(l[n + 1], id) => StateAt(l, id, n + 1, StateOf[l[n + 1].topic])
           /\ \A x : ~Sets(l[n + 1], id) /\ StateAt(l, id, n, x) => StateAt(l, id, n + 1, x)
<1>1. Sets(l[n + 1], id) => StateAt(l, id, n + 1, StateOf[l[n + 1].topic])
    <2>1. n + 1 \in 1 .. n + 1 /\ \A j \in (n + 1) + 1 .. n + 1 : FALSE
        OBVIOUS
    <2>2. QED
        BY <2>1, Zenon DEF StateAt
<1>2. ASSUME NEW x, ~Sets(l[n + 1], id), StateAt(l, id, n, x)
      PROVE  StateAt(l, id, n + 1, x)
    <2>1. PICK i \in 1 .. n : /\ Sets(l[i], id) /\ x = StateOf[l[i].topic]
                              /\ \A j \in i + 1 .. n : ~Sets(l[j], id)
        BY <1>2 DEF StateAt
    <2>2. \A j \in i + 1 .. n + 1 : j \in i + 1 .. n \/ j = n + 1
        OBVIOUS
    <2>3. i \in 1 .. n + 1 /\ \A j \in i + 1 .. n + 1 : ~Sets(l[j], id)
        BY <1>2, <2>1, <2>2
    <2>4. QED
        BY <2>1, <2>3, Zenon DEF StateAt
<1>3. QED
    BY <1>1, <1>2

\* And of the date.
LEMMA EtaNext ==
    ASSUME NEW l, NEW id, NEW n \in Nat
    PROVE  /\ Queues(l[n + 1], id) => EtaAt(l, id, n + 1, l[n + 1].arg)
           /\ \A x : ~Queues(l[n + 1], id) /\ EtaAt(l, id, n, x) => EtaAt(l, id, n + 1, x)
<1>1. Queues(l[n + 1], id) => EtaAt(l, id, n + 1, l[n + 1].arg)
    <2>1. n + 1 \in 1 .. n + 1 /\ \A j \in (n + 1) + 1 .. n + 1 : FALSE
        OBVIOUS
    <2>2. QED
        BY <2>1, Zenon DEF EtaAt
<1>2. ASSUME NEW x, ~Queues(l[n + 1], id), EtaAt(l, id, n, x)
      PROVE  EtaAt(l, id, n + 1, x)
    <2>1. CASE x = 0 /\ \A j \in 1 .. n : ~Queues(l[j], id)
        <3>1. \A j \in 1 .. n + 1 : j \in 1 .. n \/ j = n + 1
            OBVIOUS
        <3>2. QED
            BY <1>2, <2>1, <3>1 DEF EtaAt
    <2>2. CASE \E i \in 1 .. n : /\ Queues(l[i], id) /\ x = l[i].arg
                                 /\ \A j \in i + 1 .. n : ~Queues(l[j], id)
        <3>1. PICK i \in 1 .. n : /\ Queues(l[i], id) /\ x = l[i].arg
                                  /\ \A j \in i + 1 .. n : ~Queues(l[j], id)
            BY <2>2
        <3>2. \A j \in i + 1 .. n + 1 : j \in i + 1 .. n \/ j = n + 1
            OBVIOUS
        <3>3. i \in 1 .. n + 1 /\ \A j \in i + 1 .. n + 1 : ~Queues(l[j], id)
            BY <1>2, <3>1, <3>2
        <3>4. QED
            BY <3>1, <3>3, Zenon DEF EtaAt
    <2>3. QED
        BY <1>2, <2>1, <2>2 DEF EtaAt
<1>3. QED
    BY <1>1, <1>2

\* And of the votes.
LEMMA VotesNext ==
    ASSUME NEW l, NEW id, NEW n \in Nat
    PROVE  /\ IsFiniteSet(VotesAt(l, id, n))
           /\ Cardinality(VotesAt(l, id, n)) \in Nat
           /\ Cardinality(VotesAt(l, id, n + 1)) =
                  Cardinality(VotesAt(l, id, n)) + IF Votes(l[n + 1], id) THEN 1 ELSE 0
<1>1. IsFiniteSet(1 .. n) /\ VotesAt(l, id, n) \subseteq 1 .. n
    BY FS_Interval DEF VotesAt
<1>2. IsFiniteSet(VotesAt(l, id, n)) /\ n + 1 \notin VotesAt(l, id, n)
    BY <1>1, FS_Subset
<1>3. VotesAt(l, id, n + 1) =
          IF Votes(l[n + 1], id) THEN VotesAt(l, id, n) \cup {n + 1} ELSE VotesAt(l, id, n)
    <2>1. 1 .. n + 1 = (1 .. n) \cup {n + 1}
        OBVIOUS
    <2>2. QED
        BY <2>1 DEF VotesAt
<1>4. QED
    BY <1>2, <1>3, FS_AddElement, FS_CardinalityType

\* The state and the date that are told are unambiguous.
LEMMA ToldOnce ==
    ASSUME NEW l, NEW id, NEW n \in Nat, NEW x, NEW y
    PROVE  /\ StateAt(l, id, n, x) /\ StateAt(l, id, n, y) => x = y
           /\ EtaAt(l, id, n, x) /\ EtaAt(l, id, n, y) => x = y
<1>1. ASSUME NEW i \in 1 .. n, NEW j \in 1 .. n
      PROVE  i \in j + 1 .. n \/ j \in i + 1 .. n \/ i = j
    OBVIOUS
<1>2. QED
    BY <1>1 DEF StateAt, EtaAt

-----------------------------------------------------------------------------
(***************************************************************************)
(* The log of the council tells its proposals.  A transaction is one or    *)
(* two changes of the proposals, with an event each.                       *)
(***************************************************************************)

\* A change of the proposals ps, and the event that tells it.
Effect(ps, e, qs) ==
    /\ AllCount(qs) /\ Len(qs) <= MaxProposals
    /\ \/ /\ Creates(e, Len(ps) + 1) /\ Len(qs) = Len(ps) + 1
          /\ qs[Len(qs)].state = "Pending" /\ qs[Len(qs)].eta = 0 /\ qs[Len(qs)].ayes = 1
       \/ /\ e.topic # "ProposalCreated" /\ Len(qs) = Len(ps)
          /\ e.topic = "Reform" \/ e.id \in 1 .. Len(ps)
    /\ e.topic = "ProposalQueued" => e.arg \in Nat
    /\ \A id \in 1 .. Len(ps) :
           /\ IF Sets(e, id)
              THEN qs[id].state = StateOf[e.topic] \/ (e.topic = "ProposalCanceled" /\ ~e.arg)
              ELSE qs[id].state = ps[id].state
           /\ qs[id].eta = IF Queues(e, id) THEN e.arg ELSE ps[id].eta
           /\ qs[id].ayes = ps[id].ayes + IF Votes(e, id) THEN 1 ELSE 0

LEMMA LogGrows ==
    ASSUME NEW l, NEW count \in Nat, NEW now \in Nat \ {0}, LogOK(l, count, now),
           NEW e \in Entry, e.block = now, e.topic = "ProposalQueued" => e.arg \in Nat,
           NEW more \in Nat,
           \/ Creates(e, count + 1) /\ more = count + 1
           \/ /\ e.topic # "ProposalCreated" /\ more = count
              /\ e.topic = "Reform" \/ e.id \in 1 .. count
    PROVE  LogOK(Append(l, e), more, now)
<1> DEFINE k == Append(l, e)
           n == Len(l)
<1>1. /\ l \in Seq(Entry) /\ k \in Seq(Entry) /\ n \in Nat /\ Len(k) = n + 1
      /\ \A i \in 1 .. n : k[i] = l[i]
      /\ k[n + 1] = e
    BY Appended DEF LogOK
<1>2. \A i \in 1 .. n : l[i] \in Entry
    BY <1>1, ElementOfSeq
<1> HIDE DEF k, n
<1>3. \A i \in 1 .. n + 1 : i \in 1 .. n \/ i = n + 1
    BY <1>1
<1>4. \A i \in 1 .. n + 1 : 1 <= k[i].block /\ k[i].block <= now
    BY <1>1, <1>3 DEF LogOK, n
<1>5. \A i, j \in 1 .. n + 1 : i <= j => k[i].block <= k[j].block
    <2> SUFFICES ASSUME NEW i \in 1 .. n + 1, NEW j \in 1 .. n + 1, i <= j
                 PROVE  k[i].block <= k[j].block
        OBVIOUS
    <2>1. CASE j = n + 1
        BY <1>1, <1>4, <2>1
    <2>2. CASE j \in 1 .. n
        <3>1. i \in 1 .. n
            BY <1>1, <2>2
        <3>2. QED
            BY <1>1, <2>2, <3>1 DEF LogOK, n
    <2>3. QED
        BY <1>3, <2>1, <2>2
<1>6. \A i \in 1 .. n + 1 : k[i].topic = "ProposalQueued" => k[i].arg \in Nat
    BY <1>1, <1>3 DEF LogOK, n
<1>7. ASSUME NEW i \in 1 .. n + 1, k[i].topic # "Reform"
      PROVE  k[i].id \in 1 .. more /\ \E j \in 1 .. i : Creates(k[j], k[i].id)
    <2>1. ASSUME NEW id \in 1 .. count PROVE \E j \in 1 .. n : Creates(k[j], id)
        BY <1>1 DEF LogOK, n
    <2>2. CASE i \in 1 .. n
        <3>1. k[i] = l[i] /\ k[i].id \in 1 .. count
            BY <1>1, <1>7, <2>2 DEF LogOK, n
        <3>2. PICK j \in 1 .. i : Creates(l[j], l[i].id)
            BY <1>1, <1>7, <2>2, <3>1 DEF LogOK, n
        <3>3. j \in 1 .. n
            BY <1>1, <2>2
        <3>4. Creates(k[j], k[i].id)
            BY <1>1, <3>1, <3>2, <3>3
        <3>5. QED
            BY <3>1, <3>4
    <2>3. CASE i = n + 1
        <3>1. CASE Creates(e, count + 1)
            BY <1>1, <2>3, <3>1 DEF Creates
        <3>2. CASE ~Creates(e, count + 1)
            <4>1. e.id \in 1 .. count /\ more = count
                BY <1>1, <1>7, <2>3, <3>2
            <4>2. PICK j \in 1 .. n : Creates(k[j], e.id)
                BY <2>1, <4>1
            <4>3. QED
                BY <1>1, <2>3, <4>1, <4>2
        <3>3. QED
            BY <3>1, <3>2
    <2>4. QED
        BY <1>3, <2>2, <2>3
<1>8. ASSUME NEW i \in 1 .. n + 1, NEW j \in 1 .. n + 1, NEW id \in 1 .. more,
             Creates(k[i], id), Creates(k[j], id)
      PROVE  i = j
    <2>1. CASE i \in 1 .. n /\ j \in 1 .. n
        <3>1. Creates(l[i], id) /\ Creates(l[j], id) /\ id \in 1 .. count
            BY <1>1, <1>8, <2>1 DEF LogOK, Creates, n
        <3>2. QED
            BY <2>1, <3>1 DEF LogOK, n
    <2>2. ASSUME NEW p \in 1 .. n, Creates(k[p], id), Creates(e, id) PROVE FALSE
        <3>1. id \in 1 .. count
            BY <1>1, <2>2 DEF LogOK, Creates, n
        <3>2. QED
            BY <2>2, <3>1 DEF Creates
    <2>3. QED
        BY <1>1, <1>3, <1>8, <2>1, <2>2
<1>9. ASSUME NEW id \in 1 .. more PROVE \E i \in 1 .. n + 1 : Creates(k[i], id)
    <2>1. CASE id \in 1 .. count
        <3>1. PICK i \in 1 .. n : Creates(l[i], id)
            BY <2>1 DEF LogOK, n
        <3>2. QED
            BY <1>1, <3>1
    <2>2. CASE id \notin 1 .. count
        <3>1. id = count + 1 /\ Creates(e, id)
            BY <2>2
        <3>2. QED
            BY <1>1, <3>1
    <2>3. QED
        BY <2>1, <2>2
<1>10. LogOK(k, more, now)
    BY <1>1, <1>4, <1>5, <1>6, <1>7, <1>8, <1>9 DEF LogOK
<1>11. QED
    BY <1>10 DEF k

LEMMA EffectTold ==
    ASSUME NEW ps, NEW l, NEW now \in Nat \ {0}, LogInv(ps, l, now),
           NEW e \in Entry, e.block = now, NEW qs, Effect(ps, e, qs)
    PROVE  LogInv(qs, Append(l, e), now)
<1> DEFINE k == Append(l, e)
           n == Len(l)
<1>1. /\ l \in Seq(Entry) /\ k \in Seq(Entry) /\ n \in Nat /\ Len(k) = n + 1
      /\ \A i \in 1 .. n : k[i] = l[i]
      /\ k[n + 1] = e
    BY Appended DEF LogInv, LogOK
<1>2. Grows(l, k)
    BY <1>1 DEF Grows
<1>3. Len(ps) \in Nat /\ Len(qs) \in Nat
    BY DEF LogInv, Effect, AllCount
<1>4. LogOK(k, Len(qs), now)
    <2>1. \/ Creates(e, Len(ps) + 1) /\ Len(qs) = Len(ps) + 1
          \/ /\ e.topic # "ProposalCreated" /\ Len(qs) = Len(ps)
             /\ e.topic = "Reform" \/ e.id \in 1 .. Len(ps)
        BY DEF Effect
    <2>2. (e.topic = "ProposalQueued" => e.arg \in Nat) /\ LogOK(l, Len(ps), now)
        BY DEF Effect, LogInv
    <2>3. QED
        BY <1>3, <2>1, <2>2, LogGrows
<1> HIDE DEF k
<1>5. ASSUME NEW id \in 1 .. Len(ps)
      PROVE  Told(k, id, qs[id])
    <2>1. Told(l, id, ps[id])
        BY DEF LogInv
    <2>2. InVain(k, id) \/ StateAt(k, id, n + 1, qs[id].state)
        <3>1. CASE InVain(l, id)
            <4>1. PICK i \in 1 .. n : l[i].topic = "ProposalCanceled" /\ l[i].id = id /\ ~l[i].arg
                BY <3>1 DEF InVain
            <4>2. i \in 1 .. Len(k) /\ k[i] = l[i]
                BY <1>1
            <4>3. QED
                BY <4>1, <4>2 DEF InVain
        <3>2. CASE Sets(e, id)
            <4>1. CASE e.topic = "ProposalCanceled" /\ ~e.arg
                BY <1>1, <3>2, <4>1 DEF InVain, Sets
            <4>2. CASE qs[id].state = StateOf[e.topic]
                BY <1>1, <3>2, <4>2, StateNext
            <4>3. QED
                BY <3>2, <4>1, <4>2 DEF Effect
        <3>3. CASE ~Sets(e, id) /\ ~InVain(l, id)
            <4>1. StateAt(k, id, n, ps[id].state)
                BY <1>1, <1>2, <2>1, <3>3, FirstEvents DEF Told
            <4>2. StateAt(k, id, n + 1, ps[id].state)
                BY <1>1, <3>3, <4>1, StateNext
            <4>3. QED
                BY <3>3, <4>2 DEF Effect
        <3>4. QED
            BY <3>1, <3>2, <3>3
    <2>3. EtaAt(k, id, n + 1, qs[id].eta)
        <3>1. EtaAt(k, id, n, ps[id].eta)
            BY <1>1, <1>2, <2>1, FirstEvents DEF Told
        <3>2. qs[id].eta = IF Queues(e, id) THEN e.arg ELSE ps[id].eta
            BY DEF Effect
        <3>3. QED
            BY <1>1, <3>1, <3>2, EtaNext
    <2>4. Cardinality(VotesAt(k, id, n + 1)) = qs[id].ayes - 1
        <3>1. VotesAt(k, id, n) = VotesAt(l, id, n)
            BY <1>1, <1>2, FirstEvents
        <3>2. Cardinality(VotesAt(k, id, n)) = ps[id].ayes - 1
            BY <2>1, <3>1 DEF Told
        <3>3. qs[id].ayes = ps[id].ayes + IF Votes(e, id) THEN 1 ELSE 0
            BY DEF Effect
        <3>4. Cardinality(VotesAt(k, id, n + 1)) =
                  Cardinality(VotesAt(k, id, n)) + IF Votes(e, id) THEN 1 ELSE 0
            BY <1>1, VotesNext
        <3>5. ps[id].ayes \in Nat
            BY DEF LogInv, AllCount, Counts, Proposal
        <3>6. QED
            BY <3>2, <3>3, <3>4, <3>5
    <2>5. QED
        BY <1>1, <2>2, <2>3, <2>4 DEF Told
<1>6. ASSUME NEW id, Creates(e, id), id = Len(ps) + 1, Len(qs) = id
      PROVE  Told(k, id, qs[id])
    <2>1. qs[id].state = "Pending" /\ qs[id].eta = 0 /\ qs[id].ayes = 1
        BY <1>3, <1>6 DEF Effect, Creates
    <2>2. \A i \in 1 .. n + 1 : ~Queues(k[i], id) /\ ~Votes(k[i], id)
        <3>1. \A i \in 1 .. n : l[i].topic = "Reform" \/ l[i].id # id
            BY <1>3, <1>6 DEF LogInv, LogOK
        <3>2. \A i \in 1 .. n + 1 : i \in 1 .. n \/ i = n + 1
            BY <1>1
        <3>3. QED
            BY <1>1, <1>6, <3>1, <3>2 DEF Queues, Votes, Creates
    <2>3. StateAt(k, id, n + 1, "Pending")
        BY <1>1, <1>6, StateNext DEF Sets, Creates, StateOf
    <2>4. EtaAt(k, id, n + 1, 0)
        BY <2>2 DEF EtaAt
    <2>5. VotesAt(k, id, n + 1) = {}
        BY <2>2 DEF VotesAt
    <2>6. Cardinality(VotesAt(k, id, n + 1)) = 0
        BY <2>5, FS_EmptySet
    <2>7. QED
        BY <1>1, <2>1, <2>3, <2>4, <2>6 DEF Told
<1>7. ASSUME NEW id \in 1 .. Len(qs)
      PROVE  Told(k, id, qs[id])
    <2>1. id \in 1 .. Len(ps) \/ (Creates(e, id) /\ id = Len(ps) + 1 /\ Len(qs) = id)
        BY <1>3 DEF Effect, Creates
    <2>2. QED
        BY <1>5, <1>6, <2>1
<1>8. LogInv(qs, k, now)
    BY <1>4, <1>7 DEF LogInv, Effect
<1>9. QED
    BY <1>8 DEF k

-----------------------------------------------------------------------------
(***************************************************************************)
(* Every transaction adds the events that tell it to the log.              *)
(***************************************************************************)
Advances ==
    /\ LogInv(proposals', log', block')
    /\ Grows(log, log') /\ \A i \in Len(log) + 1 .. Len(log') : log'[i].block = block
    /\ block <= block' /\ Len(proposals) <= Len(proposals')

LEMMA Topics ==
    /\ {"ProposalCreated", "ProposalExpired", "ProposalQueued", "ProposalExecuted",
         "ProposalCanceled", "ProposalVoted", "Reform"} \subseteq Topic
    /\ {"ProposalExpired", "ProposalQueued", "ProposalExecuted", "ProposalCanceled"}
           \subseteq DOMAIN StateOf
    /\ "ProposalVoted" \notin DOMAIN StateOf /\ "Reform" \notin DOMAIN StateOf
    /\ StateOf["ProposalExpired"] = "Expired" /\ StateOf["ProposalQueued"] = "Queued"
    /\ StateOf["ProposalExecuted"] = "Executed" /\ StateOf["ProposalCanceled"] = "Canceled"
    BY DEF Topic, StateOf

LEMMA EventEntry ==
    ASSUME block \in Nat, NEW topic \in Topic, NEW id \in Nat,
           NEW arg \in Accounts \cup Nat \cup BOOLEAN
    PROVE  /\ Event(topic, id, arg) \in Entry
           /\ Event(topic, id, arg).block = block /\ Event(topic, id, arg).topic = topic
           /\ Event(topic, id, arg).id = id /\ Event(topic, id, arg).arg = arg
    BY DEF Event, Entry

LEMMA OneEvent ==
    ASSUME LogInv(proposals, log, block), NEW e \in Entry, e.block = block,
           log' = log \o <<e>>, Effect(proposals, e, proposals'), block' = block
    PROVE  Advances
<1>1. log \in Seq(Entry) /\ block \in Nat \ {0}
    BY DEF LogInv, LogOK
<1>2. log' = Append(log, e)
    BY <1>1, AppendIsConcat
<1>3. LogInv(proposals', log', block)
    BY <1>1, <1>2, EffectTold
<1>4. Grows(log, log') /\ \A i \in Len(log) + 1 .. Len(log') : log'[i].block = block
    BY <1>1, <1>2, Appended DEF Grows
<1>5. Len(proposals) <= Len(proposals')
    BY DEF Effect, LogInv, AllCount
<1>6. block <= block' /\ LogInv(proposals', log', block')
    BY <1>1, <1>3
<1>7. QED
    BY <1>4, <1>5, <1>6 DEF Advances

LEMMA TwoEvents ==
    ASSUME LogInv(proposals, log, block), NEW d \in Entry, d.block = block,
           NEW e \in Entry, e.block = block, log' = log \o <<d, e>>, block' = block,
           NEW ps, Effect(proposals, d, ps), Effect(ps, e, proposals')
    PROVE  Advances
<1>1. log \in Seq(Entry) /\ block \in Nat \ {0} /\ Len(log) \in Nat
    BY LenProperties DEF LogInv, LogOK
<1> DEFINE mid == Append(log, d)
<1>2. /\ mid \in Seq(Entry) /\ Len(mid) = Len(log) + 1
      /\ \A i \in 1 .. Len(log) : mid[i] = log[i]
      /\ mid[Len(log) + 1] = d
    BY <1>1, Appended
<1>3. log' = Append(mid, e)
    BY <1>1
<1>4. LogInv(ps, mid, block)
    BY <1>1, EffectTold
<1> HIDE DEF mid
<1>5. LogInv(proposals', log', block)
    BY <1>1, <1>3, <1>4, EffectTold
<1>6. /\ log' \in Seq(Entry) /\ Len(log') = Len(log) + 2
      /\ \A i \in 1 .. Len(log) : log'[i] = log[i]
      /\ log'[Len(log) + 1] = d /\ log'[Len(log) + 2] = e
    BY <1>1, <1>2, <1>3, Appended
<1>7. Grows(log, log') /\ \A i \in Len(log) + 1 .. Len(log') : log'[i].block = block
    BY <1>1, <1>6 DEF Grows
<1>8. Len(proposals) <= Len(proposals')
    BY DEF Effect, LogInv, AllCount
<1>9. QED
    BY <1>1, <1>5, <1>7, <1>8 DEF Advances

LEMMA NoEvent ==
    ASSUME LogInv(proposals, log, block), UNCHANGED <<proposals, log>>,
           block' = block \/ block' = block + 1
    PROVE  Advances
<1>1. log \in Seq(Entry) /\ block \in Nat \ {0} /\ Len(log) \in Nat /\ Len(proposals) \in Nat
    BY LenProperties DEF LogInv, LogOK, AllCount
<1>2. Grows(log, log') /\ \A i \in Len(log) + 1 .. Len(log') : log'[i].block = block
    BY <1>1 DEF Grows
<1>3. LogOK(log, Len(proposals), block')
    <2>1. \A i \in 1 .. Len(log) : log[i].block \in Nat
        <3>1. \A i \in 1 .. Len(log) : log[i] \in Entry
            BY <1>1, ElementOfSeq
        <3>2. QED
            BY <3>1 DEF Entry
    <2>2. QED
        BY <1>1, <2>1 DEF LogInv, LogOK
<1>4. QED
    BY <1>1, <1>2, <1>3 DEF Advances, LogInv

\* One proposal changes in the way an event tells.
LEMMA OneEffect ==
    ASSUME NEW ps, AllCount(ps), Len(ps) <= MaxProposals, NEW id \in 1 .. Len(ps),
           NEW q, Counts(q), NEW e \in Entry, e.id = id,
           e.topic # "ProposalCreated", e.topic # "Reform",
           IF e.topic \in DOMAIN StateOf
           THEN q.state = StateOf[e.topic] \/ (e.topic = "ProposalCanceled" /\ ~e.arg)
           ELSE q.state = ps[id].state,
           q.eta = IF e.topic = "ProposalQueued" THEN e.arg ELSE ps[id].eta,
           e.topic = "ProposalQueued" => e.arg \in Nat,
           q.ayes = ps[id].ayes + IF e.topic = "ProposalVoted" THEN 1 ELSE 0
    PROVE  Effect(ps, e, [ps EXCEPT ![id] = q])
<1> DEFINE qs == [ps EXCEPT ![id] = q]
<1>1. ps \in Seq(Proposal) /\ q \in Proposal
    BY DEF AllCount, Counts
<1>2. /\ qs \in Seq(Proposal) /\ Len(qs) = Len(ps)
      /\ \A i \in 1 .. Len(ps) : qs[i] = IF i = id THEN q ELSE ps[i]
    BY <1>1, ExceptSeq
<1> HIDE DEF qs
<1>3. AllCount(qs)
    BY <1>2 DEF AllCount
<1>4. ASSUME NEW i \in 1 .. Len(ps)
      PROVE  /\ IF Sets(e, i)
                THEN qs[i].state = StateOf[e.topic] \/ (e.topic = "ProposalCanceled" /\ ~e.arg)
                ELSE qs[i].state = ps[i].state
             /\ qs[i].eta = IF Queues(e, i) THEN e.arg ELSE ps[i].eta
             /\ qs[i].ayes = ps[i].ayes + IF Votes(e, i) THEN 1 ELSE 0
    <2>1. ps[i].ayes \in Nat
        BY DEF AllCount, Counts, Proposal
    <2>2. CASE i = id
        BY <1>2, <2>2 DEF Sets, Queues, Votes
    <2>3. CASE i # id
        BY <1>2, <2>1, <2>3 DEF Sets, Queues, Votes
    <2>4. QED
        BY <2>2, <2>3
<1>5. Effect(ps, e, qs)
    BY <1>2, <1>3, <1>4 DEF Effect
<1>6. QED
    BY <1>5 DEF qs

\* One that ends proposal id,
LEMMA EndEffect ==
    ASSUME NEW ps, AllCount(ps), Len(ps) <= MaxProposals, NEW id \in 1 .. Len(ps),
           NEW q, Counts(q), NEW e \in Entry, e.id = id,
           e.topic \in {"ProposalExpired", "ProposalExecuted", "ProposalCanceled"},
           q.state = StateOf[e.topic], q.eta = ps[id].eta, q.ayes = ps[id].ayes
    PROVE  Effect(ps, e, [ps EXCEPT ![id] = q])
<1>1. /\ e.topic # "ProposalCreated" /\ e.topic # "Reform" /\ e.topic # "ProposalQueued"
      /\ e.topic # "ProposalVoted" /\ e.topic \in DOMAIN StateOf
    BY DEF StateOf
<1>2. ps[id].ayes \in Nat
    BY DEF AllCount, Counts, Proposal
<1>3. IF e.topic \in DOMAIN StateOf
      THEN q.state = StateOf[e.topic] \/ (e.topic = "ProposalCanceled" /\ ~e.arg)
      ELSE q.state = ps[id].state
    BY <1>1
<1>4. q.eta = IF e.topic = "ProposalQueued" THEN e.arg ELSE ps[id].eta
    BY <1>1
<1>5. q.ayes = ps[id].ayes + IF e.topic = "ProposalVoted" THEN 1 ELSE 0
    BY <1>1, <1>2
<1>6. QED
    BY <1>1, <1>3, <1>4, <1>5, OneEffect

\* one that counts an aye,
LEMMA AyeEffect ==
    ASSUME NEW ps, AllCount(ps), Len(ps) <= MaxProposals, NEW id \in 1 .. Len(ps),
           NEW q, Counts(q), NEW e \in Entry, e.id = id, e.topic = "ProposalVoted",
           q.state = ps[id].state, q.eta = ps[id].eta, q.ayes = ps[id].ayes + 1
    PROVE  Effect(ps, e, [ps EXCEPT ![id] = q])
<1>1. e.topic \notin DOMAIN StateOf
    BY DEF StateOf
<1>2. IF e.topic \in DOMAIN StateOf
      THEN q.state = StateOf[e.topic] \/ (e.topic = "ProposalCanceled" /\ ~e.arg)
      ELSE q.state = ps[id].state
    BY <1>1
<1>3. QED
    BY <1>2, OneEffect

\* and one that queues it.
LEMMA QueueEffect ==
    ASSUME NEW ps, AllCount(ps), Len(ps) <= MaxProposals, NEW id \in 1 .. Len(ps),
           NEW q, Counts(q), NEW e \in Entry, e.id = id, e.topic = "ProposalQueued",
           e.arg \in Nat, q.state = "Queued", q.eta = e.arg, q.ayes = ps[id].ayes
    PROVE  Effect(ps, e, [ps EXCEPT ![id] = q])
<1>1. e.topic \in DOMAIN StateOf /\ StateOf[e.topic] = "Queued"
    BY DEF StateOf
<1>2. ps[id].ayes \in Nat
    BY DEF AllCount, Counts, Proposal
<1>3. IF e.topic \in DOMAIN StateOf
      THEN q.state = StateOf[e.topic] \/ (e.topic = "ProposalCanceled" /\ ~e.arg)
      ELSE q.state = ps[id].state
    BY <1>1
<1>4. q.ayes = ps[id].ayes + IF e.topic = "ProposalVoted" THEN 1 ELSE 0
    BY <1>2
<1>5. QED
    BY <1>3, <1>4, OneEffect

\* A reform changes no proposal.
LEMMA NoEffect ==
    ASSUME NEW ps, AllCount(ps), Len(ps) <= MaxProposals, NEW e, e.topic = "Reform"
    PROVE  Effect(ps, e, ps)
<1>1. \A i \in 1 .. Len(ps) : ps[i].ayes \in Nat
    BY DEF AllCount, Counts, Proposal
<1>2. QED
    BY <1>1 DEF Effect, Sets, Queues, Votes, StateOf

\* propose
LEMMA ProposeTold ==
    ASSUME IInv, LogInv(proposals, log, block), NEW sender \in Accounts,
           NEW delay \in Nat, NEW period \in Nat, Propose(sender, delay, period)
    PROVE  Advances
<1> DEFINE q == [proposer |-> sender, startBlock |-> block + delay,
                 endBlock |-> block + delay + period, eta |-> 0,
                 ayes |-> 1, voters |-> {sender}, state |-> "Pending"]
           e == Event("ProposalCreated", Len(proposals) + 1, sender)
<1>1. /\ block \in Nat /\ block' = block
      /\ AllCount(proposals) /\ proposals \in Seq(Proposal) /\ Len(proposals) \in Nat
    BY DEF IInv, TermOK, CouncilTypeOK, AllCount, Propose
<1>2. proposals' = Append(proposals, q) /\ log' = log \o <<e>>
    BY DEF Propose, Emit
<1>3. /\ e \in Entry /\ e.block = block /\ e.topic = "ProposalCreated"
      /\ e.id = Len(proposals) + 1
    <2> HIDE DEF q
    <2>1. /\ Len(proposals) + 1 \in Nat /\ sender \in Accounts \cup Nat \cup BOOLEAN
          /\ "ProposalCreated" \in Topic
        BY <1>1, Topics
    <2>2. QED
        BY <1>1, <2>1, EventEntry
<1> HIDE DEF e
<1>4. q \in Proposal /\ q.state = "Pending" /\ q.eta = 0 /\ q.ayes = 1
    BY <1>1 DEF Proposal, ProposalState
<1> HIDE DEF q
<1>5. /\ Len(proposals') = Len(proposals) + 1 /\ proposals'[Len(proposals')] = q
      /\ \A id \in 1 .. Len(proposals) : proposals'[id] = proposals[id]
    BY <1>1, <1>2, <1>4
<1>6. AllCount(proposals')
    BY ProposeEvolves DEF Evolves
<1>7. \A id \in 1 .. Len(proposals) : proposals[id].ayes \in Nat
    BY <1>1 DEF AllCount, Counts, Proposal
<1>8. Len(proposals') <= MaxProposals
    BY <1>1, <1>5, CouncilAssumption DEF Propose
<1>9. \A id \in 1 .. Len(proposals) : e.id # id
    BY <1>1, <1>3
<1>10. Effect(proposals, e, proposals')
    BY <1>3, <1>4, <1>5, <1>6, <1>7, <1>8, <1>9 DEF Effect, Creates, Sets, Queues, Votes
<1>11. QED
    BY <1>1, <1>2, <1>3, <1>10, OneEvent

\* vote: an aye may be followed by the queue.
LEMMA VoteTold ==
    ASSUME IInv, LogInv(proposals, log, block), NEW sender \in Accounts,
           NEW id \in 1 .. Len(proposals), Vote(sender, id)
    PROVE  Advances
<1>1. /\ block \in Nat /\ executionDelay \in Nat \ {0} /\ block' = block
      /\ AllCount(proposals) /\ Counts(proposals[id]) /\ Len(proposals) <= MaxProposals
      /\ id \in Nat /\ proposals[id].proposer \in Accounts
      /\ proposals[id].ayes \in Nat
    <2>1. block \in Nat /\ executionDelay \in Nat \ {0} /\ block' = block /\ AllCount(proposals)
        BY DEF IInv, TermOK, CouncilTypeOK, Vote
    <2>2. Len(proposals) <= MaxProposals /\ Len(proposals) \in Nat
        BY <2>1, LenProperties DEF LogInv, AllCount
    <2>3. Counts(proposals[id])
        BY <2>1 DEF AllCount
    <2>4. proposals[id].proposer \in Accounts /\ proposals[id].ayes \in Nat
        BY <2>3 DEF Counts, Proposal
    <2>5. QED
        BY <2>1, <2>2, <2>3, <2>4
<1>2. sender \notin proposals[id].voters
    BY DEF Vote
<1>3. CASE VoteTooLate(id)
    <2> DEFINE q == [proposals[id] EXCEPT !.state = "Expired"]
               e == Event("ProposalExpired", id, 0)
    <2>1. proposals' = [proposals EXCEPT ![id] = q] /\ log' = log \o <<e>>
        BY <1>3 DEF VoteTooLate, Emit
    <2>2. Counts(q) /\ q.state = "Expired" /\ q.eta = proposals[id].eta
        BY <1>1, StateCounts DEF ProposalState
    <2>3. q.ayes = proposals[id].ayes
        BY <1>1 DEF Counts, Proposal
    <2>4. e \in Entry /\ e.block = block /\ e.topic = "ProposalExpired" /\ e.id = id
        BY <1>1, EventEntry, Topics
    <2> HIDE DEF q, e
    <2>5. Effect(proposals, e, proposals')
        BY <1>1, <2>1, <2>2, <2>3, <2>4, EndEffect, Topics
    <2>6. QED
        BY <1>1, <2>1, <2>4, <2>5, OneEvent
<1>4. CASE VoteAye(sender, id)
    <2> DEFINE voted == Voted(proposals[id], sender)
               eta == block + executionDelay
               ps == [proposals EXCEPT ![id] = voted]
               d == Event("ProposalVoted", id, proposals[id].proposer)
               e == Event("ProposalQueued", id, eta)
    <2>1. \/ /\ proposals' = [proposals EXCEPT ![id] = Queued(voted, eta)]
             /\ log' = log \o <<d, e>>
          \/ proposals' = ps /\ log' = log \o <<d>>
        BY <1>4 DEF VoteAye, Emit, Voted, Queued
    <2>2. /\ Counts(voted)
          /\ voted.state = proposals[id].state /\ voted.eta = proposals[id].eta
        BY <1>1, <1>2, AyeCounts
    <2>3. voted.ayes = proposals[id].ayes + 1 /\ voted.ayes \in Nat
        BY <1>1 DEF Voted, Counts, Proposal
    <2>4. /\ d \in Entry /\ d.block = block /\ d.topic = "ProposalVoted" /\ d.id = id
          /\ e \in Entry /\ e.block = block /\ e.topic = "ProposalQueued" /\ e.id = id
          /\ e.arg = eta /\ eta \in Nat
        <3>1. eta \in Nat /\ eta \in Accounts \cup Nat \cup BOOLEAN
            BY <1>1
        <3> HIDE DEF eta
        <3>2. d \in Entry /\ d.block = block /\ d.topic = "ProposalVoted" /\ d.id = id
            <4> DEFINE who == proposals[id].proposer
            <4>1. who \in Accounts \cup Nat \cup BOOLEAN
                BY <1>1
            <4> HIDE DEF who
            <4>2. d = Event("ProposalVoted", id, who)
                BY DEF who
            <4> HIDE DEF d
            <4>3. QED
                BY <1>1, <4>1, <4>2, EventEntry, Topics
        <3>3. /\ e \in Entry /\ e.block = block /\ e.topic = "ProposalQueued" /\ e.id = id
              /\ e.arg = eta
            BY <1>1, <3>1, EventEntry, Topics
        <3>4. QED
            BY <3>1, <3>2, <3>3
    <2>5. Counts(Queued(voted, eta)) /\ Queued(voted, eta).state = "Queued"
          /\ Queued(voted, eta).eta = eta
        BY <2>2, <2>4, QueuedCounts
    <2>6. Queued(voted, eta).ayes = voted.ayes
        BY <2>2 DEF Queued, Counts, Proposal
    <2> DEFINE queued == Queued(voted, eta)
    <2>7. proposals' = [proposals EXCEPT ![id] = queued] /\ log' = log \o <<d, e>>
          => proposals' = [ps EXCEPT ![id] = queued]
        <3> HIDE DEF voted, queued
        <3>1. proposals \in Seq(Proposal) /\ DOMAIN proposals = 1 .. Len(proposals)
            BY <1>1 DEF AllCount
        <3>2. QED
            BY <3>1
    <2> HIDE DEF voted, eta, queued, d, e
    <2>8. Effect(proposals, d, ps)
        BY <1>1, <2>2, <2>3, <2>4, AyeEffect
    <2>9. AllCount(ps) /\ Len(ps) = Len(proposals) /\ ps[id] = voted
        BY <1>1, <2>2, <2>8, ExceptSeq DEF Effect, AllCount, Counts
    <2> HIDE DEF ps
    <2>10. Effect(ps, e, [ps EXCEPT ![id] = queued])
        BY <1>1, <2>3, <2>4, <2>5, <2>6, <2>9, QueueEffect DEF queued
    <2>11. CASE proposals' = ps /\ log' = log \o <<d>>
        BY <1>1, <2>4, <2>8, <2>11, OneEvent
    <2>12. CASE proposals' = [proposals EXCEPT ![id] = queued] /\ log' = log \o <<d, e>>
        BY <1>1, <2>4, <2>7, <2>8, <2>10, <2>12, TwoEvents
    <2>13. QED
        BY <2>1, <2>11, <2>12 DEF queued
<1>5. QED
    BY <1>3, <1>4 DEF Vote

\* A cancellation tells what it did, if anything.
LEMMA CancelEffect ==
    ASSUME IInv, LogInv(proposals, log, block), NEW id \in 1 .. Len(proposals)
    PROVE  /\ CancelEvent(id) \in Entry /\ CancelEvent(id).block = block
           /\ Effect(proposals, CancelEvent(id), Canceled(proposals, id))
<1> DEFINE q == [proposals[id] EXCEPT !.state = "Canceled"]
           e == CancelEvent(id)
<1>1. /\ block \in Nat /\ id \in Nat
      /\ AllCount(proposals) /\ Counts(proposals[id]) /\ Len(proposals) <= MaxProposals
      /\ proposals[id].ayes \in Nat
    <2>1. block \in Nat /\ AllCount(proposals)
        BY DEF IInv, TermOK, CouncilTypeOK
    <2>2. Len(proposals) <= MaxProposals /\ Len(proposals) \in Nat
        BY <2>1, LenProperties DEF LogInv, AllCount
    <2>3. Counts(proposals[id])
        BY <2>1 DEF AllCount
    <2>4. proposals[id].ayes \in Nat
        BY <2>3 DEF Counts, Proposal
    <2>5. QED
        BY <2>1, <2>2, <2>3, <2>4
<1>2. Cancelable(proposals[id]) \in BOOLEAN
    BY DEF Cancelable
<1>3. /\ e \in Entry /\ e.block = block /\ e.topic = "ProposalCanceled" /\ e.id = id
      /\ e.arg = Cancelable(proposals[id])
    BY <1>1, <1>2, EventEntry, Topics DEF CancelEvent
<1>4. CASE Cancelable(proposals[id])
    <2>1. Counts(q) /\ q.state = "Canceled" /\ q.eta = proposals[id].eta
        BY <1>1, StateCounts DEF ProposalState
    <2>2. q.ayes = proposals[id].ayes
        BY <1>1 DEF Counts, Proposal
    <2>3. Canceled(proposals, id) = [proposals EXCEPT ![id] = q]
        BY <1>4 DEF Canceled
    <2> HIDE DEF q, e
    <2>4. Effect(proposals, e, [proposals EXCEPT ![id] = q])
        BY <1>1, <1>3, <2>1, <2>2, EndEffect, Topics
    <2>5. QED
        BY <1>3, <2>3, <2>4 DEF e
<1>5. CASE ~Cancelable(proposals[id])
    <2>1. Canceled(proposals, id) = proposals /\ ~e.arg
        BY <1>3, <1>5 DEF Canceled
    <2>2. \A i \in 1 .. Len(proposals) : proposals[i].ayes \in Nat
        BY <1>1 DEF AllCount, Counts, Proposal
    <2> HIDE DEF e
    <2>3. Effect(proposals, e, proposals)
        BY <1>1, <1>3, <2>1, <2>2 DEF Effect, Sets, Queues, Votes, StateOf
    <2>4. QED
        BY <1>3, <2>1, <2>3 DEF e
<1>6. QED
    BY <1>4, <1>5

\* An execution is told when its call returns.
LEMMA ExecuteEffect ==
    ASSUME block \in Nat, NEW ps, AllCount(ps), Len(ps) <= MaxProposals, NEW id \in 1 .. Len(ps)
    PROVE  /\ ExecuteEvent(id) \in Entry /\ ExecuteEvent(id).block = block
           /\ Effect(ps, ExecuteEvent(id), Executed(ps, id))
<1> DEFINE q == [ps[id] EXCEPT !.state = "Executed"]
           e == ExecuteEvent(id)
<1>1. id \in Nat /\ Counts(ps[id]) /\ ps[id].ayes \in Nat
    BY DEF AllCount, Counts, Proposal
<1>2. e \in Entry /\ e.block = block /\ e.topic = "ProposalExecuted" /\ e.id = id
    BY <1>1, EventEntry, Topics DEF ExecuteEvent
<1>3. Counts(q) /\ q.state = "Executed" /\ q.eta = ps[id].eta
    BY <1>1, StateCounts DEF ProposalState
<1>4. q.ayes = ps[id].ayes
    BY <1>1 DEF Counts, Proposal
<1>5. Executed(ps, id) = [ps EXCEPT ![id] = q]
    BY DEF Executed
<1> HIDE DEF q, e
<1>6. Effect(ps, e, [ps EXCEPT ![id] = q])
    BY <1>1, <1>2, <1>3, <1>4, EndEffect, Topics
<1>7. QED
    BY <1>2, <1>5, <1>6 DEF e

\* execute returns.
LEMMA ReturnTold ==
    ASSUME IInv, LogInv(proposals, log, block), ExecuteReturns
    PROVE  Advances
<1> DEFINE id == executing[Len(executing)]
           e == ExecuteEvent(id)
<1>1. block \in Nat /\ block' = block /\ AllCount(proposals) /\ Len(proposals) <= MaxProposals
    BY DEF IInv, TermOK, CouncilTypeOK, LogInv, ExecuteReturns
<1>2. id \in 1 .. Len(proposals) /\ proposals' = Executed(proposals, id)
    BY Innermost
<1>3. log' = log \o <<e>>
    BY DEF ExecuteReturns
<1> HIDE DEF id
<1>4. e \in Entry /\ e.block = block /\ Effect(proposals, e, Executed(proposals, id))
    BY <1>1, <1>2, ExecuteEffect
<1> HIDE DEF e
<1>5. QED
    BY <1>1, <1>2, <1>3, <1>4, OneEvent

\* Every step of the council.
LEMMA CouncilAdvances ==
    ASSUME IInv, LogInv(proposals, log, block), [CouncilNext]_councilVars
    PROVE  Advances
<1>1. /\ AllCount(proposals) /\ Len(proposals) <= MaxProposals
      /\ DOMAIN proposals = 1 .. Len(proposals) /\ block \in Nat
    BY DEF IInv, TermOK, CouncilTypeOK, AllCount, LogInv
<1>2. ASSUME NEW sender \in Proposers, NEW delay \in Delays, NEW period \in Periods,
             Propose(sender, delay, period)
      PROVE  Advances
    <2>1. sender \in Accounts /\ delay \in Nat /\ period \in Nat
        BY CouncilAssumption
    <2>2. QED
        BY <1>2, <2>1, ProposeTold
<1>3. ASSUME NEW sender \in Accounts, NEW id \in DOMAIN proposals, Vote(sender, id)
      PROVE  Advances
    BY <1>1, <1>3, VoteTold
<1>4. ASSUME NEW sender \in Accounts, NEW id \in DOMAIN proposals, Cancel(sender, id)
      PROVE  Advances
    BY <1>1, <1>4, CancelEffect, OneEvent DEF Cancel, Emit
<1>5. ASSUME NEW sender \in Accounts, Govern(sender)
      PROVE  Advances
    <2> DEFINE d == Event("Reform", 0, 0)
    <2>1. d \in Entry /\ d.block = block /\ d.topic = "Reform"
        BY <1>1, EventEntry, Topics
    <2>2. Effect(proposals, d, proposals)
        BY <1>1, <2>1, NoEffect
    <2>3. proposals' = proposals /\ block' = block /\ log' = log \o <<d>>
        BY <1>5 DEF Govern, Emit
    <2> HIDE DEF d
    <2>4. QED
        BY <2>1, <2>2, <2>3, OneEvent
<1>6. ASSUME NEW id \in DOMAIN proposals, Execute(id)
      PROVE  Advances
    BY <1>6, NoEvent DEF Execute
<1>7. CASE NextBlock
    BY <1>7, NoEvent DEF NextBlock
<1>8. CASE UNCHANGED councilVars
    BY <1>8, NoEvent DEF councilVars
<1>9. QED
    BY <1>2, <1>3, <1>4, <1>5, <1>6, <1>7, <1>8, ReturnTold DEF CouncilNext

LEMMA InitTold ==
    ASSUME CouncilInit
    PROVE  LogInv(proposals, log, block)
<1>1. /\ log = <<>> /\ log \in Seq(Entry) /\ Len(log) = 0 /\ proposals = <<>>
      /\ Len(proposals) = 0 /\ block = 1 /\ AllCount(proposals)
    BY InitInvariant DEF CouncilInit, IInv
<1>2. LogOK(log, 0, 1)
    BY <1>1 DEF LogOK
<1>3. QED
    BY <1>1, <1>2, CouncilAssumption DEF LogInv

-----------------------------------------------------------------------------
(***************************************************************************)
(* The events of the blocks up to one.                                     *)
(***************************************************************************)
LEMMA EventsCounted ==
    ASSUME LogInv(proposals, log, block), NEW b \in Int
    PROVE  /\ EventsUntil(b) \in 0 .. Len(log) /\ Len(log) \in Nat
           /\ \A i \in 1 .. Len(log) : log[i].block <= b <=> i <= EventsUntil(b)
<1> DEFINE S == {i \in DOMAIN log : log[i].block <= b}
<1>1. log \in Seq(Entry) /\ Len(log) \in Nat /\ DOMAIN log = 1 .. Len(log)
    BY LenProperties DEF LogInv, LogOK
<1>2. \A i \in 1 .. Len(log) : log[i].block \in Nat
    <2>1. \A i \in 1 .. Len(log) : log[i] \in Entry
        BY <1>1, ElementOfSeq
    <2>2. QED
        BY <2>1 DEF Entry
<1>3. S \subseteq 1 .. Len(log)
    BY <1>1
<1>4. \A i, j \in 1 .. Len(log) : i < j /\ j \in S => i \in S
    <2> SUFFICES ASSUME NEW i \in 1 .. Len(log), NEW j \in 1 .. Len(log), i < j, j \in S
                 PROVE  i \in S
        OBVIOUS
    <2>1. log[i].block <= log[j].block
        BY DEF LogInv, LogOK
    <2>2. QED
        BY <1>1, <1>2, <2>1
<1>5. EventsUntil(b) = Cardinality(S)
    BY DEF EventsUntil
<1>6. \A i \in 1 .. Len(log) : i \in S <=> log[i].block <= b
    BY <1>1
<1> HIDE DEF S
<1>7. EventsUntil(b) \in 0 .. Len(log) /\ S = 1 .. EventsUntil(b)
    BY <1>1, <1>3, <1>4, <1>5, Prefix
<1>8. QED
    BY <1>1, <1>6, <1>7

LEMMA EventsInOrder ==
    ASSUME LogInv(proposals, log, block), NEW a \in Int, NEW b \in Int, a <= b
    PROVE  EventsUntil(a) <= EventsUntil(b)
<1>1. EventsUntil(a) \in 0 .. Len(log) /\ EventsUntil(b) \in 0 .. Len(log) /\ Len(log) \in Nat
    BY EventsCounted
<1>2. SUFFICES ASSUME EventsUntil(a) > EventsUntil(b) PROVE FALSE
    BY <1>1
<1> DEFINE i == EventsUntil(a)
<1>3. i \in 1 .. Len(log)
    BY <1>1, <1>2
<1>4. log[i].block <= a /\ ~ (log[i].block <= b)
    <2>1. i <= EventsUntil(a) /\ ~ (i <= EventsUntil(b))
        BY <1>1, <1>2
    <2> HIDE DEF i
    <2>2. QED
        BY <1>3, <2>1, EventsCounted
<1>5. log[i].block \in Nat
    <2>1. log[i] \in Entry
        BY <1>3, ElementOfSeq DEF LogInv, LogOK
    <2>2. QED
        BY <2>1 DEF Entry
<1>6. QED
    BY <1>4, <1>5

\* The events of blocks that are over stay the same.
LEMMA EventsKept ==
    ASSUME LogInv(proposals, log, block), Advances, NEW b \in Int, b < block
    PROVE  EventsUntil(b)' = EventsUntil(b)
<1>1. /\ log \in Seq(Entry) /\ Len(log) \in Nat /\ DOMAIN log = 1 .. Len(log)
      /\ log' \in Seq(Entry) /\ Len(log') \in Nat /\ DOMAIN log' = 1 .. Len(log')
      /\ Len(log) <= Len(log') /\ \A i \in 1 .. Len(log) : log'[i] = log[i]
      /\ block \in Nat
    BY LenProperties DEF LogInv, LogOK, Advances, Grows
<1>2. \A i \in DOMAIN log' : i \in DOMAIN log \/ log'[i].block = block
    BY <1>1 DEF Advances
<1>3. {i \in DOMAIN log' : log'[i].block <= b} = {i \in DOMAIN log : log[i].block <= b}
    BY <1>1, <1>2
<1>4. QED
    BY <1>3 DEF EventsUntil

LEMMA PollKept ==
    ASSUME LogInv(proposals, log, block), Advances, NEW m \in Nat, NEW n \in 0 .. Len(log)
    PROVE  SubSeq(log', m + 1, n) = SubSeq(log, m + 1, n)
<1>1. /\ log \in Seq(Entry) /\ log' \in Seq(Entry) /\ Len(log) \in Nat
      /\ \A i \in 1 .. Len(log) : log'[i] = log[i] /\ log[i] \in Entry
    BY LenProperties, ElementOfSeq DEF LogInv, LogOK, Advances, Grows
<1> DEFINE f == m + 1
           s == SubSeq(log, f, n)
           t == SubSeq(log', f, n)
<1>2. f \in Nat \ {0} /\ n \in Nat
    BY <1>1
<1> HIDE DEF f
<1>3. \A i \in f .. n : log'[i] = log[i] /\ log[i] \in Entry /\ log'[i] \in Entry
    BY <1>1, <1>2
<1>4. /\ s \in Seq(Entry) /\ Len(s) = (IF f <= n THEN n - f + 1 ELSE 0)
      /\ \A i \in 1 .. n - f + 1 : s[i] = log[f + i - 1]
    BY <1>2, <1>3, SubSeqProperties
<1>5. /\ t \in Seq(Entry) /\ Len(t) = (IF f <= n THEN n - f + 1 ELSE 0)
      /\ \A i \in 1 .. n - f + 1 : t[i] = log'[f + i - 1]
    BY <1>2, <1>3, SubSeqProperties
<1> HIDE DEF s, t
<1>6. \A i \in 1 .. Len(s) : s[i] = t[i]
    BY <1>2, <1>3, <1>4, <1>5
<1>7. s = t
    BY <1>4, <1>5, <1>6, SeqEqual
<1>8. QED
    BY <1>7 DEF s, t, f

-----------------------------------------------------------------------------
(***************************************************************************)
(* Steps of the council and of the observer's polls leave the store alone. *)
(***************************************************************************)
LEMMA IndexFacts ==
    ASSUME IndexInv
    PROVE  /\ LogInv(proposals, log, block) /\ PollInv
           /\ block \in Nat \ {0} /\ log \in Seq(Entry) /\ Len(log) \in Nat
           /\ Len(proposals) \in Nat /\ savedCheckPoint \in Nat /\ target \in Nat
           /\ savedCheckPoint < block
           /\ EventsUntil(savedCheckPoint) \in 0 .. Len(log)
           /\ EventsUntil(target) \in 0 .. Len(log)
<1>1. LogInv(proposals, log, block) /\ PollInv
    BY DEF IndexInv
<1>2. savedCheckPoint \in Nat /\ target \in Nat /\ savedCheckPoint < block
    BY <1>1 DEF PollInv
<1>3. block \in Nat \ {0} /\ log \in Seq(Entry) /\ Len(log) \in Nat /\ Len(proposals) \in Nat
    BY <1>1, LenProperties DEF LogInv, LogOK, AllCount
<1>4. savedCheckPoint \in Int /\ target \in Int
    BY <1>2
<1>5. /\ EventsUntil(savedCheckPoint) \in 0 .. Len(log)
      /\ EventsUntil(target) \in 0 .. Len(log)
    BY <1>1, <1>4, EventsCounted, Zenon
<1>6. QED
    BY <1>1, <1>2, <1>3, <1>5

\* What is stored is still stored, and tells as much, when only the log grows.
LEMMA StoredKept ==
    ASSUME LogInv(proposals, log, block), Advances, NEW n \in 0 .. Len(log), Stored(n),
           UNCHANGED <<store, phase, crashes>>
    PROVE  Stored(n)'
<1>1. /\ Len(log) \in Nat /\ Len(log') \in Nat /\ Len(log) <= Len(log') /\ Grows(log, log')
      /\ \A i \in 1 .. Len(log) : log'[i] = log[i]
      /\ Len(proposals) \in Nat /\ Len(proposals') \in Nat /\ Len(proposals) <= Len(proposals')
    BY LenProperties DEF LogInv, LogOK, Advances, Grows, AllCount
<1>2. UNCHANGED <<docs, voterDocs>>
    BY DEF store
<1>3. \A m \in n .. Len(log) : \A id, x :
          /\ StateAt(log, id, m, x) => StateAt(log', id, m, x)
          /\ EtaAt(log, id, m, x) => EtaAt(log', id, m, x)
    <2> TAKE m \in n .. Len(log)
    <2> TAKE id, x
    <2>1. m \in 0 .. Len(log)
        BY <1>1
    <2>2. QED
        BY <1>1, <2>1, FirstEvents
<1>4. \A id : VotesAt(log', id, n) = VotesAt(log, id, n)
    BY <1>1, FirstEvents
<1>5. \A m \in n .. Len(log) : m \in n .. Len(log')
    BY <1>1
<1>6. ASSUME NEW id \in DOMAIN docs
      PROVE  /\ docs[id] = [eta |-> docs[id].eta, state |-> docs[id].state]
             /\ \E m \in n .. Len(log') : StateAt(log', id, m, docs[id].state)
             /\ \E m \in n .. Len(log') : EtaAt(log', id, m, docs[id].eta)
    <2>1. /\ docs[id] = [eta |-> docs[id].eta, state |-> docs[id].state]
          /\ \E m \in n .. Len(log) : StateAt(log, id, m, docs[id].state)
          /\ \E m \in n .. Len(log) : EtaAt(log, id, m, docs[id].eta)
        BY DEF Stored
    <2>2. QED
        BY <1>3, <1>5, <2>1
<1>7. \A i \in 1 .. n : i \in 1 .. Len(log) /\ log'[i] = log[i]
    BY <1>1
<1>8. ASSUME crashes = 0, phase # "failed", NEW id \in 1 .. Len(proposals')
      PROVE  Cardinality(VoteDocs(id)) = Cardinality(VotesAt(log', id, n))
    <2>1. CASE id \in 1 .. Len(proposals)
        BY <1>4, <1>8, <2>1 DEF Stored
    <2>2. CASE id \notin 1 .. Len(proposals)
        <3>1. VoteDocs(id) = {}
            BY <2>2 DEF Stored, VoteDocs
        <3>2. \A i \in 1 .. n : log[i].topic = "Reform" \/ log[i].id # id
            BY <1>7, <2>2 DEF LogInv, LogOK
        <3>3. VotesAt(log, id, n) = {}
            BY <3>2 DEF VotesAt, Votes
        <3>4. QED
            BY <1>4, <3>1, <3>3
    <2>3. QED
        BY <2>1, <2>2
<1>9. \A id : VoteDocs(id)' = VoteDocs(id)
    BY <1>2 DEF VoteDocs
<1>10. DOMAIN docs \subseteq 1 .. Len(proposals')
       /\ \A k \in 1 .. Len(voterDocs) : voterDocs[k].pid \in 1 .. Len(proposals')
    BY <1>1 DEF Stored
<1>11. \A i \in 1 .. n :
           /\ log'[i].topic = "ProposalCreated" => log'[i].id \in DOMAIN docs
           /\ log'[i].topic = "ProposalVoted" =>
                  \E k \in 1 .. Len(voterDocs) :
                      voterDocs[k] = [pid |-> log'[i].id, voter |-> log'[i].arg]
    BY <1>7 DEF Stored
<1>12. crashes = 0 /\ phase # "failed" =>
           \A id \in DOMAIN docs : \E i \in 1 .. n : Creates(log'[i], id)
    BY <1>7 DEF Stored
<1>13. QED
    BY <1>2, <1>6, <1>8, <1>9, <1>10, <1>11, <1>12 DEF Stored

\* Arithmetic of a block below a bound that grows.
LEMMA Between ==
    ASSUME NEW a \in Int, NEW b \in Int, NEW c \in Int, b <= c, NEW x \in a .. b - 1
    PROVE  x \in a .. c - 1
    OBVIOUS

LEMMA CouncilIndexed ==
    ASSUME IndexInv, Advances, UNCHANGED observerVars
    PROVE  IndexInv'
<1>1. PICK n \in 0 .. Len(log) : Seen(n) /\ Stored(n)
    BY DEF IndexInv
<1>2. /\ LogInv(proposals, log, block) /\ PollInv
      /\ block \in Nat \ {0} /\ Len(log) \in Nat
      /\ savedCheckPoint \in Nat /\ target \in Nat /\ savedCheckPoint < block
      /\ EventsUntil(savedCheckPoint) \in 0 .. Len(log)
      /\ EventsUntil(target) \in 0 .. Len(log)
    BY IndexFacts
<1>3. LogInv(proposals', log', block') /\ block' \in Nat \ {0} /\ Len(log') \in Nat
      /\ block <= block' /\ Len(log) <= Len(log')
    BY LenProperties DEF Advances, LogInv, LogOK, Grows
<1>4. UNCHANGED <<store, phase, crashes, errors, batch, target, lastCheckPoint, savedCheckPoint,
                  subscribed, delivered>>
    BY DEF observerVars, checkpoints, poll, subscription, faults
<1>5. PollInv'
    <2>1. delivered' \in 0 .. Len(log') /\ savedCheckPoint' < block'
        BY <1>2, <1>3, <1>4 DEF PollInv
    <2>2. phase' \in {"events", "processing"} => target' \in savedCheckPoint' .. block' - 1
        <3>1. SUFFICES ASSUME phase \in {"events", "processing"}
                       PROVE  target \in savedCheckPoint .. block' - 1
            BY <1>4
        <3>2. target \in savedCheckPoint .. block - 1
            BY <1>2, <3>1 DEF PollInv
        <3>3. block \in Nat /\ block' \in Nat
            BY <1>2, <1>3
        <3>4. QED
            <4>1. target <= block - 1 /\ savedCheckPoint <= target
                BY <1>2, <3>2
            <4>2. target \in Int /\ block \in Int /\ block' \in Int /\ savedCheckPoint \in Int
                BY <1>2, <3>3
            <4>3. block <= block'
                BY <1>3
            <4>4. QED
                BY <3>2, <4>2, <4>3, Between, Zenon
    <2>3. QED
        BY <1>2, <1>4, <2>1, <2>2 DEF PollInv
<1>6. Stored(n)'
    BY <1>1, <1>2, <1>4, StoredKept
<1>7. Seen(n)'
    <2>1. EventsUntil(savedCheckPoint)' = EventsUntil(savedCheckPoint)
        BY <1>2, <1>4, EventsKept
    <2>2. CASE phase = "processing"
        <3>1. target < block
            BY <1>2, <2>2 DEF PollInv
        <3>2. EventsUntil(target)' = EventsUntil(target)
            BY <1>2, <1>4, <3>1, EventsKept
        <3>3. SubSeq(log', n + 1, EventsUntil(target)) = SubSeq(log, n + 1, EventsUntil(target))
            <4>1. n \in Nat
                BY <1>2
            <4>2. QED
                BY <1>2, <4>1, PollKept
        <3>4. QED
            BY <1>1, <1>4, <2>1, <2>2, <3>2, <3>3 DEF Seen, Rest
    <2>3. CASE phase # "processing"
        BY <1>1, <1>4, <2>1, <2>3 DEF Seen
    <2>4. QED
        BY <2>2, <2>3
<1>8. n \in 0 .. Len(log')
    BY <1>2, <1>3
<1>9. QED
    BY <1>3, <1>5, <1>6, <1>7, <1>8 DEF IndexInv

-----------------------------------------------------------------------------
(***************************************************************************)
(* Steps of the observer.                                                  *)
(***************************************************************************)
\* What is stored tells no less of fewer events, once a crash excuses more.
LEMMA StoredEarlier ==
    ASSUME Len(log) \in Nat, NEW n \in 0 .. Len(log), Stored(n), NEW k \in 0 .. n,
           crashes' # 0 \/ phase' = "failed", UNCHANGED <<store, councilVars>>
    PROVE  Stored(k)'
<1>1. UNCHANGED <<docs, voterDocs, log, proposals>>
    BY DEF store, councilVars
<1>2. /\ \A m \in n .. Len(log) : m \in k .. Len(log)
      /\ \A i \in 1 .. k : i \in 1 .. n
    OBVIOUS
<1>3. ASSUME NEW id \in DOMAIN docs
      PROVE  /\ docs[id] = [eta |-> docs[id].eta, state |-> docs[id].state]
             /\ \E m \in k .. Len(log) : StateAt(log, id, m, docs[id].state)
             /\ \E m \in k .. Len(log) : EtaAt(log, id, m, docs[id].eta)
    BY <1>2 DEF Stored
<1>4. /\ voterDocs \in Seq([pid : Nat, voter : Accounts \cup Nat \cup BOOLEAN])
      /\ DOMAIN docs \subseteq 1 .. Len(proposals)
      /\ \A i \in 1 .. Len(voterDocs) : voterDocs[i].pid \in 1 .. Len(proposals)
      /\ \A i \in 1 .. k :
             /\ log[i].topic = "ProposalCreated" => log[i].id \in DOMAIN docs
             /\ log[i].topic = "ProposalVoted" =>
                    \E j \in 1 .. Len(voterDocs) :
                        voterDocs[j] = [pid |-> log[i].id, voter |-> log[i].arg]
    BY <1>2 DEF Stored
<1>5. QED
    BY <1>1, <1>3, <1>4 DEF Stored

\* The event a poll processes.
LEMMA EventPolled ==
    ASSUME IndexInv, NEW n \in 0 .. Len(log), Seen(n), phase = "processing", batch # <<>>
    PROVE  /\ n \in Nat /\ n + 1 \in 1 .. Len(log) /\ n + 1 <= EventsUntil(target)
           /\ n + 1 \in EventsUntil(savedCheckPoint) .. EventsUntil(target)
           /\ Head(batch) = log[n + 1] /\ log[n + 1] \in Entry
           /\ Tail(batch) = SubSeq(log, n + 2, EventsUntil(target))
<1> DEFINE f == n + 1
           t == EventsUntil(target)
<1>1. /\ log \in Seq(Entry) /\ Len(log) \in Nat /\ t \in 0 .. Len(log)
      /\ EventsUntil(savedCheckPoint) \in 0 .. Len(log)
    BY IndexFacts
<1>2. batch = SubSeq(log, f, t) /\ EventsUntil(savedCheckPoint) <= n
    BY <1>1 DEF Seen, Rest
<1>3. n \in Nat /\ f \in Nat /\ f \in Int /\ t \in Int /\ f = n + 1 /\ f + 1 = n + 2
    BY <1>1
<1>4. f <= t
    <2> HIDE DEF f, t
    <2>1. SUFFICES ASSUME t < f PROVE FALSE
        BY <1>3
    <2>2. QED
        BY <1>2, <1>3, <2>1, SubSeqEmpty
<1>5. f \in 1 .. Len(log) /\ t \in f .. Len(log)
    BY <1>1, <1>3, <1>4
<1>6. Head(batch) = log[f] /\ Tail(batch) = SubSeq(log, f + 1, t)
    <2> HIDE DEF f, t
    <2>1. QED
        BY <1>1, <1>2, <1>5, HeadTailOfSubSeq
<1>7. log[f] \in Entry
    <2> HIDE DEF f
    <2>1. QED
        BY <1>1, <1>5, ElementOfSeq
<1>8. f \in EventsUntil(savedCheckPoint) .. t
    BY <1>1, <1>2, <1>3, <1>4
<1>9. QED
    BY <1>3, <1>4, <1>5, <1>6, <1>7, <1>8

\* What the observer makes of an event, whatever it is.
Makes(e) ==
    CASE e.topic = "ProposalCreated" -> Put(e.id, [eta |-> 0, state |-> "Pending"])
      [] e.topic = "ProposalExpired" -> Update(e.id, "Expired")
      [] e.topic = "ProposalQueued" ->
             IF e.id \in DOMAIN docs THEN Put(e.id, [eta |-> e.arg, state |-> "Queued"]) ELSE docs
      [] e.topic = "ProposalExecuted" -> Update(e.id, "Executed")
      [] e.topic = "ProposalCanceled" -> Update(e.id, "Canceled")
      [] OTHER -> docs

LEMMA DocsMade ==
    ASSUME NEW e \in Entry,
           \A id \in DOMAIN docs : docs[id] = [eta |-> docs[id].eta, state |-> docs[id].state],
           e.topic \in DOMAIN StateOf => e.topic = "ProposalCreated" \/ e.id \in DOMAIN docs
    PROVE  LET d == Makes(e)
               eta == IF e.topic = "ProposalCreated" THEN 0
                      ELSE IF e.topic = "ProposalQueued" THEN e.arg ELSE docs[e.id].eta
           IN  /\ e.topic \notin DOMAIN StateOf => d = docs
               /\ e.topic \in DOMAIN StateOf =>
                      /\ DOMAIN d = DOMAIN docs \cup {e.id}
                      /\ \A id \in DOMAIN docs : id # e.id => d[id] = docs[id]
                      /\ d[e.id] = [eta |-> eta, state |-> StateOf[e.topic]]
<1>1. CASE e.topic = "ProposalCreated"
    BY <1>1 DEF Makes, Put, StateOf
<1>2. CASE e.topic = "ProposalQueued"
    BY <1>2 DEF Makes, Put, StateOf
<1>3. CASE e.topic = "ProposalExpired"
    BY <1>3 DEF Makes, Update, Put, StateOf
<1>4. CASE e.topic = "ProposalExecuted"
    BY <1>4 DEF Makes, Update, Put, StateOf
<1>5. CASE e.topic = "ProposalCanceled"
    BY <1>5 DEF Makes, Update, Put, StateOf
<1>6. CASE e.topic \notin DOMAIN StateOf
    BY <1>6 DEF Makes, StateOf
<1>7. QED
    BY <1>1, <1>2, <1>3, <1>4, <1>5, <1>6 DEF StateOf

\* What the log says of an event: what it is about was created before it, and once.
LEMMA EventKnown ==
    ASSUME LogInv(proposals, log, block), NEW i \in 1 .. Len(log), log[i].topic # "Reform"
    PROVE  /\ log[i].id \in 1 .. Len(proposals)
           /\ \E j \in 1 .. i : Creates(log[j], log[i].id)
           /\ log[i].topic = "ProposalCreated" =>
                  \A j \in 1 .. i : ~Queues(log[j], log[i].id)
<1>1. /\ log[i].id \in 1 .. Len(proposals)
      /\ \E j \in 1 .. i : Creates(log[j], log[i].id)
      /\ Len(log) \in Nat
    BY LenProperties DEF LogInv, LogOK
<1>2. ASSUME log[i].topic = "ProposalCreated", NEW j \in 1 .. i, Queues(log[j], log[i].id)
      PROVE  FALSE
    <2>1. j \in 1 .. Len(log) /\ log[j].topic = "ProposalQueued" /\ log[j].id = log[i].id
        BY <1>1, <1>2 DEF Queues
    <2>2. PICK h \in 1 .. j : Creates(log[h], log[i].id)
        BY <2>1 DEF LogInv, LogOK
    <2>3. h \in 1 .. Len(log) /\ Creates(log[i], log[i].id)
        BY <1>1, <1>2, <2>1 DEF Creates
    <2>4. h = i
        BY <1>1, <2>2, <2>3 DEF LogInv, LogOK
    <2>5. j = i
        BY <2>2, <2>4
    <2>6. QED
        BY <1>2, <2>1, <2>5
<1>3. QED
    BY <1>1, <1>2

\* A document tells the state of its proposal after one event more.
LEMMA DocsNext ==
    ASSUME LogInv(proposals, log, block), NEW n \in Nat, n + 1 \in 1 .. Len(log), Stored(n),
           docs' = Makes(log[n + 1]), UNCHANGED <<log, proposals>>,
           ~ (log[n + 1].topic = "ProposalCreated" /\ log[n + 1].id \in DOMAIN docs)
    PROVE  /\ DOMAIN docs' = IF log[n + 1].topic = "ProposalCreated"
                             THEN DOMAIN docs \cup {log[n + 1].id} ELSE DOMAIN docs
           /\ DOMAIN docs' \subseteq 1 .. Len(proposals)
           /\ \A id \in DOMAIN docs' :
                  /\ docs'[id] = [eta |-> docs'[id].eta, state |-> docs'[id].state]
                  /\ \E m \in n + 1 .. Len(log) : StateAt(log, id, m, docs'[id].state)
                  /\ \E m \in n + 1 .. Len(log) : EtaAt(log, id, m, docs'[id].eta)
<1> DEFINE f == n + 1
           e == log[f]
           known == IF e.topic = "ProposalCreated" THEN DOMAIN docs \cup {e.id} ELSE DOMAIN docs
<1>1. log \in Seq(Entry) /\ Len(log) \in Nat /\ f \in 1 .. Len(log) /\ f = n + 1
    BY LenProperties DEF LogInv, LogOK
<1> HIDE DEF f
<1>2. e \in Entry
    BY <1>1, ElementOfSeq
<1>3. e.topic # "Reform" =>
          /\ e.id \in 1 .. Len(proposals)
          /\ \E j \in 1 .. f : Creates(log[j], e.id)
          /\ e.topic = "ProposalCreated" => \A j \in 1 .. f : ~Queues(log[j], e.id)
    BY <1>1, EventKnown
<1>4. \A j \in 1 .. n : log[j].topic = "ProposalCreated" => log[j].id \in DOMAIN docs
    BY DEF Stored
<1>5. e.topic # "Reform" => e.topic = "ProposalCreated" \/ e.id \in DOMAIN docs
    <2>1. SUFFICES ASSUME e.topic # "Reform", e.topic # "ProposalCreated"
                   PROVE  e.id \in DOMAIN docs
        OBVIOUS
    <2>2. PICK j \in 1 .. f : Creates(log[j], e.id)
        BY <1>3, <2>1
    <2>3. log[j].topic = "ProposalCreated" /\ log[j].id = e.id
        BY <2>2 DEF Creates
    <2>4. j # f
        BY <2>1, <2>3
    <2>5. j \in 1 .. n
        BY <1>1, <2>4
    <2>6. QED
        BY <1>4, <2>3, <2>5
<1>6. "Reform" \notin DOMAIN StateOf /\ "ProposalCreated" \in DOMAIN StateOf
      /\ "ProposalQueued" \in DOMAIN StateOf /\ "ProposalQueued" # "ProposalCreated"
    BY DEF StateOf
<1>7. \A id \in DOMAIN docs : docs[id] = [eta |-> docs[id].eta, state |-> docs[id].state]
    BY DEF Stored
<1> DEFINE date == IF e.topic = "ProposalCreated" THEN 0
                   ELSE IF e.topic = "ProposalQueued" THEN e.arg ELSE docs[e.id].eta
<1>8. /\ e.topic \notin DOMAIN StateOf => docs' = docs
      /\ e.topic \in DOMAIN StateOf =>
             /\ DOMAIN docs' = DOMAIN docs \cup {e.id}
             /\ \A id \in DOMAIN docs : id # e.id => docs'[id] = docs[id]
             /\ docs'[e.id] = [eta |-> date, state |-> StateOf[e.topic]]
    <2>1. docs' = Makes(e)
        BY <1>1
    <2>2. e.topic \in DOMAIN StateOf => e.topic = "ProposalCreated" \/ e.id \in DOMAIN docs
        BY <1>5, <1>6
    <2> HIDE DEF e
    <2>3. QED
        BY <1>2, <1>7, <2>1, <2>2, DocsMade
<1>9. DOMAIN docs' = known
    BY <1>5, <1>6, <1>8
<1>10. DOMAIN docs' \subseteq 1 .. Len(proposals)
    <2>1. DOMAIN docs \subseteq 1 .. Len(proposals)
        BY DEF Stored
    <2>2. QED
        BY <1>3, <1>9, <2>1
<1>11. ASSUME NEW id \in DOMAIN docs'
       PROVE  /\ docs'[id] = [eta |-> docs'[id].eta, state |-> docs'[id].state]
              /\ \E m \in f .. Len(log) : StateAt(log, id, m, docs'[id].state)
              /\ \E m \in f .. Len(log) : EtaAt(log, id, m, docs'[id].eta)
    <2>1. f \in f .. Len(log)
        BY <1>1
    <2>2. /\ Sets(e, id) => StateAt(log, id, f, StateOf[e.topic])
          /\ \A x : ~Sets(e, id) /\ StateAt(log, id, n, x) => StateAt(log, id, f, x)
        BY <1>1, StateNext
    <2>3. /\ Queues(e, id) => EtaAt(log, id, f, e.arg)
          /\ \A x : ~Queues(e, id) /\ EtaAt(log, id, n, x) => EtaAt(log, id, f, x)
        BY <1>1, EtaNext
    <2>4. \A m \in n .. Len(log) : m = n \/ m \in f .. Len(log)
        BY <1>1
    <2>5. ASSUME id \in DOMAIN docs
          PROVE  /\ docs[id] = [eta |-> docs[id].eta, state |-> docs[id].state]
                 /\ \E m \in n .. Len(log) : StateAt(log, id, m, docs[id].state)
                 /\ \E m \in n .. Len(log) : EtaAt(log, id, m, docs[id].eta)
        BY <2>5 DEF Stored
    <2>6. ASSUME id \in DOMAIN docs, ~Queues(e, id)
          PROVE  \E m \in f .. Len(log) : EtaAt(log, id, m, docs[id].eta)
        BY <2>1, <2>3, <2>4, <2>5, <2>6
    <2>7. CASE Sets(e, id)
        <3>1. /\ e.topic \in DOMAIN StateOf /\ e.id = id
              /\ docs'[id] = [eta |-> date, state |-> StateOf[e.topic]]
            BY <1>8, <2>7 DEF Sets
        <3>2. docs'[id].eta = date /\ docs'[id].state = StateOf[e.topic]
            BY <3>1
        <3>3. \E m \in f .. Len(log) : EtaAt(log, id, m, date)
            <4>1. CASE e.topic = "ProposalCreated"
                <5>1. \A j \in 1 .. f : ~Queues(log[j], id)
                    BY <1>3, <3>1, <4>1
                <5>2. EtaAt(log, id, f, 0)
                    BY <5>1 DEF EtaAt
                <5>3. QED
                    BY <2>1, <4>1, <5>2
            <4>2. CASE e.topic = "ProposalQueued"
                <5>1. Queues(e, id)
                    BY <3>1, <4>2 DEF Queues
                <5>2. QED
                    BY <1>6, <2>1, <2>3, <4>2, <5>1
            <4>3. CASE e.topic # "ProposalCreated" /\ e.topic # "ProposalQueued"
                <5>1. ~Queues(e, id) /\ id \in DOMAIN docs /\ date = docs[id].eta
                    BY <1>5, <1>6, <3>1, <4>3 DEF Queues
                <5>2. QED
                    BY <2>6, <5>1
            <4>4. QED
                BY <4>1, <4>2, <4>3
        <3>4. QED
            BY <2>1, <2>2, <2>7, <3>1, <3>2, <3>3
    <2>8. CASE ~Sets(e, id)
        <3>1. id \in DOMAIN docs /\ docs'[id] = docs[id] /\ ~Queues(e, id)
            BY <1>6, <1>8, <2>8 DEF Sets, Queues
        <3>2. \E m \in f .. Len(log) : StateAt(log, id, m, docs[id].state)
            BY <2>1, <2>2, <2>4, <2>5, <2>8, <3>1
        <3>3. QED
            BY <2>5, <2>6, <3>1, <3>2
    <2>9. QED
        BY <2>7, <2>8
<1>12. QED
    BY <1>1, <1>9, <1>10, <1>11

\* A vote adds one document, of the proposal voted on.
LEMMA VotersNext ==
    ASSUME NEW n \in Nat, Stored(n), NEW e \in Entry,
           voterDocs' = IF e.topic = "ProposalVoted"
                        THEN Append(voterDocs, [pid |-> e.id, voter |-> e.arg]) ELSE voterDocs
    PROVE  /\ voterDocs' \in Seq([pid : Nat, voter : Accounts \cup Nat \cup BOOLEAN])
           /\ Len(voterDocs) \in Nat /\ Len(voterDocs') \in Nat /\ Len(voterDocs) <= Len(voterDocs')
           /\ \A k \in 1 .. Len(voterDocs) : voterDocs'[k] = voterDocs[k]
           /\ e.topic = "ProposalVoted" =>
                  /\ Len(voterDocs') = Len(voterDocs) + 1
                  /\ voterDocs'[Len(voterDocs')] = [pid |-> e.id, voter |-> e.arg]
           /\ \A id : Cardinality(VoteDocs(id)') =
                          Cardinality(VoteDocs(id)) + IF Votes(e, id) THEN 1 ELSE 0
<1> DEFINE Doc == [pid : Nat, voter : Accounts \cup Nat \cup BOOLEAN]
           d == [pid |-> e.id, voter |-> e.arg]
           w == Len(voterDocs)
<1>1. voterDocs \in Seq(Doc) /\ w \in Nat
    BY LenProperties DEF Stored
<1>2. d \in Doc
    BY DEF Entry
<1>3. CASE e.topic = "ProposalVoted"
    <2>1. voterDocs' = Append(voterDocs, d)
        BY <1>3
    <2> HIDE DEF Doc, d
    <2>2. /\ voterDocs' \in Seq(Doc) /\ Len(voterDocs') = w + 1
          /\ \A k \in 1 .. w : voterDocs'[k] = voterDocs[k]
          /\ voterDocs'[w + 1] = d
        BY <1>1, <1>2, <2>1, AppendProperties
    <2>3. ASSUME NEW id
          PROVE  Cardinality(VoteDocs(id)') = Cardinality(VoteDocs(id)) + IF Votes(e, id) THEN 1 ELSE 0
        <3>1. IsFiniteSet(VoteDocs(id)) /\ w + 1 \notin VoteDocs(id)
            <4>1. VoteDocs(id) \subseteq 1 .. w /\ IsFiniteSet(1 .. w)
                BY <1>1, FS_Interval DEF VoteDocs
            <4>2. QED
                BY <1>1, <4>1, FS_Subset
        <3>2. d.pid = e.id
            BY DEF d
        <3>3. VoteDocs(id)' = IF e.id = id THEN VoteDocs(id) \cup {w + 1} ELSE VoteDocs(id)
            <4>1. VoteDocs(id)' = {i \in 1 .. w + 1 : voterDocs'[i].pid = id}
                BY <2>2 DEF VoteDocs
            <4>2. \A i : i \in 1 .. w + 1 <=> i \in 1 .. w \/ i = w + 1
                BY <1>1
            <4>3. QED
                BY <2>2, <3>2, <4>1, <4>2 DEF VoteDocs
        <3>4. Cardinality(VoteDocs(id)) \in Nat
            BY <3>1, FS_CardinalityType
        <3>5. Votes(e, id) <=> e.id = id
            BY <1>3 DEF Votes
        <3>6. CASE e.id = id
            <4>1. Cardinality(VoteDocs(id) \cup {w + 1}) = Cardinality(VoteDocs(id)) + 1
                BY <3>1, FS_AddElement
            <4>2. QED
                BY <3>3, <3>5, <3>6, <4>1
        <3>7. CASE e.id # id
            BY <3>3, <3>4, <3>5, <3>7
        <3>8. QED
            BY <3>6, <3>7
    <2>4. QED
        BY <1>1, <1>3, <2>2, <2>3 DEF Doc, d
<1>4. CASE e.topic # "ProposalVoted"
    <2>1. voterDocs' = voterDocs
        BY <1>4
    <2>2. ASSUME NEW id
          PROVE  /\ VoteDocs(id)' = VoteDocs(id) /\ Cardinality(VoteDocs(id)) \in Nat
                 /\ ~Votes(e, id)
        <3>1. VoteDocs(id) \subseteq 1 .. w /\ IsFiniteSet(1 .. w)
            BY <1>1, FS_Interval DEF VoteDocs
        <3>2. Cardinality(VoteDocs(id)) \in Nat
            BY <3>1, FS_Subset, FS_CardinalityType
        <3>3. QED
            BY <1>4, <2>1, <3>2 DEF Votes, VoteDocs
    <2>3. QED
        BY <1>1, <1>4, <2>1, <2>2
<1>5. QED
    BY <1>3, <1>4

\* A poll meets a document it has stored only after a crash: each creation is
\* in the log once.
LEMMA DuplicateCrashed ==
    ASSUME IndexInv, phase = "processing", Duplicate
    PROVE  crashes # 0
<1>1. PICK n \in 0 .. Len(log) : Seen(n) /\ Stored(n)
    BY DEF IndexInv
<1> DEFINE f == n + 1
           e == log[f]
<1>2. LogInv(proposals, log, block) /\ Len(log) \in Nat
    BY IndexFacts
<1>3. n \in Nat /\ f \in 1 .. Len(log) /\ Head(batch) = e
    BY <1>1, EventPolled DEF Duplicate
<1>4. e.topic = "ProposalCreated" /\ e.id \in DOMAIN docs
    BY <1>3 DEF Duplicate
<1>5. SUFFICES ASSUME crashes = 0 PROVE FALSE
    OBVIOUS
<1>6. PICK i \in 1 .. n : Creates(log[i], e.id)
    BY <1>1, <1>4, <1>5 DEF Stored
<1>7. i \in 1 .. Len(log) /\ i # f
    BY <1>2, <1>3
<1> HIDE DEF f
<1>8. Creates(log[f], e.id)
    BY <1>4 DEF Creates
<1>9. e.id \in 1 .. Len(proposals)
    BY <1>2, <1>3, <1>4, EventKnown
<1>10. QED
    BY <1>2, <1>3, <1>6, <1>7, <1>8, <1>9 DEF LogInv, LogOK


\* The event is stored, and the poll goes on, or has failed after a crash.
LEMMA EventStored ==
    ASSUME IndexInv, ProcessEvent
    PROVE  IndexInv'
<1>1. PICK n \in 0 .. Len(log) : Seen(n) /\ Stored(n)
    BY DEF IndexInv
<1> DEFINE f == n + 1
           e == log[f]
           t == EventsUntil(target)
           duplicate == e.topic = "ProposalCreated" /\ e.id \in DOMAIN docs
<1>2. /\ LogInv(proposals, log, block) /\ PollInv
      /\ log \in Seq(Entry) /\ Len(log) \in Nat /\ Len(proposals) \in Nat
      /\ EventsUntil(savedCheckPoint) \in 0 .. Len(log)
    BY IndexFacts
<1>3. phase = "processing" /\ batch # <<>>
    BY DEF ProcessEvent
<1>4. /\ n \in Nat /\ f \in 1 .. Len(log) /\ f <= t /\ f = n + 1
      /\ f \in EventsUntil(savedCheckPoint) .. t
      /\ Head(batch) = e /\ e \in Entry
      /\ Tail(batch) = SubSeq(log, f + 1, t)
    <2>1. f + 1 = n + 2
        BY <1>2
    <2>2. QED
        BY <1>1, <1>3, <2>1, EventPolled
<1> HIDE DEF f
<1>5. /\ batch' = IF duplicate THEN <<>> ELSE Tail(batch)
      /\ phase' = IF duplicate THEN "failed" ELSE phase
      /\ docs' = IF duplicate THEN docs ELSE Makes(e)
      /\ voterDocs' = IF e.topic = "ProposalVoted"
                      THEN Append(voterDocs, [pid |-> e.id, voter |-> e.arg]) ELSE voterDocs
    BY <1>3, <1>4 DEF ProcessEvent, Makes, Duplicate
<1>6. /\ UNCHANGED <<councilVars, checkpoints, target, subscription, faults>>
      /\ UNCHANGED <<proposals, log, block, lastCheckPoint, savedCheckPoint, target, subscribed,
                     delivered, crashes, errors>>
    BY DEF ProcessEvent, councilVars, checkpoints, subscription, faults
<1>7. PollInv' /\ LogInv(proposals, log, block)'
    <2>1. phase' \in {"processing", "failed"}
        BY <1>3, <1>5
    <2>2. phase' = "failed" => crashes # 0
        <3>1. duplicate => Duplicate
            BY <1>3, <1>4 DEF Duplicate
        <3>2. QED
            BY <1>3, <1>5, <3>1, DuplicateCrashed
    <2>3. crashes \in Nat
        BY <1>2, IndexerAssumption DEF PollInv
    <2>4. QED
        BY <1>2, <1>3, <1>6, <2>1, <2>2, <2>3 DEF PollInv, Phase
<1>8. \A b : EventsUntil(b)' = EventsUntil(b)
    BY <1>6 DEF EventsUntil
<1>9. CASE duplicate
    <2>1. PICK k \in 0 .. n : k = EventsUntil(savedCheckPoint)
        BY <1>1, <1>2, <1>3, <1>4 DEF Seen
    <2>2. docs' = docs /\ voterDocs' = voterDocs /\ phase' = "failed"
        BY <1>5, <1>9
    <2>3. UNCHANGED <<store, councilVars>>
        BY <1>6, <2>2 DEF store
    <2>4. Stored(k)'
        BY <1>1, <1>2, <2>1, <2>2, <2>3, StoredEarlier
    <2>5. Seen(k)'
        BY <1>6, <1>8, <2>1, <2>2 DEF Seen
    <2>6. k \in 0 .. Len(log')
        BY <1>2, <1>4, <1>6, <2>1
    <2>7. QED
        BY <1>7, <2>4, <2>5, <2>6 DEF IndexInv
<1>10. CASE ~duplicate
    <2>1. docs' = Makes(e) /\ phase' = "processing" /\ batch' = SubSeq(log, f + 1, t)
        BY <1>3, <1>4, <1>5, <1>10
    <2>2. Seen(f)'
        BY <1>4, <1>6, <1>8, <2>1 DEF Seen, Rest
    <2>3. /\ DOMAIN docs' = IF e.topic = "ProposalCreated"
                            THEN DOMAIN docs \cup {e.id} ELSE DOMAIN docs
          /\ DOMAIN docs' \subseteq 1 .. Len(proposals)
          /\ \A id \in DOMAIN docs' :
                 /\ docs'[id] = [eta |-> docs'[id].eta, state |-> docs'[id].state]
                 /\ \E m \in f .. Len(log) : StateAt(log, id, m, docs'[id].state)
                 /\ \E m \in f .. Len(log) : EtaAt(log, id, m, docs'[id].eta)
        <3>1. /\ docs' = Makes(log[n + 1]) /\ n + 1 \in 1 .. Len(log)
              /\ ~ (log[n + 1].topic = "ProposalCreated" /\ log[n + 1].id \in DOMAIN docs)
            BY <1>4, <1>10, <2>1
        <3>2. UNCHANGED <<log, proposals>> /\ n \in Nat
            BY <1>4, <1>6
        <3>3. QED
            BY <1>1, <1>2, <1>4, <3>1, <3>2, DocsNext
    <2>4. /\ voterDocs' \in Seq([pid : Nat, voter : Accounts \cup Nat \cup BOOLEAN])
          /\ Len(voterDocs) \in Nat /\ Len(voterDocs') \in Nat /\ Len(voterDocs) <= Len(voterDocs')
          /\ \A k \in 1 .. Len(voterDocs) : voterDocs'[k] = voterDocs[k]
          /\ e.topic = "ProposalVoted" =>
                 /\ Len(voterDocs') = Len(voterDocs) + 1
                 /\ voterDocs'[Len(voterDocs')] = [pid |-> e.id, voter |-> e.arg]
          /\ \A id : Cardinality(VoteDocs(id)') =
                         Cardinality(VoteDocs(id)) + IF Votes(e, id) THEN 1 ELSE 0
        <3> HIDE DEF e
        <3>1. QED
            BY <1>1, <1>4, <1>5, VotersNext
    <2>5. e.topic # "Reform" => e.id \in 1 .. Len(proposals)
        BY <1>2, <1>4, EventKnown
    <2>6. \A k \in 1 .. Len(voterDocs') : voterDocs'[k].pid \in 1 .. Len(proposals)
        <3>1. \A k \in 1 .. Len(voterDocs) : voterDocs[k].pid \in 1 .. Len(proposals)
            BY <1>1 DEF Stored
        <3>2. e.topic # "ProposalVoted" => voterDocs' = voterDocs
            BY <1>5
        <3>3. e.topic = "ProposalVoted" => voterDocs'[Len(voterDocs')].pid = e.id
            BY <2>4
        <3>4. \A k \in 1 .. Len(voterDocs') :
                  \/ k \in 1 .. Len(voterDocs)
                  \/ e.topic = "ProposalVoted" /\ k = Len(voterDocs')
            BY <2>4, <3>2
        <3>5. QED
            BY <2>4, <2>5, <3>1, <3>3, <3>4
    <2>7. \A i \in 1 .. f :
              /\ log[i].topic = "ProposalCreated" => log[i].id \in DOMAIN docs'
              /\ log[i].topic = "ProposalVoted" =>
                     \E k \in 1 .. Len(voterDocs') :
                         voterDocs'[k] = [pid |-> log[i].id, voter |-> log[i].arg]
        <3>1. SUFFICES ASSUME NEW i \in 1 .. f
                       PROVE  /\ log[i].topic = "ProposalCreated" => log[i].id \in DOMAIN docs'
                              /\ log[i].topic = "ProposalVoted" =>
                                     \E k \in 1 .. Len(voterDocs') :
                                         voterDocs'[k] = [pid |-> log[i].id, voter |-> log[i].arg]
            OBVIOUS
        <3>2. CASE i = f
            <4>1. e.topic = "ProposalVoted" => Len(voterDocs') \in 1 .. Len(voterDocs')
                BY <2>4
            <4>2. QED
                BY <2>3, <2>4, <3>2, <4>1
        <3>3. CASE i # f
            <4>1. i \in 1 .. n
                BY <1>4, <3>3
            <4>2. /\ log[i].topic = "ProposalCreated" => log[i].id \in DOMAIN docs
                  /\ log[i].topic = "ProposalVoted" =>
                         \E k \in 1 .. Len(voterDocs) :
                             voterDocs[k] = [pid |-> log[i].id, voter |-> log[i].arg]
                BY <1>1, <4>1 DEF Stored
            <4>3. \A k \in 1 .. Len(voterDocs) : k \in 1 .. Len(voterDocs')
                BY <2>4
            <4>4. DOMAIN docs \subseteq DOMAIN docs'
                BY <2>3
            <4>5. QED
                BY <2>4, <4>2, <4>3, <4>4
        <3>4. QED
            BY <3>2, <3>3
    <2>8. ASSUME crashes = 0
          PROVE  /\ \A id \in DOMAIN docs' : \E i \in 1 .. f : Creates(log[i], id)
                 /\ \A id \in 1 .. Len(proposals) :
                        Cardinality(VoteDocs(id)') = Cardinality(VotesAt(log, id, f))
        <3>1. ASSUME NEW id \in DOMAIN docs'
              PROVE  \E i \in 1 .. f : Creates(log[i], id)
            <4>1. f \in 1 .. f /\ \A i \in 1 .. n : i \in 1 .. f
                BY <1>4
            <4>2. CASE id \in DOMAIN docs
                BY <1>1, <1>3, <2>8, <4>1, <4>2 DEF Stored
            <4>3. CASE id \notin DOMAIN docs
                <5>1. Creates(log[f], id)
                    BY <2>3, <3>1, <4>3 DEF Creates
                <5>2. QED
                    BY <4>1, <5>1
            <4>4. QED
                BY <4>2, <4>3
        <3>2. ASSUME NEW id \in 1 .. Len(proposals)
              PROVE  Cardinality(VoteDocs(id)') = Cardinality(VotesAt(log, id, f))
            <4>1. Cardinality(VoteDocs(id)) = Cardinality(VotesAt(log, id, n))
                BY <1>1, <1>3, <2>8 DEF Stored
            <4>2. Cardinality(VotesAt(log, id, n + 1)) =
                      Cardinality(VotesAt(log, id, n)) + IF Votes(log[n + 1], id) THEN 1 ELSE 0
                BY <1>4, VotesNext
            <4>3. QED
                BY <1>4, <2>4, <4>1, <4>2
        <3>3. QED
            BY <3>1, <3>2
    <2>9. Stored(f)'
        BY <1>6, <2>3, <2>4, <2>6, <2>7, <2>8 DEF Stored
    <2>10. f \in 0 .. Len(log')
        BY <1>4, <1>6
    <2>11. QED
        BY <1>7, <2>2, <2>9, <2>10 DEF IndexInv
<1>11. QED
    BY <1>9, <1>10

\* A step that leaves the store alone, and does not forget where the poll is.
LEMMA PollMoves ==
    ASSUME IndexInv, NEW n \in 0 .. Len(log), Stored(n), Seen(n)', PollInv',
           UNCHANGED <<councilVars, store, crashes>>, phase # "failed"
    PROVE  IndexInv'
<1>1. UNCHANGED <<proposals, log, block, docs, voterDocs, crashes>>
    BY DEF councilVars, store
<1>2. LogInv(proposals, log, block)'
    BY <1>1 DEF IndexInv
<1>3. \A id : VoteDocs(id)' = VoteDocs(id)
    BY <1>1 DEF VoteDocs
<1>4. Stored(n)'
    BY <1>1, <1>3 DEF Stored
<1>5. QED
    BY <1>1, <1>2, <1>4 DEF IndexInv

LEMMA PollStarts ==
    ASSUME IndexInv, Start
    PROVE  IndexInv'
<1>1. PICK n \in 0 .. Len(log) : Seen(n) /\ Stored(n)
    BY DEF IndexInv
<1>2. /\ phase = "down" /\ phase' = "latest" /\ lastCheckPoint' = savedCheckPoint
      /\ UNCHANGED <<councilVars, savedCheckPoint, poll, subscription, store, faults>>
      /\ UNCHANGED <<log, block, target, subscribed, delivered, crashes, errors>>
    BY DEF Start, councilVars, poll, subscription, faults
<1>3. PollInv'
    BY <1>2 DEF IndexInv, PollInv, Phase
<1>4. Seen(n)'
    BY <1>1, <1>2 DEF Seen, EventsUntil
<1>5. QED
    BY <1>1, <1>2, <1>3, <1>4, PollMoves

LEMMA LatestReceived ==
    ASSUME IndexInv, ReceiveLatest
    PROVE  IndexInv'
<1>1. PICK n \in 0 .. Len(log) : Seen(n) /\ Stored(n)
    BY DEF IndexInv
<1>2. /\ phase = "latest" /\ phase' = "events" /\ target' = block - 1
      /\ UNCHANGED <<councilVars, checkpoints, batch, subscription, store, faults>>
      /\ UNCHANGED <<log, block, lastCheckPoint, savedCheckPoint, subscribed, delivered,
                     crashes, errors>>
    BY DEF ReceiveLatest, LatestBlock, councilVars, checkpoints, subscription, faults
<1>3. savedCheckPoint \in Nat /\ block \in Nat \ {0} /\ savedCheckPoint < block
    BY IndexFacts
<1>4. target' \in Nat /\ target' \in savedCheckPoint' .. block' - 1
    <2>1. block - 1 \in Nat /\ block - 1 \in savedCheckPoint .. block - 1
        BY <1>3
    <2>2. QED
        BY <1>2, <2>1
<1>5. PollInv'
    BY <1>2, <1>4 DEF IndexInv, PollInv, Phase
<1>6. Seen(n)'
    BY <1>1, <1>2 DEF Seen, EventsUntil
<1>7. QED
    BY <1>1, <1>2, <1>5, <1>6, PollMoves

\* The poll reads the events that follow those of the checkpoint.
LEMMA EventsReceived ==
    ASSUME IndexInv, ReceiveEvents
    PROVE  IndexInv'
<1>1. PICK n \in 0 .. Len(log) : Seen(n) /\ Stored(n)
    BY DEF IndexInv
<1>2. /\ phase = "events" /\ phase' = "processing"
      /\ batch' = Polled(lastCheckPoint + 1, target)
      /\ UNCHANGED <<councilVars, checkpoints, target, subscription, store, faults>>
      /\ UNCHANGED <<log, block, target, lastCheckPoint, savedCheckPoint, subscribed, delivered,
                     crashes, errors>>
    BY DEF ReceiveEvents, councilVars, checkpoints, subscription, faults
<1>3. /\ savedCheckPoint \in Nat /\ target \in Nat /\ lastCheckPoint = savedCheckPoint
      /\ LogInv(proposals, log, block) /\ target \in savedCheckPoint .. block - 1
      /\ block \in Nat
    BY <1>2, IndexFacts DEF PollInv
<1>4. n = EventsUntil(savedCheckPoint)
    BY <1>1, <1>2 DEF Seen
<1>5. batch' = SubSeq(log, n + 1, EventsUntil(target))
    <2>1. (lastCheckPoint + 1) - 1 = savedCheckPoint
        BY <1>3
    <2>2. EventsUntil((lastCheckPoint + 1) - 1) = EventsUntil(savedCheckPoint)
        BY <2>1, Zenon
    <2>3. batch' = SubSeq(log, EventsUntil((lastCheckPoint + 1) - 1) + 1, EventsUntil(target))
        BY <1>2 DEF Polled
    <2>4. QED
        BY <1>4, <2>2, <2>3
<1>6. n \in EventsUntil(savedCheckPoint) .. EventsUntil(target)
    <2>1. savedCheckPoint \in Int /\ target \in Int /\ savedCheckPoint <= target
        BY <1>3
    <2>2. EventsUntil(savedCheckPoint) <= EventsUntil(target)
        BY <1>3, <2>1, EventsInOrder, Zenon
    <2>3. EventsUntil(savedCheckPoint) \in Int /\ EventsUntil(target) \in Int
        BY IndexFacts
    <2>4. QED
        BY <1>4, <2>2, <2>3
<1>7. PollInv'
    BY <1>2 DEF IndexInv, PollInv, Phase
<1>8. Seen(n)'
    BY <1>2, <1>5, <1>6 DEF Seen, Rest, EventsUntil
<1>9. QED
    BY <1>1, <1>2, <1>7, <1>8, PollMoves

\* All the events up to the block the poll asked for are stored when it ends.
LEMMA PollFinished ==
    ASSUME IndexInv, FinishPoll
    PROVE  IndexInv'
<1>1. PICK n \in 0 .. Len(log) : Seen(n) /\ Stored(n)
    BY DEF IndexInv
<1>2. /\ phase = "processing" /\ batch = <<>> /\ phase' = "idle"
      /\ lastCheckPoint' = target /\ savedCheckPoint' = target /\ subscribed' = TRUE
      /\ delivered' = IF subscribed THEN delivered ELSE EventsUntil(target - 1)
      /\ UNCHANGED <<councilVars, poll, store, faults>>
      /\ UNCHANGED <<log, block, target, crashes, errors>>
    BY DEF FinishPoll, councilVars, poll, faults
<1>3. /\ target \in Nat /\ LogInv(proposals, log, block) /\ block \in Nat
      /\ target \in savedCheckPoint .. block - 1 /\ savedCheckPoint \in Nat
      /\ log \in Seq(Entry) /\ Len(log) \in Nat
      /\ EventsUntil(savedCheckPoint) \in 0 .. Len(log) /\ EventsUntil(target) \in 0 .. Len(log)
    BY <1>2, IndexFacts DEF PollInv
<1>4. n = EventsUntil(target)
    <2> DEFINE t == EventsUntil(target)
               f == n + 1
    <2>1. n <= t /\ batch = SubSeq(log, f, t)
        BY <1>1, <1>2, <1>3 DEF Seen, Rest
    <2>2. SUFFICES ASSUME n < t PROVE FALSE
        BY <1>3, <2>1
    <2>3. f \in 1 .. Len(log) /\ t \in f .. Len(log) /\ f \in Int /\ t \in Int /\ f <= t
        BY <1>3, <2>2
    <2>4. \A i \in f .. t : log[i] \in Entry
        <3>1. \A i \in 1 .. Len(log) : log[i] \in Entry
            BY <1>3, ElementOfSeq
        <3>2. \A i \in f .. t : i \in 1 .. Len(log)
            BY <1>3, <2>3
        <3>3. QED
            BY <3>1, <3>2
    <2> HIDE DEF t, f
    <2>5. Len(batch) = t - f + 1
        BY <2>1, <2>3, <2>4, SubSeqProperties
    <2>6. QED
        BY <1>2, <2>3, <2>5
<1>5. delivered' \in 0 .. Len(log)
    <2>1. target - 1 \in Int
        BY <1>3
    <2>2. EventsUntil(target - 1) \in 0 .. Len(log)
        BY <1>3, <2>1, EventsCounted, Zenon
    <2>3. QED
        BY <1>2, <2>2 DEF IndexInv, PollInv
<1>6. PollInv'
    <2>1. target < block
        BY <1>3
    <2>2. QED
        BY <1>2, <1>3, <1>5, <2>1 DEF IndexInv, PollInv, Phase
<1>7. Seen(n)'
    BY <1>2, <1>4 DEF Seen, EventsUntil
<1>8. QED
    BY <1>1, <1>2, <1>6, <1>7, PollMoves

LEMMA EventNotified ==
    ASSUME IndexInv, Notify
    PROVE  IndexInv'
<1>1. PICK n \in 0 .. Len(log) : Seen(n) /\ Stored(n)
    BY DEF IndexInv
<1>2. /\ phase # "down" /\ phase' = IF phase = "idle" THEN "latest" ELSE phase
      /\ delivered < Len(log) /\ delivered' = delivered + 1
      /\ UNCHANGED <<councilVars, checkpoints, poll, subscribed, store, faults>>
      /\ UNCHANGED <<proposals, log, block, lastCheckPoint, savedCheckPoint, target, batch,
                     docs, voterDocs, crashes, errors, subscribed>>
    BY DEF Notify, councilVars, checkpoints, poll, store, faults
<1>3. delivered \in 0 .. Len(log) /\ Len(log) \in Nat
    BY IndexFacts DEF PollInv
<1>4. delivered' \in 0 .. Len(log)
    BY <1>2, <1>3
<1>5. PollInv'
    BY <1>2, <1>4 DEF IndexInv, PollInv, Phase
<1>6. Seen(n)'
    BY <1>1, <1>2 DEF Seen, Rest, EventsUntil
<1>7. LogInv(proposals, log, block)'
    BY <1>2 DEF IndexInv
<1>8. Stored(n)'
    <2>1. \A id : VoteDocs(id)' = VoteDocs(id)
        BY <1>2 DEF VoteDocs
    <2>2. phase' # "failed" => phase # "failed"
        BY <1>2
    <2>3. QED
        BY <1>1, <1>2, <2>1, <2>2 DEF Stored
<1>9. QED
    BY <1>2, <1>5, <1>6, <1>7, <1>8 DEF IndexInv

\* A poll that fails keeps what it has stored, and the checkpoint before it.
LEMMA PollFailed ==
    ASSUME IndexInv, PollFails
    PROVE  IndexInv'
<1>1. PICK n \in 0 .. Len(log) : Seen(n) /\ Stored(n)
    BY DEF IndexInv
<1>2. /\ phase \in {"latest", "events", "processing"} /\ phase' = "failed"
      /\ errors' = errors + 1 /\ errors < MaxErrors
      /\ UNCHANGED <<store, councilVars>>
      /\ UNCHANGED <<proposals, log, block, lastCheckPoint, savedCheckPoint, target, subscribed,
                     delivered, crashes>>
    BY DEF PollFails, councilVars, checkpoints, subscription
<1>3. /\ LogInv(proposals, log, block) /\ PollInv /\ Len(log) \in Nat
      /\ EventsUntil(savedCheckPoint) \in 0 .. Len(log)
    BY IndexFacts
<1>4. PICK k \in 0 .. n : k = EventsUntil(savedCheckPoint)
    BY <1>1, <1>3 DEF Seen
<1>5. errors' \in 0 .. MaxErrors /\ errors' > 0
    BY <1>2, <1>3, IndexerAssumption DEF PollInv
<1>6. PollInv'
    BY <1>2, <1>3, <1>5 DEF PollInv, Phase
<1>7. Seen(k)'
    BY <1>2, <1>4 DEF Seen, EventsUntil
<1>8. Stored(k)'
    BY <1>1, <1>2, <1>3, StoredEarlier
<1>9. k \in 0 .. Len(log') /\ LogInv(proposals, log, block)'
    BY <1>2, <1>3, <1>4
<1>10. QED
    BY <1>6, <1>7, <1>8, <1>9 DEF IndexInv

LEMMA ServerCrashed ==
    ASSUME IndexInv, Crash
    PROVE  IndexInv'
<1>1. PICK n \in 0 .. Len(log) : Seen(n) /\ Stored(n)
    BY DEF IndexInv
<1>2. /\ phase' = "down" /\ lastCheckPoint' = 0 /\ target' = 0 /\ subscribed' = FALSE
      /\ delivered' = 0 /\ crashes' = crashes + 1 /\ crashes < MaxCrashes
      /\ UNCHANGED <<councilVars, savedCheckPoint, store>>
      /\ UNCHANGED <<proposals, log, block, errors>>
    BY DEF Crash, councilVars
<1>3. /\ LogInv(proposals, log, block) /\ PollInv /\ Len(log) \in Nat
      /\ EventsUntil(savedCheckPoint) \in 0 .. Len(log)
    BY IndexFacts
<1>4. PICK k \in 0 .. n : k = EventsUntil(savedCheckPoint)
    BY <1>1, <1>3 DEF Seen
<1>5. crashes' \in 0 .. MaxCrashes /\ crashes' # 0
    BY <1>2, <1>3, IndexerAssumption DEF PollInv
<1>6. PollInv'
    <2>1. savedCheckPoint' \in Nat /\ savedCheckPoint' < block'
        BY <1>2, <1>3 DEF PollInv
    <2>2. delivered' \in 0 .. Len(log') /\ target' \in Nat /\ lastCheckPoint' \in Nat
        BY <1>2, <1>3
    <2>3. phase' \in Phase /\ phase' \notin {"events", "processing"} /\ subscribed' \in BOOLEAN
        BY <1>2 DEF Phase
    <2>4. QED
        BY <1>2, <1>3, <1>5, <2>1, <2>2, <2>3 DEF PollInv
<1>7. Seen(k)'
    BY <1>2, <1>4 DEF Seen, EventsUntil
<1>8. Stored(k)'
    BY <1>1, <1>2, <1>3, <1>5, StoredEarlier
<1>9. k \in 0 .. Len(log') /\ LogInv(proposals, log, block)'
    BY <1>2, <1>3, <1>4
<1>10. QED
    BY <1>6, <1>7, <1>8, <1>9 DEF IndexInv

-----------------------------------------------------------------------------
(***************************************************************************)
(* The invariant of council and observer, and what follows from it.        *)
(***************************************************************************)
LEMMA IndexInit ==
    ASSUME Init
    PROVE  IndexInv
<1>1. /\ CouncilInit /\ phase = "down" /\ lastCheckPoint = 0 /\ savedCheckPoint = 0
      /\ target = 0 /\ batch = <<>> /\ subscribed = FALSE /\ delivered = 0
      /\ docs = <<>> /\ voterDocs = <<>> /\ crashes = 0 /\ errors = 0
    BY DEF Init
<1>2. LogInv(proposals, log, block) /\ block = 1 /\ log = <<>> /\ proposals = <<>>
    BY <1>1, InitTold DEF CouncilInit
<1>3. Len(log) = 0 /\ Len(proposals) = 0
    BY <1>2
<1>4. PollInv
    <2>1. /\ crashes \in 0 .. MaxCrashes /\ errors \in 0 .. MaxErrors
          /\ delivered \in 0 .. Len(log)
        BY <1>1, <1>3, IndexerAssumption
    <2>2. savedCheckPoint < block
        BY <1>1, <1>2
    <2>3. QED
        BY <1>1, <2>1, <2>2 DEF PollInv, Phase
<1>5. EventsUntil(savedCheckPoint) = 0
    <2>1. EventsUntil(savedCheckPoint) \in 0 .. Len(log)
        BY <1>1, <1>2, EventsCounted
    <2>2. QED
        BY <1>3, <2>1
<1>6. Stored(0)
    BY <1>1, <1>3 DEF Stored
<1>7. Seen(0)
    BY <1>1, <1>5 DEF Seen
<1>8. QED
    BY <1>2, <1>3, <1>4, <1>6, <1>7 DEF IndexInv

LEMMA IndexNext ==
    ASSUME IInv, IndexInv, [Next]_vars
    PROVE  IInv' /\ IndexInv'
<1>1. CASE CouncilNext /\ UNCHANGED observerVars
    <2>1. LogInv(proposals, log, block)
        BY DEF IndexInv
    <2>2. QED
        BY <1>1, <2>1, CouncilAdvances, CouncilIndexed, NextInvariant
<1>2. CASE UNCHANGED vars
    <2>1. /\ UNCHANGED councilVars /\ UNCHANGED observerVars
          /\ UNCHANGED <<proposals, log, block>>
        BY <1>2 DEF vars, councilVars
    <2>2. LogInv(proposals, log, block) /\ block \in Nat
        BY IndexFacts
    <2>3. Advances
        BY <2>1, <2>2, NoEvent
    <2>4. QED
        BY <2>1, <2>3, CouncilIndexed, NextInvariant
<1>3. CASE Start \/ ObserverStep \/ PollFails \/ Notify \/ Crash
    <2>1. UNCHANGED councilVars
        BY <1>3 DEF Start, ObserverStep, ReceiveLatest, ReceiveEvents, ProcessEvent, FinishPoll,
                    PollFails, Notify, Crash
    <2>2. IInv'
        BY <2>1, NextInvariant
    <2>3. QED
        BY <1>3, <2>2, PollStarts, LatestReceived, EventsReceived, EventStored, PollFinished,
           PollFailed, EventNotified, ServerCrashed DEF ObserverStep
<1>4. QED
    BY <1>1, <1>2, <1>3 DEF Next

\* Both invariants hold in every reachable state of council and observer.
THEOREM IndexInvariant == Spec => [](IInv /\ IndexInv)
<1>1. Init => IInv /\ IndexInv
    BY InitInvariant, IndexInit DEF Init
<1>2. (IInv /\ IndexInv) /\ [Next]_vars => (IInv /\ IndexInv)'
    BY IndexNext
<1>3. QED
    BY <1>1, <1>2, PTL DEF Spec

\* What the events tell is a state and a date.
LEMMA ToldType ==
    ASSUME LogInv(proposals, log, block), NEW id, NEW m \in 0 .. Len(log), NEW x
    PROVE  /\ StateAt(log, id, m, x) => x \in ProposalState
           /\ EtaAt(log, id, m, x) => x \in Nat
<1>1. Len(log) \in Nat /\ \A i \in 1 .. Len(log) : log[i].topic = "ProposalQueued" => log[i].arg \in Nat
    BY LenProperties DEF LogInv, LogOK
<1>2. \A i \in 1 .. m : i \in 1 .. Len(log)
    BY <1>1
<1>3. \A t \in DOMAIN StateOf : StateOf[t] \in ProposalState
    BY DEF StateOf, ProposalState
<1>4. QED
    BY <1>1, <1>2, <1>3 DEF StateAt, EtaAt, Sets, Queues

\* The variables of the observer have their types, and no more documents than
\* proposals are stored.
THEOREM IndexerTypes == Spec => []TypeOK
<1>1. IInv /\ IndexInv => TypeOK
    <2> SUFFICES ASSUME IInv, IndexInv PROVE TypeOK
        OBVIOUS
    <2>1. PICK n \in 0 .. Len(log) : Seen(n) /\ Stored(n)
        BY DEF IndexInv
    <2>2. /\ LogInv(proposals, log, block) /\ PollInv /\ Len(log) \in Nat /\ Len(proposals) \in Nat
          /\ Len(proposals) <= MaxProposals /\ MaxProposals \in Nat
        BY IndexFacts, CouncilAssumption DEF LogInv
    <2>3. ASSUME NEW pid \in DOMAIN docs
          PROVE  docs[pid] \in [eta : Nat, state : ProposalState]
        <3>1. /\ docs[pid] = [eta |-> docs[pid].eta, state |-> docs[pid].state]
              /\ \E m \in n .. Len(log) : StateAt(log, pid, m, docs[pid].state)
              /\ \E m \in n .. Len(log) : EtaAt(log, pid, m, docs[pid].eta)
            BY <2>1 DEF Stored
        <3>2. \A m \in n .. Len(log) : m \in 0 .. Len(log)
            BY <2>2
        <3>3. docs[pid].state \in ProposalState
            BY <2>2, <3>1, <3>2, ToldType
        <3>4. docs[pid].eta \in Nat
            BY <2>2, <3>1, <3>2, ToldType
        <3>5. QED
            BY <3>1, <3>3, <3>4
    <2>4. DOMAIN docs \subseteq 1 .. MaxProposals
        <3>1. DOMAIN docs \subseteq 1 .. Len(proposals)
            BY <2>1 DEF Stored
        <3>2. QED
            BY <2>2, <3>1
    <2>5. CouncilTypeOK
        BY DEF IInv, TermOK
    <2>6. QED
        BY <2>2, <2>3, <2>4, <2>5 DEF TypeOK, PollInv
<1>2. QED
    BY <1>1, IndexInvariant, PTL

\* The checkpoint is saved after what it covers is stored (lastCheckPoint is
\* written once the poll has processed its events): no crash loses an event.
THEOREM NothingMissed == Spec => []CheckPointCovered
<1>1. IndexInv => CheckPointCovered
    <2> SUFFICES ASSUME IndexInv PROVE CheckPointCovered
        OBVIOUS
    <2>1. PICK n \in 0 .. Len(log) : Seen(n) /\ Stored(n)
        BY DEF IndexInv
    <2>2. /\ LogInv(proposals, log, block) /\ log \in Seq(Entry) /\ Len(log) \in Nat
          /\ savedCheckPoint \in Nat
          /\ EventsUntil(savedCheckPoint) \in 0 .. Len(log) /\ EventsUntil(target) \in 0 .. Len(log)
        BY IndexFacts
    <2>3. EventsUntil(savedCheckPoint) <= n
        BY <2>1, <2>2 DEF Seen
    <2>4. DOMAIN log = 1 .. Len(log) /\ DOMAIN voterDocs = 1 .. Len(voterDocs)
        BY <2>1, <2>2, LenProperties DEF Stored
    <2>5. ASSUME NEW i \in 1 .. Len(log), log[i].block <= savedCheckPoint
          PROVE  /\ log[i].topic = "ProposalCreated" => log[i].id \in DOMAIN docs
                 /\ log[i].topic = "ProposalVoted" =>
                        \E k \in 1 .. Len(voterDocs) :
                            voterDocs[k] = [pid |-> log[i].id, voter |-> log[i].arg]
        <3>1. savedCheckPoint \in Int
            BY <2>2
        <3>2. i <= EventsUntil(savedCheckPoint)
            BY <2>2, <2>5, <3>1, EventsCounted
        <3>3. i \in 1 .. n
            BY <2>2, <2>3, <3>2
        <3>4. QED
            BY <2>1, <3>3 DEF Stored
    <2>6. QED
        BY <2>4, <2>5 DEF CheckPointCovered
<1>2. QED
    BY <1>1, IndexInvariant, PTL

\* What fails a poll is a rejected call, or a document it has stored before; and
\* that it meets only after a crash between the document and the checkpoint:
\* every poll starts where the last one that ended has ended.
THEOREM FaultsFail == Spec => []FailsOnlyAfterFault
<1>1. IndexInv => FailsOnlyAfterFault
    <2> SUFFICES ASSUME IndexInv PROVE FailsOnlyAfterFault
        OBVIOUS
    <2>1. crashes \in Nat
        BY IndexerAssumption DEF IndexInv, PollInv
    <2>2. phase = "processing" /\ Duplicate => crashes > 0
        BY <2>1, DuplicateCrashed
    <2>3. QED
        BY <2>2 DEF IndexInv, PollInv, FailsOnlyAfterFault
<1>2. QED
    BY <1>1, IndexInvariant, PTL

\* Every document a query finds is on one of its pages, and no other is.
LEMMA PageOfEach ==
    ASSUME Len(proposals) \in Nat, DOMAIN docs \subseteq 1 .. Len(proposals),
           NEW id \in DOMAIN docs, NEW word, NEW limit \in Nat \ {0}
    PROVE  Listed(id, word, limit) <=> docs[id].state \in Queried(word)
<1> DEFINE found == {pid \in DOMAIN docs : docs[pid].state \in Queried(word)}
           place == Cardinality({p \in found : p > id})
           top == Len(proposals)
<1>1. \A skip : GetProposals(Queried(word), skip, limit).docs =
          {pid \in found : Cardinality({p \in found : p > pid}) \in skip .. skip + limit - 1}
    BY DEF GetProposals
<1>2. place \in 0 .. top
    <2> DEFINE later == {p \in found : p > id}
    <2>1. later \subseteq 1 .. top
        OBVIOUS
    <2>2. IsFiniteSet(1 .. top) /\ Cardinality(1 .. top) = top
        <3>1. top \in Nat
            OBVIOUS
        <3> HIDE DEF top
        <3>2. 1 \in Int /\ top \in Int
            BY <3>1
        <3>3. IsFiniteSet(1 .. top)
            BY <3>2, FS_Interval
        <3>4. Cardinality(1 .. top) = IF 1 > top THEN 0 ELSE top - 1 + 1
            BY <3>2, FS_Interval, Zenon
        <3>5. QED
            BY <3>1, <3>3, <3>4
    <2> HIDE DEF later
    <2>3. Cardinality(later) \in Nat /\ Cardinality(later) <= top
        BY <2>1, <2>2, FS_Subset, FS_CardinalityType
    <2>4. QED
        BY <2>3 DEF later
<1>3. \E page \in 0 .. top : place \in page * limit .. page * limit + limit - 1
    <2> HIDE DEF place, top
    <2>1. top + 1 \in Nat /\ top \in Nat
        BY DEF top
    <2>2. limit * (top + 1) >= top + 1
        <3>1. limit * (top + 1) = (limit - 1) * (top + 1) + (top + 1)
            BY <2>1
        <3>2. (limit - 1) * (top + 1) >= 0
            BY <2>1
        <3>3. QED
            BY <2>1, <3>1, <3>2
    <2>3. place \in 0 .. (limit * (top + 1) - 1)
        BY <1>2, <2>1, <2>2
    <2> DEFINE page == place \div limit
               rest == place % limit
               rows == top + 1
    <2>4. page \in 0 .. rows - 1 /\ rest \in 0 .. limit - 1 /\ place = limit * page + rest
        <3>1. rows \in Nat /\ place \in 0 .. (limit * rows - 1)
            BY <2>1, <2>3
        <3> HIDE DEF rows
        <3>2. QED
            BY <3>1, RowAndColumn
    <2> HIDE DEF page, rest
    <2>5. page \in 0 .. top /\ page * limit = limit * page /\ page * limit \in Nat
        BY <2>1, <2>4
    <2>6. place \in page * limit .. page * limit + limit - 1
        BY <2>4, <2>5
    <2>7. QED
        BY <2>5, <2>6
<1>4. ASSUME Listed(id, word, limit)
      PROVE  id \in found
    <2>1. PICK page \in 0 .. top : id \in GetProposals(Queried(word), page * limit, limit).docs
        BY <1>4 DEF Listed
    <2>2. QED
        BY <1>1, <2>1
<1>5. ASSUME id \in found
      PROVE  Listed(id, word, limit)
    <2>1. PICK page \in 0 .. top : place \in page * limit .. page * limit + limit - 1
        BY <1>3
    <2>2. id \in GetProposals(Queried(word), page * limit, limit).docs
        BY <1>1, <1>5, <2>1
    <2>3. QED
        BY <2>2 DEF Listed
<1>6. QED
    BY <1>4, <1>5

\* When the observer has caught up, the queries answer what the council says
\* of its proposals: each is on a page of the list, and of the list of its
\* state and of no other, with its date, and unless the server crashed with
\* one document per vote (getProposals, getProposalDetail).
THEOREM QueriesAgree == Spec => []IndexAgrees
<1>1. IInv /\ IndexInv => IndexAgrees
    <2> SUFFICES ASSUME IInv, IndexInv, UpToDate
                 PROVE  IndexAgrees
        BY DEF IndexAgrees
    <2> DEFINE top == Len(proposals)
               l == Len(log)
    <2>1. PICK n \in 0 .. Len(log) : Seen(n) /\ Stored(n)
        BY DEF IndexInv
    <2>2. /\ LogInv(proposals, log, block) /\ PollInv /\ log \in Seq(Entry)
          /\ l \in Nat /\ top \in Nat /\ savedCheckPoint \in Nat
          /\ DOMAIN log = 1 .. l /\ DOMAIN proposals = 1 .. top
          /\ DOMAIN voterDocs = 1 .. Len(voterDocs)
        BY <2>1, IndexFacts, LenProperties DEF LogInv, AllCount, Stored
    <2>3. n = l
        <3>1. n = EventsUntil(savedCheckPoint) /\ lastCheckPoint = savedCheckPoint
            BY <2>1, <2>2 DEF UpToDate, Seen, PollInv
        <3>2. \A i \in 1 .. l : log[i].block <= savedCheckPoint
            BY <2>2, <3>1 DEF UpToDate
        <3>3. \A i \in 1 .. l : i <= EventsUntil(savedCheckPoint)
            <4>1. savedCheckPoint \in Int
                BY <2>2
            <4>2. QED
                BY <2>2, <3>2, <4>1, EventsCounted
        <3>4. QED
            BY <2>2, <3>1, <3>3
    <2>4. DOMAIN docs = 1 .. top
        <3>1. DOMAIN docs \subseteq 1 .. top
            BY <2>1 DEF Stored
        <3>2. ASSUME NEW id \in 1 .. top
              PROVE  id \in DOMAIN docs
            <4>1. PICK i \in 1 .. l : Creates(log[i], id)
                BY <2>2 DEF LogInv, LogOK
            <4>2. QED
                BY <2>1, <2>3, <4>1 DEF Stored, Creates
        <3>3. QED
            BY <3>1, <3>2
    <2>5. ASSUME NEW id \in 1 .. top
          PROVE  /\ docs[id].eta = proposals[id].eta
                 /\ CanceledInVain(id) \/ docs[id].state = proposals[id].state
                 /\ docs[id].state \in ProposalState
                 /\ crashes = 0 => Cardinality(VoteDocs(id)) = proposals[id].ayes - 1
        <3>1. Told(log, id, proposals[id])
            BY <2>2 DEF LogInv
        <3>2. StateAt(log, id, l, docs[id].state) /\ EtaAt(log, id, l, docs[id].eta)
            <4>1. l \in Int /\ n = l
                BY <2>2, <2>3
            <4> HIDE DEF l
            <4>2. \A m \in n .. l : m = l
                BY <4>1
            <4>3. QED
                BY <2>1, <2>4, <4>2 DEF Stored, l
        <3>3. CanceledInVain(id) <=> InVain(log, id)
            BY <2>2 DEF CanceledInVain, InVain
        <3>4. /\ \A x, y : StateAt(log, id, l, x) /\ StateAt(log, id, l, y) => x = y
              /\ \A x, y : EtaAt(log, id, l, x) /\ EtaAt(log, id, l, y) => x = y
            BY <2>2, ToldOnce
        <3>5. /\ InVain(log, id) \/ StateAt(log, id, l, proposals[id].state)
              /\ EtaAt(log, id, l, proposals[id].eta)
              /\ Cardinality(VotesAt(log, id, l)) = proposals[id].ayes - 1
            BY <3>1 DEF Told
        <3>6. docs[id].state \in ProposalState
            <4>1. l \in 0 .. l
                BY <2>2
            <4>2. QED
                BY <2>2, <3>2, <4>1, ToldType
        <3>7. crashes = 0 => Cardinality(VoteDocs(id)) = Cardinality(VotesAt(log, id, l))
            BY <2>1, <2>3 DEF Stored, UpToDate
        <3>8. QED
            BY <3>2, <3>3, <3>4, <3>5, <3>6, <3>7
    <2>6. GetProposals(Queried("all"), 0, 0).count = top
        <3>1. Queried("all") = ProposalState
            BY DEF Queried
        <3>2. {pid \in DOMAIN docs : docs[pid].state \in ProposalState} = 1 .. top
            BY <2>4, <2>5
        <3>3. Cardinality(1 .. top) = top
            <4> HIDE DEF top
            <4>1. QED
                BY <2>2, FS_Interval
        <3>4. QED
            BY <3>1, <3>2, <3>3 DEF GetProposals
    <2>7. ASSUME NEW id \in 1 .. top, NEW limit \in 1 .. 25
          PROVE  /\ Listed(id, "all", limit)
                 /\ \A word \in {"pending", "queued", "executed"} :
                        \/ CanceledInVain(id)
                        \/ (proposals[id].state \in Queried(word)) <=> Listed(id, word, limit)
        <3>1. limit \in Nat \ {0} /\ id \in DOMAIN docs /\ DOMAIN docs \subseteq 1 .. top
            BY <2>4
        <3>2. \A word : Listed(id, word, limit) <=> docs[id].state \in Queried(word)
            BY <2>2, <3>1, PageOfEach
        <3>3. Queried("all") = ProposalState
            BY DEF Queried
        <3>4. QED
            BY <2>5, <3>2, <3>3
    <2>8. ASSUME NEW id \in 1 .. top
          PROVE  LET detail == GetProposalDetail(id)
                 IN  /\ detail.proposal.eta = proposals[id].eta
                     /\ CanceledInVain(id) \/ detail.proposal.state = proposals[id].state
                     /\ crashes = 0 => Cardinality(detail.voters) = proposals[id].ayes - 1
        <3>1. GetProposalDetail(id).proposal = docs[id]
              /\ GetProposalDetail(id).voters = VoteDocs(id)
            BY <2>2 DEF GetProposalDetail, VoteDocs
        <3>2. QED
            BY <2>5, <3>1
    <2> HIDE DEF top
    <2>9. QED
        BY <2>2, <2>6, <2>7, <2>8 DEF IndexAgrees, top
<1>2. QED
    BY <1>1, IndexInvariant, PTL
=============================================================================
