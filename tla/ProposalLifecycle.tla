------------------------- MODULE ProposalLifecycle -------------------------
(***************************************************************************)
(* What the council promises about its proposals, without members, votes   *)
(* and calls: a proposal moves along the edges below, and its execution    *)
(* date is set when it is queued, in the future, and never moved.  Its     *)
(* call begins within the grace period after that date, ends in the same   *)
(* block, and begins again only as long as it has never ended and nobody   *)
(* has canceled the proposal.  Once begun, it leads to Executed, even for  *)
(* a proposal canceled meanwhile.                                          *)
(***************************************************************************)
EXTENDS Integers, Sequences

CONSTANT GracePeriod

VARIABLES
    block,
    life    \* life[id]: state, date and number of runs of a proposal

\* Running: in its call, and still queued.  Returning: in its call, with the
\* proposal already executed or canceled from within.
UnderWay == {"Running", "Returning"}

LifecycleInit == block \in Nat /\ life = <<>>

Created(new) == new = [state |-> "Pending", eta |-> 0, runs |-> 0]

Edge(old, new) ==
    \/ new = old
    \/ /\ old.state = "Pending" /\ new.state = "Queued" /\ new.eta > block
       /\ new.runs = old.runs
    \/ /\ new.eta = old.eta /\ new.runs = old.runs
       /\ \/ old.state = "Pending" /\ new.state \in {"Expired", "Canceled"}
          \/ old.state = "Queued" /\ new.state = "Canceled"
          \/ old.state = "Running" /\ new.state \in {"Returning", "Executed"}
          \/ old.state = "Returning" /\ new.state = "Executed"
    \/ /\ old.state \in {"Queued", "Running"} /\ new.state = "Running"
       /\ new.eta = old.eta /\ new.runs = old.runs + 1
       /\ old.eta <= block /\ block <= old.eta + GracePeriod

\* An operation may create a proposal, or move any number of them.
Operation ==
    /\ \/ Len(life') = Len(life)
       \/ Len(life') = Len(life) + 1 /\ Created(life'[Len(life')])
    /\ \A id \in 1 .. Len(life) : Edge(life[id], life'[id])
    /\ UNCHANGED block

\* No block ends in the middle of a call.
Tick ==
    /\ \A id \in 1 .. Len(life) : life[id].state \notin UnderWay
    /\ block' = block + 1 /\ UNCHANGED life

LifecycleSpec == LifecycleInit /\ [][Operation \/ Tick]_<<block, life>>
=============================================================================
