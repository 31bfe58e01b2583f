---------------------------- MODULE VoteRegister ----------------------------
(***************************************************************************)
(* What the votes of the RDS token promise, without checkpoints: a         *)
(* representative has the votes of the balances delegated to it, and at    *)
(* the end of every block its votes are entered once and for all.          *)
(***************************************************************************)
EXTENDS Integers, Sequences, TokenSums

CONSTANTS Accounts, Zero

VARIABLES block, balances, delegates,
          past    \* past[b][a]: the votes of a at the end of block b

\* What each holder contributes to the votes of `a`, and the votes.
DelegatedTo(a) == [h \in Accounts |-> IF delegates[h] = a THEN balances[h] ELSE 0]
VotesOf(a) == Total(DelegatedTo(a))

RegisterInit ==
    /\ block = 1
    /\ balances \in [Accounts -> Nat]
    /\ delegates = [h \in Accounts |-> Zero]
    /\ past = <<>>

\* Within a block tokens and delegations move, and nothing is entered.
WithinBlock ==
    /\ balances' \in [Accounts -> Nat]
    /\ delegates' \in [Accounts -> Accounts \cup {Zero}]
    /\ UNCHANGED <<block, past>>

EndOfBlock ==
    /\ block' = block + 1
    /\ past' = Append(past, [a \in Accounts |-> VotesOf(a)])
    /\ UNCHANGED <<balances, delegates>>

RegisterSpec ==
    RegisterInit /\ [][WithinBlock \/ EndOfBlock]_<<block, balances, delegates, past>>
=============================================================================
