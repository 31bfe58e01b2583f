-------------------------- MODULE MCAccountIndexer --------------------------
(***************************************************************************)
(* Instances of the account pipeline for TLC.                              *)
(***************************************************************************)
EXTENDS AccountIndexer

CONSTANTS alice, bob

\* A redemption of alice, a transfer to her from the token itself (which is a
\* mint), a repayment of her debt by bob, and interest: those of the accounts
\* of the instance.
MCEvents ==
    {e \in {[topic |-> "Redeem", party |-> alice, other |-> alice],
            [topic |-> "Transfer", party |-> Own, other |-> alice],
            [topic |-> "RepayBorrow", party |-> bob, other |-> alice],
            [topic |-> "AccrueInterest", party |-> Own, other |-> Own]} :
        {e.party, e.other} \subseteq Accounts \cup {Own}}
=============================================================================
