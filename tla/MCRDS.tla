------------------------------- MODULE MCRDS -------------------------------
(***************************************************************************)
(* Instances of module RDS for TLC.                                        *)
(***************************************************************************)
EXTENDS RDS, TLC

CONSTANTS alice, bob

\* Two signatures with one nonce, one of them short-lived, and the next one.
SomeSignatures ==
    {[signatory |-> alice, delegatee |-> bob, nonce |-> 0, expiry |-> LastBlock],
     [signatory |-> alice, delegatee |-> alice, nonce |-> 0, expiry |-> 1],
     [signatory |-> alice, delegatee |-> Zero, nonce |-> 1, expiry |-> LastBlock]}

Allowing == {p \in Accounts \X Accounts : allowances[p[1]][p[2]] # 0}

\* An allowance and the cap, or signed delegations, in the first two blocks
\* only; votes and checkpoints of a supply of two all along.
EarlyTokens ==
    /\ Cardinality(Allowing) <= 1
    /\ Allowing = {} \/ applied = {}
    /\ block > 2 => Allowing = {} /\ applied = {}
    /\ block > 2 \/ applied # {} => totalSupply <= 2
=============================================================================
