--------------------------- MODULE MCDistributor ---------------------------
(***************************************************************************)
(* Instance of Distributor for TLC: two users, a money market and an LP    *)
(* token, so that a lending and an exchanging pool share the block reward, *)
(* a year of two blocks so that a halving happens, and a small fixed-point *)
(* scale so that the rounding of indexes and settlements happens.          *)
(***************************************************************************)
EXTENDS Distributor, TLC

AccountSymmetry == Permutations(Accounts)

\* Two users in the pool of the LP token, for as long as the blocks go.
OnePool ==
    /\ \A m \in Markets : market[m] = "None"
    /\ Len(pools) <= 1 /\ \A s \in PoolIds : pools[s].ptype = "EXCHANGING"
    /\ \A s \in PoolIds : pools[s].weight = 1

\* Two pools of any weight, none included, and the life of the market, for four
\* blocks, with one user of power two or none; the Distributor itself has power,
\* from the RTokens locked with it, while there is one pool.
OneUser ==
    /\ block <= 4
    /\ Cardinality({a \in Accounts : \E s \in PoolSeqs : accountRecords[s][a] # NewRecord}) <= 1
    /\ \A s \in PoolSeqs, a \in Holders : accountRecords[s][a].power \in {0, 2}
    /\ \A t \in Tokens : custody[t] \in {0, 2}
    /\ Len(pools) > 1 => \A s \in PoolSeqs : accountRecords[s][Self] = NewRecord

Focus == OnePool \/ OneUser
=============================================================================
