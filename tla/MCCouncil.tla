----------------------------- MODULE MCCouncil -----------------------------
(***************************************************************************)
(* Instances of the council and its indexer for TLC: periods of a few      *)
(* blocks, a first term of three, and a second of four that keeps two of   *)
(* them and names each of them twice.                                      *)
(***************************************************************************)
EXTENDS CouncilIndexer

CONSTANTS alice, bob, carol

MCFirstTerm == <<alice, bob, carol>>
MCTerms == {<<bob, bob, alice, alice>>}
=============================================================================
