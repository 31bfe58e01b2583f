----------------------------- MODULE TokenSums -----------------------------
(***************************************************************************)
(* Sums over the ledgers of the protocol: balances, debts, mining powers.  *)
(* A ledger is a function from holders to naturals.  Its total is defined  *)
(* as the number of units it records (unit number k of holder a is the     *)
(* pair <<a, k>>), so that what an update does to a total follows from     *)
(* facts about finite sets and needs no induction.                         *)
(***************************************************************************)
EXTENDS Naturals, FiniteSets

\* The units that `ledger` records for `a`, and for all its holders.
UnitsOf(ledger, a) == {a} \X (1 .. ledger[a])
Units(ledger) == UNION {UnitsOf(ledger, a) : a \in DOMAIN ledger}

\* The sum of ledger[a] over all holders a.
Total(ledger) == Cardinality(Units(ledger))
=============================================================================
