------------------------------ MODULE MCLending ----------------------------
(***************************************************************************)
(* Instances of Lending for TLC.  The scale is small, so that truncation   *)
(* costs a lot and often; the rates per block are high, so that a few      *)
(* units of debt bear interest in one block.                               *)
(***************************************************************************)
EXTENDS Lending, TLC

CONSTANTS
    OtherRate,     \* initial exchange rate of the markets but rDOL
    OtherPrices,   \* their prices; DOL is worth one unit of value
    SystemSuppliers, OtherSuppliers, SystemBorrowers, OtherBorrowers

MCInitialRate == [m \in Markets |-> IF m = SystemMarket THEN Scale ELSE OtherRate]

MCPrices == [m \in Markets |-> IF m = SystemMarket THEN {Scale} ELSE OtherPrices]
MCSuppliers == [m \in Markets |-> IF m = SystemMarket THEN SystemSuppliers ELSE OtherSuppliers]
MCBorrowers == [m \in Markets |-> IF m = SystemMarket THEN SystemBorrowers ELSE OtherBorrowers]

\* A year of two blocks.
Flat == ModelOf(2, 1, 12, Scale \div 2, 2)
Idle == ModelOf(0, 0, 0, Scale \div 2, 2)
Steep == ModelOf(2 * ((3 * Scale) \div 20), 1, 12, Scale \div 2, 2)

SteepOnly == {Steep}
FlatOrIdle == {Flat, Idle}

\* Interest and prices move while all the pools are open; a pool opens upon what
\* was borrowed before, markets are closed and the protocol is suspended in the
\* first block, at the higher price.
Focus ==
    \/ /\ rateModel = Flat /\ ~suspended /\ activePools = Markets
       /\ \A m \in Markets : market[m] = "Listed"
    \/ /\ rateModel = Idle /\ block = 1
       /\ \A m \in Markets \ {SystemMarket} : \A p \in Prices[m] : p <= price[m]

UserSymmetry == Permutations(Users)
=============================================================================
