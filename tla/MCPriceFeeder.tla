---------------------------- MODULE MCPriceFeeder ----------------------------
(***************************************************************************)
(* Instance of the registry, the SDK's object and the price feeder for     *)
(* TLC.  Three parts of it are explored: Governing, where the registry      *)
(* does all it can; Loading, where the guardian governs and the object is  *)
(* used; and Feeding, where the feeder runs on top of its oracle handle.   *)
(***************************************************************************)
EXTENDS PriceFeeder, FiniteSets

CONSTANTS gov, council, democracy, server, controller, controller2, rds, oracle1, oracle2,
          pController, pOther

MCKeys == {"MARKET_CONTROLLER", "RDS", "ORACLE", "COUNCIL", "DEMOCRACY"}
MCProxyOf == [k \in MCKeys |-> IF k = "MARKET_CONTROLLER" THEN pController ELSE <<pOther, k>>]
MCAddresses == {gov, council, democracy, server, controller, controller2, rds, oracle1, oracle2}
               \cup {MCProxyOf[k] : k \in MCKeys}
MCCandidates ==
    [k \in MCKeys |-> CASE k = "MARKET_CONTROLLER" -> {controller, controller2}
                        [] k = "RDS" -> {rds}
                        [] k = "ORACLE" -> {oracle1, oracle2}
                        [] k = "COUNCIL" -> {council}
                        [] k = "DEMOCRACY" -> {democracy}]

Idle(k) == ~Loaded(k) /\ asked[k] = 0 /\ answers[k] = {}

NoFeeder == started = 0 /\ admin = [o \in Oracles |-> None]

Governing == NoFeeder /\ \A k \in Loadable : Idle(k)

\* The guardian is in charge, and keeps the kind of the entries it has made.
Early ==
    /\ guardian \in {None, gov}
    /\ implementation[pController] \in {None, controller}
    /\ GetAddress("COUNCIL") \in {None, council}
    /\ ~Registered("DEMOCRACY")
    /\ \A k \in {"COUNCIL", "ORACLE"} : Registered(k) =>
            contracts[k].variability = "Replaceable" /\ contracts[k].permission = "Council"

Loading == NoFeeder /\ Early /\ \E k \in Loadable : \A j \in Loadable \ {k} : Idle(j)

Feeding ==
    /\ Early /\ Registered("RDS") /\ Registered("COUNCIL") /\ Registered("ORACLE")
    /\ provider = "node"
    /\ \A k \in Loadable \ {"ORACLE"} : Idle(k)
    /\ asked["ORACLE"] + Cardinality(answers["ORACLE"]) <= IF feeding \/ Loaded("ORACLE") THEN 0 ELSE 1
    /\ \A o \in Oracles : admin[o] \in {None, server, gov}

Focus == Governing \/ Loading \/ Feeding
=============================================================================
