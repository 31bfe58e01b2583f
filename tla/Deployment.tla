----------------------------- MODULE Deployment -----------------------------
(***************************************************************************)
(* The deployment of the protocol (migrations/*.js): which contracts are   *)
(* made, and the transactions that register and wire them.  truffle runs   *)
(* the migrations in order and records each in a transaction of its own; a *)
(* run that fails is started again at the first migration not recorded,    *)
(* which makes all the contracts of that migration anew.                   *)
(*                                                                         *)
(* Migrations 1, 4 and 9 (an account's funds, mocks, a message) wire       *)
(* nothing and are left out.  A contract is <<name, n>> when the n-th run  *)
(* of its migration made it; those of a run that failed while making them  *)
(* are named by nothing later and are not counted.                         *)
(***************************************************************************)
EXTENDS Orchestrator, Sequences, FiniteSets, Functions

CONSTANTS
    Admin,         \* accounts[0]
    Networks,      \* networks of truffle-config.js that are deployed to
    Assets,        \* symbols of the markets that are set up concurrently
    LpTokens,      \* names of the fake LP tokens, in the order of their pools
    MaxFailures    \* bound of the model

ASSUME DeploymentAssumption ==
    /\ Admin \in Addresses
    /\ Networks \subseteq {"unittest", "dev", "testnet", "mainnet"}
    /\ IsFiniteSet(Assets) /\ MaxFailures \in Nat
    /\ \A i, j \in DOMAIN LpTokens : LpTokens[i] = LpTokens[j] => i = j

VARIABLES
    network,
    migration,    \* the migration under way
    done,         \* its transactions that this run has made
    made,         \* made[m]: times migration m has made its contracts
    superior,     \* of the tokens RDS and DOL
    initialised,  \* markets that are initialized
    allMarkets,   \* MarketController: listed markets, in order
    pools,        \* Distributor: LP tokens with a pool
    admin, prices, \* FeedPriceOracle: the admin; whether it has prices
    failures

run == <<migration, done>>
markets == <<initialised, allMarkets>>
oracle == <<admin, prices>>
vars == <<registryVars, network, run, made, superior, markets, pools, oracle, failures>>

Init ==
    /\ RegistryInit
    /\ network \in Networks
    /\ migration = 2 /\ done = {}
    /\ made = [m \in {2, 3, 6, 8} |-> 0]
    /\ superior = [t \in {"RDS", "DOL"} |-> None]
    /\ initialised = {} /\ allMarkets = <<>> /\ pools = {}
    /\ admin = None /\ prices = FALSE
    /\ failures = 0

\* The migrations in order; 9 stands for the end.
Following == [m \in {2, 3, 5, 6, 7, 8} |-> IF m = 3 THEN 5 ELSE m + 1]
Finished == migration = 9

\* The council is made by migration 3, the other contracts by migration 2.
Contract(key) == <<key, made[IF key = "COUNCIL" THEN 3 ELSE 2]>>

\* The markets that are wired: RDOL, the assets', and in dev that of ether.
Symbols == {"DOL"} \cup Assets \cup (IF network = "dev" THEN {"ETH"} ELSE {})
MarketOf(s) == <<s, made[6]>>
LpToken(l) == <<l, made[8]>>

-----------------------------------------------------------------------------
(***************************************************************************)
(* The scripts: their transactions, and what each of them waits for.       *)
(***************************************************************************)
Live == network = "mainnet"
UnitTest == network = "unittest"

\* Migrations 2 and 3.
DeployScript == {<<"deploy">>}

\* Migration 5.
OrchestrateScript == IF UnitTest THEN {} ELSE {<<"initialize">>, <<"superior", "RDS">>}

\* Migration 6.
MarketsScript ==
    {<<"deploy">>}
    \cup IF UnitTest THEN {} ELSE {<<"superior", "DOL">>} \cup ({"setup", "support"} \X Symbols)

\* Migration 7.
OracleScript == IF UnitTest \/ Live THEN {} ELSE {<<"changeAdmin">>, <<"setPrices">>}

\* Migration 8.
PoolsScript ==
    IF UnitTest \/ Live THEN {} ELSE {<<"deploy">>} \cup ({"pool"} \X Range(LpTokens))

Scripts ==
    [m \in DOMAIN Following |->
        CASE m \in {2, 3} -> DeployScript
          [] m = 5 -> OrchestrateScript
          [] m = 6 -> MarketsScript
          [] m = 7 -> OracleScript
          [] m = 8 -> PoolsScript]

\* The pools are created one after the other.
Before(tx) ==
    LET n == CHOOSE i \in DOMAIN LpTokens : LpTokens[i] = tx[2]
    IN  {<<"pool", LpTokens[i]>> : i \in 1 .. n - 1}

\* Mutant: RDOL is set up before it is made the superior of DOL.
AwaitedSetupFirst(tx) ==
    IF tx \in {<<"deploy">>, <<"initialize">>, <<"changeAdmin">>} THEN {}
    ELSE IF tx = <<"superior", "RDS">> THEN {<<"initialize">>}
    ELSE IF tx = <<"setPrices">> THEN {<<"changeAdmin">>}
    ELSE IF tx = <<"superior", "DOL">> THEN {<<"setup", "DOL">>}
    ELSE IF tx[1] = "support" THEN {<<"setup", tx[2]>>}
    ELSE {<<"deploy">>}

\* The transactions a script has awaited when it makes tx.  The markets of the
\* assets are set up concurrently (Promise.all), after RDOL and before REther.
Awaited(tx) ==
    IF tx \in {<<"deploy">>, <<"initialize">>, <<"changeAdmin">>} THEN {}
    ELSE IF tx = <<"superior", "RDS">> THEN {<<"initialize">>}
    ELSE IF tx = <<"setPrices">> THEN {<<"changeAdmin">>}
    ELSE IF tx = <<"setup", "DOL">> THEN {<<"superior", "DOL">>}
    ELSE IF tx[1] = "pool" THEN {<<"deploy">>} \cup Before(tx)
    ELSE IF tx = <<"setup", "ETH">> THEN {"support"} \X ({"DOL"} \cup Assets)
    ELSE IF tx[1] = "setup" THEN {<<"support", "DOL">>}
    ELSE IF tx[1] = "support" THEN {<<"setup", tx[2]>>}
    ELSE {<<"deploy">>}

\* The script makes transaction tx.
Make(tx) ==
    /\ ~Finished
    /\ tx \in Scripts[migration] \ done
    /\ Awaited(tx) \subseteq done
    /\ done' = done \cup {tx}
    /\ UNCHANGED <<network, migration, failures>>

OnlyCouncil == guardian = Admin

-----------------------------------------------------------------------------
(***************************************************************************)
(* The transactions.  One that reverts is not enabled: the run fails.      *)
(***************************************************************************)
Deploy ==
    /\ Make(<<"deploy">>)
    /\ made' = [made EXCEPT ![migration] = @ + 1]
    /\ UNCHANGED <<registryVars, superior, markets, pools, oracle>>

InitializeRegistry ==
    /\ Make(<<"initialize">>)
    /\ Initialize(Admin, [k \in InitialKeys |-> Contract(k)])
    /\ UNCHANGED <<made, superior, markets, pools, oracle>>

\* RDS is minted by the distributor, DOL by the market of DOL.
SetSuperior(token, contract) ==
    /\ Make(<<"superior", token>>)
    /\ OnlyCouncil
    /\ superior' = [superior EXCEPT ![token] = contract]
    /\ UNCHANGED <<registryVars, made, markets, pools, oracle>>

\* initialize of a market; that of RDOL mints the genesis supply of DOL.  The
\* addresses of the underlyings are supposed known: for mainnet addresses.json
\* holds empty strings, which whoever deploys fills in first.
Setup(s) ==
    /\ Make(<<"setup", s>>)
    /\ MarketOf(s) \notin initialised
    /\ s = "DOL" => superior["DOL"] = MarketOf("DOL")
    /\ initialised' = initialised \cup {MarketOf(s)}
    /\ UNCHANGED <<registryVars, made, superior, allMarkets, pools, oracle>>

Support(s) ==
    /\ Make(<<"support", s>>)
    /\ OnlyCouncil
    /\ \A i \in DOMAIN allMarkets : allMarkets[i] # MarketOf(s)
    /\ allMarkets' = Append(allMarkets, MarketOf(s))
    /\ UNCHANGED <<registryVars, made, superior, initialised, pools, oracle>>

\* changeAdmin refuses the admin there is.
ChangeAdmin ==
    /\ Make(<<"changeAdmin">>)
    /\ OnlyCouncil /\ admin # Admin
    /\ admin' = Admin
    /\ UNCHANGED <<registryVars, made, superior, markets, pools, prices>>

SetPrices ==
    /\ Make(<<"setPrices">>)
    /\ admin = Admin
    /\ prices' = TRUE
    /\ UNCHANGED <<registryVars, made, superior, markets, pools, admin>>

CreatePool(l) ==
    /\ Make(<<"pool", l>>)
    /\ OnlyCouncil /\ LpToken(l) \notin pools
    /\ pools' = pools \cup {LpToken(l)}
    /\ UNCHANGED <<registryVars, made, superior, markets, oracle>>

\* Mutant: the markets of Promise.all are not awaited.
SaveMigrationEarly ==
    /\ ~Finished
    /\ {tx \in Scripts[migration] : tx[1] \notin {"setup", "support"}} \subseteq done
    /\ migration' = Following[migration]
    /\ done' = {}
    /\ UNCHANGED <<registryVars, network, made, superior, markets, pools, oracle, failures>>

\* External: truffle records the migration whose script has ended.
SaveMigration ==
    /\ ~Finished
    /\ Scripts[migration] \subseteq done
    /\ migration' = Following[migration]
    /\ done' = {}
    /\ UNCHANGED <<registryVars, network, made, superior, markets, pools, oracle, failures>>

\* External: the run dies between two transactions and is started again.
Fail ==
    /\ done # {} /\ failures < MaxFailures
    /\ failures' = failures + 1
    /\ done' = {}
    /\ UNCHANGED <<registryVars, network, migration, made, superior, markets, pools, oracle>>

Script ==
    \/ Deploy
    \/ InitializeRegistry
    \/ SetSuperior("RDS", GetAddress("DISTRIBUTOR")) \/ SetSuperior("DOL", MarketOf("DOL"))
    \/ \E s \in Symbols : Setup(s) \/ Support(s)
    \/ ChangeAdmin \/ SetPrices
    \/ \E l \in Range(LpTokens) : CreatePool(l)
    \/ SaveMigration

Next == Script \/ Fail

\* Someone runs truffle until it is through, and the chain mines.
Spec == Init /\ [][Next]_vars /\ WF_vars(Script)

-----------------------------------------------------------------------------
(***************************************************************************)
(* Properties.                                                             *)
(***************************************************************************)

\* loadRTokens: the SDK keeps a market per symbol, the last of those listed.
RToken(s) ==
    LET listed == {i \in DOMAIN allMarkets : allMarkets[i][1] = s}
    IN  allMarkets[CHOOSE i \in listed : \A j \in listed : j <= i]

\* However often runs fail, a listed market is never met before it is set up;
\* and once all migrations are recorded, the protocol is wired: the registry
\* names the contracts in use, RDS is minted by the distributor behind its
\* proxy, DOL by one listed market alone, which is the one the SDK finds for
\* DOL, and every market the SDK finds is that of the last run
\* (5_orchestrate_contracts.js, 6_setup_markets.js, realdao.js:115).
Wired ==
    /\ \A i \in DOMAIN allMarkets : allMarkets[i] \in initialised
    /\ Finished /\ ~UnitTest =>
        /\ \A k \in ReplaceableKeys \cup ImmutableKeys : GetAddress(k) = Contract(k)
        /\ superior["RDS"] = GetAddress("DISTRIBUTOR")
        /\ \A s \in Symbols : (\E i \in DOMAIN allMarkets : allMarkets[i][1] = s)
                              /\ RToken(s) = MarketOf(s)
        /\ superior["DOL"] = RToken("DOL")
        /\ ~Live => prices /\ \A l \in Range(LpTokens) : LpToken(l) \in pools

\* A migration that cannot be run again: what it did first reverts the second
\* time (Orchestrator.sol:143, FeedPriceOracle.sol:69).
Halfway ==
    /\ done = {}
    /\ \/ migration = 5 /\ Registered("MARKET_CONTROLLER")
       \/ migration = 7 /\ admin = Admin

\* The deployment is completed by running it again after any failure, except
\* one between the transactions of migration 5 or of migration 7, or before
\* these are recorded.
Completes == <>(Finished \/ Halfway)
=============================================================================
