-------------------------- MODULE DeploymentProofs --------------------------
(***************************************************************************)
(* The deployment ends wired, for any assets, LP tokens and addresses, and *)
(* any number of runs that fail and are started again.                     *)
(***************************************************************************)
EXTENDS Deployment, SequenceTheorems, TLAPS

\* The migrations recorded, and the transactions of their scripts.
Recorded == {m \in DOMAIN Following : m < migration}
Past == UNION {Scripts[m] : m \in Recorded}

\* A transaction is made after those it awaits.
InOrder == \A tx \in done : Awaited(tx) \subseteq done

Types ==
    /\ network \in {"unittest", "dev", "testnet", "mainnet"}
    /\ migration \in {2, 3, 5, 6, 7, 8, 9}
    /\ made \in [{2, 3, 6, 8} -> Nat]
    /\ DOMAIN superior = {"RDS", "DOL"} /\ DOMAIN contracts = Keys
    /\ allMarkets \in Seq(Symbols \X Nat)
    /\ done \subseteq IF Finished THEN {} ELSE Scripts[migration]

\* The last market listed under a symbol is that of the last run.
ListedLast(s) ==
    \E i \in 1 .. Len(allMarkets) :
        /\ allMarkets[i] = MarketOf(s)
        /\ \A j \in 1 .. Len(allMarkets) : allMarkets[j][1] = s => j <= i

\* What a transaction leaves behind.
Holds(tx) ==
    /\ tx = <<"initialize">> =>
           /\ Registered("MARKET_CONTROLLER")
           /\ \A k \in ReplaceableKeys \cup ImmutableKeys : GetAddress(k) = Contract(k)
    /\ tx = <<"superior", "RDS">> => superior["RDS"] = GetAddress("DISTRIBUTOR")
    /\ tx = <<"superior", "DOL">> => superior["DOL"] = MarketOf("DOL")
    /\ \A s \in Symbols : tx = <<"setup", s>> => MarketOf(s) \in initialised
    /\ \A s \in Symbols : tx = <<"support", s>> => ListedLast(s)
    /\ tx = <<"setPrices">> => prices = TRUE
    /\ \A l : tx = <<"pool", l>> => LpToken(l) \in pools

ListedInitialised == \A i \in 1 .. Len(allMarkets) : allMarkets[i] \in initialised

WiredInv ==
    /\ Types /\ InOrder /\ ListedInitialised
    /\ \A tx \in Past \cup done : Holds(tx)

-----------------------------------------------------------------------------
(***************************************************************************)
(* The scripts.                                                            *)
(***************************************************************************)
LEMMA ScriptsAre ==
    /\ DOMAIN Following = {2, 3, 5, 6, 7, 8} /\ DOMAIN Scripts = {2, 3, 5, 6, 7, 8}
    /\ Scripts[2] = DeployScript /\ Scripts[3] = DeployScript /\ Scripts[5] = OrchestrateScript
    /\ Scripts[6] = MarketsScript /\ Scripts[7] = OracleScript /\ Scripts[8] = PoolsScript
BY DEF Following, Scripts

\* In what migration a transaction is made.
LEMMA MadeWhere ==
    ASSUME NEW m \in {2, 3, 5, 6, 7, 8}, NEW tx \in Scripts[m]
    PROVE  /\ tx = <<"initialize">> => m = 5
           /\ tx = <<"superior", "RDS">> => m = 5
           /\ tx = <<"superior", "DOL">> => m = 6
           /\ \A s : tx = <<"setup", s>> \/ tx = <<"support", s>> => m = 6
           /\ tx = <<"setPrices">> => m = 7
           /\ \A l : tx = <<"pool", l>> => m = 8
           /\ tx = <<"deploy">> => m \in {2, 3, 6, 8}
<1>1. CASE m \in {2, 3}
    BY <1>1, ScriptsAre DEF DeployScript
<1>2. CASE m = 5
    BY <1>2, ScriptsAre DEF OrchestrateScript
<1>3. CASE m = 6
    BY <1>3, ScriptsAre DEF MarketsScript
<1>4. CASE m = 7
    BY <1>4, ScriptsAre DEF OracleScript
<1>5. CASE m = 8
    BY <1>5, ScriptsAre DEF PoolsScript
<1>6. QED
    BY <1>1, <1>2, <1>3, <1>4, <1>5

\* What is made of markets and pools waits for the contracts.
LEMMA AwaitsDeploy ==
    ASSUME InOrder
    PROVE  /\ <<"superior", "DOL">> \in done => <<"deploy">> \in done
           /\ \A s : <<"support", s>> \in done => <<"setup", s>> \in done
           /\ \A s : <<"setup", s>> \in done => <<"deploy">> \in done
           /\ \A l : <<"pool", l>> \in done => <<"deploy">> \in done
<1>1. Awaited(<<"superior", "DOL">>) = {<<"deploy">>}
    BY DEF Awaited
<1>2. \A s : Awaited(<<"support", s>>) = {<<"setup", s>>}
    BY DEF Awaited
<1>3. Awaited(<<"setup", "DOL">>) = {<<"superior", "DOL">>}
    BY DEF Awaited
<1>4. \A s : s # "DOL" => <<"support", "DOL">> \in Awaited(<<"setup", s>>)
    BY DEF Awaited
<1>5. \A l : <<"deploy">> \in Awaited(<<"pool", l>>)
    BY DEF Awaited
<1>6. <<"superior", "DOL">> \in done => <<"deploy">> \in done
    BY <1>1 DEF InOrder
<1>7. \A s : <<"support", s>> \in done => <<"setup", s>> \in done
    BY <1>2 DEF InOrder
<1>8. \A s : <<"setup", s>> \in done => <<"deploy">> \in done
    BY <1>3, <1>4, <1>6, <1>7 DEF InOrder
<1>9. \A l : <<"pool", l>> \in done => <<"deploy">> \in done
    BY <1>5 DEF InOrder
<1>10. QED
    BY <1>6, <1>7, <1>8, <1>9

LEMMA PastWhere ==
    ASSUME Types, NEW tx \in Past
    PROVE  \E m \in {2, 3, 5, 6, 7, 8} : m < migration /\ tx \in Scripts[m]
BY ScriptsAre DEF Past, Recorded

LEMMA WiredInit ==
    ASSUME Init
    PROVE  WiredInv
<1>1. network \in {"unittest", "dev", "testnet", "mainnet"}
    BY DeploymentAssumption DEF Init
<1>2. allMarkets = <<>> /\ migration = 2 /\ done = {}
    BY DEF Init
<1>3. Past = {}
    BY <1>2, ScriptsAre DEF Past, Recorded
<1>4. Types
    BY <1>1, <1>2 DEF Types, Init, RegistryInit, Finished
<1>5. QED
    BY <1>2, <1>3, <1>4 DEF WiredInv, InOrder, ListedInitialised

\* What every transaction of a script does to the run.
LEMMA Made ==
    ASSUME WiredInv, NEW tx, Make(tx)
    PROVE  /\ migration \in {2, 3, 5, 6, 7, 8} /\ tx \in Scripts[migration] /\ tx \notin done
           /\ done \subseteq Scripts[migration]
           /\ Awaited(tx) \subseteq done /\ done' = done \cup {tx}
           /\ UNCHANGED <<network, migration, Scripts, Past, Symbols>>
           /\ done' \subseteq (IF Finished THEN {} ELSE Scripts[migration])' /\ InOrder'
<1>1. /\ ~Finished /\ tx \in Scripts[migration] \ done /\ Awaited(tx) \subseteq done
      /\ done' = done \cup {tx} /\ UNCHANGED <<network, migration>>
    BY DEF Make
<1>2. UNCHANGED <<Scripts, Symbols, Finished>>
    BY <1>1 DEF Scripts, DeployScript, OrchestrateScript, MarketsScript, OracleScript,
                PoolsScript, UnitTest, Live, Symbols, Finished
<1>3. Past' = Past
    BY <1>1, <1>2 DEF Past, Recorded
<1>4. InOrder'
    BY <1>1 DEF WiredInv, InOrder
<1>5. done \subseteq Scripts[migration] /\ migration \in {2, 3, 5, 6, 7, 8}
    BY <1>1 DEF WiredInv, Types, Finished
<1>6. QED
    BY <1>1, <1>2, <1>3, <1>4, <1>5

\* A transaction that undoes nothing and does its own part keeps the invariant.
LEMMA MadeKeeps ==
    ASSUME WiredInv, NEW tx, Make(tx), Holds(tx)',
           \A x \in Past \cup done : Holds(x) => Holds(x)',
           made' \in [{2, 3, 6, 8} -> Nat],
           DOMAIN superior' = {"RDS", "DOL"}, DOMAIN contracts' = Keys,
           allMarkets' \in Seq(Symbols \X Nat), ListedInitialised'
    PROVE  WiredInv'
<1>1. /\ done' = done \cup {tx} /\ UNCHANGED <<network, migration, Past, Symbols>>
      /\ done' \subseteq (IF Finished THEN {} ELSE Scripts[migration])' /\ InOrder'
    BY Made
<1>2. Types'
    BY <1>1 DEF WiredInv, Types
<1>3. \A x \in Past' \cup done' : Holds(x)'
    BY <1>1 DEF WiredInv
<1>4. QED
    BY <1>1, <1>2, <1>3 DEF WiredInv

LEMMA WiredDeploy ==
    ASSUME WiredInv, Deploy
    PROVE  WiredInv'
<1> DEFINE tx == <<"deploy">>
<1>1. /\ Make(tx) /\ made' = [made EXCEPT ![migration] = @ + 1]
      /\ UNCHANGED <<contracts, superior, initialised, allMarkets, pools, prices>>
    BY DEF Deploy, registryVars, markets, oracle
<1>2. /\ migration \in {2, 3, 5, 6, 7, 8} /\ tx \in Scripts[migration] /\ tx \notin done
      /\ done \subseteq Scripts[migration] /\ UNCHANGED <<migration, Symbols>>
    BY <1>1, Made
<1>3. migration \in {2, 3, 6, 8}
    BY <1>2, MadeWhere
<1>4. made' \in [{2, 3, 6, 8} -> Nat] /\ \A m \in {2, 3, 6, 8} : m # migration => made'[m] = made[m]
    BY <1>1, <1>3 DEF WiredInv, Types
<1>5. ASSUME NEW x \in Past \cup done, Holds(x) PROVE Holds(x)'
    <2>1. PICK m \in {2, 3, 5, 6, 7, 8} : x \in Scripts[m] /\ (m < migration \/ (m = migration /\ x \in done))
        BY <1>2, PastWhere DEF WiredInv
    <2>2. /\ x = <<"initialize">> => migration \in {6, 8}
          /\ (x = <<"superior", "DOL">> \/ \E s : x = <<"setup", s>> \/ x = <<"support", s>>)
                 => migration = 8
          /\ \A l : x # <<"pool", l>>
        <3>1. /\ x = <<"initialize">> => m = 5
              /\ (x = <<"superior", "DOL">> \/ \E s : x = <<"setup", s>> \/ x = <<"support", s>>) => m = 6
              /\ \A l : x = <<"pool", l>> => m = 8
            BY MadeWhere, <2>1
        <3>2. m = migration => /\ x # <<"superior", "DOL">>
                               /\ \A s : x # <<"setup", s>> /\ x # <<"support", s>>
                               /\ \A l : x # <<"pool", l>>
            <4>1. m = migration => x \in done
                BY <1>2, <2>1
            <4>2. InOrder
                BY DEF WiredInv
            <4>3. x \in done => /\ x # <<"superior", "DOL">>
                               /\ \A s : x # <<"setup", s>> /\ x # <<"support", s>>
                               /\ \A l : x # <<"pool", l>>
                BY <1>2, <4>2, AwaitsDeploy
            <4>4. QED
                BY <4>1, <4>3
        <3>3. QED
            BY <1>3, <2>1, <3>1, <3>2
    <2>3. x = <<"initialize">> => /\ Registered("MARKET_CONTROLLER")'
                                  /\ \A k : Contract(k)' = Contract(k)
        BY <1>1, <1>4, <1>5, <2>2 DEF Contract, Holds, Registered, GetAddress
    <2>4. x = <<"superior", "DOL">> \/ (\E s : x = <<"setup", s>> \/ x = <<"support", s>>)
              => \A s : MarketOf(s)' = MarketOf(s)
        BY <1>4, <2>2 DEF MarketOf
    <2>5. QED
        BY <1>1, <1>2, <1>5, <2>2, <2>3, <2>4 DEF Holds, GetAddress, ListedLast
<1>6. Holds(tx)'
    BY DEF Holds
<1>7. ListedInitialised'
    BY <1>1 DEF WiredInv, ListedInitialised
<1>8. DOMAIN superior' = {"RDS", "DOL"} /\ DOMAIN contracts' = Keys /\ allMarkets' \in Seq(Symbols \X Nat)
    BY <1>1 DEF WiredInv, Types
<1> HIDE DEF tx
<1>9. QED
    BY <1>1, <1>4, <1>5, <1>6, <1>7, <1>8, MadeKeeps

LEMMA WiredInitialize ==
    ASSUME WiredInv, InitializeRegistry
    PROVE  WiredInv'
<1> DEFINE tx == <<"initialize">>
           new == [k \in InitialKeys |-> Contract(k)]
<1>1. /\ Make(tx) /\ \A k \in InitialKeys : ~Registered(k)
      /\ contracts' = [k \in Keys |-> IF k \in InitialKeys THEN InitialConfig(k, new) ELSE contracts[k]]
      /\ UNCHANGED <<made, superior, initialised, allMarkets, pools, prices>>
    BY DEF InitializeRegistry, Initialize, Bootstrap, markets, oracle
<1>2. /\ migration = 5 /\ tx \notin done /\ UNCHANGED Symbols
      /\ done \subseteq Scripts[migration] /\ Awaited(<<"superior", "RDS">>) = {tx}
    <2>1. /\ migration \in {2, 3, 5, 6, 7, 8} /\ tx \in Scripts[migration] /\ tx \notin done
          /\ done \subseteq Scripts[migration] /\ UNCHANGED Symbols
        BY <1>1, Made
    <2>2. Awaited(<<"superior", "RDS">>) = {tx}
        BY DEF Awaited
    <2>3. QED
        BY <2>1, <2>2, MadeWhere
<1>3. ASSUME NEW x \in Past \cup done PROVE x # tx /\ x # <<"superior", "RDS">>
    <2>1. PICK m \in {2, 3, 5, 6, 7, 8} : x \in Scripts[m] /\ (m < migration \/ (m = migration /\ x \in done))
        BY <1>2, PastWhere DEF WiredInv
    <2>2. x = tx \/ x = <<"superior", "RDS">> => m = 5
        BY MadeWhere, <2>1
    <2>3. <<"superior", "RDS">> \in done => tx \in done
        BY <1>2 DEF WiredInv, InOrder
    <2>4. QED
        BY <1>2, <2>1, <2>2, <2>3
<1>4. ASSUME NEW x \in Past \cup done, Holds(x) PROVE Holds(x)'
    BY <1>1, <1>2, <1>3, <1>4 DEF Holds, MarketOf, LpToken, ListedLast
<1>5. Holds(tx)'
    <2>1. \A k : Contract(k)' = Contract(k)
        BY <1>1 DEF Contract
    <2>2. InitialKeys \subseteq Keys
        BY DEF InitialKeys, ProxyKeys, ReplaceableKeys, ImmutableKeys
    <2>3. ASSUME NEW k \in ReplaceableKeys \cup ImmutableKeys PROVE GetAddress(k)' = Contract(k)
        <3>1. k \in InitialKeys /\ k \notin ProxyKeys
            BY DEF InitialKeys, ProxyKeys, ReplaceableKeys, ImmutableKeys
        <3>2. InitialConfig(k, new).addr = Contract(k)
            BY <3>1 DEF InitialConfig, Config
        <3>3. QED
            BY <1>1, <2>2, <3>1, <3>2 DEF GetAddress
    <2>4. Registered("MARKET_CONTROLLER")'
        <3>1. "MARKET_CONTROLLER" \in ProxyKeys /\ "MARKET_CONTROLLER" \in InitialKeys
            BY OrchestratorAssumption DEF ProxyKeys, InitialKeys
        <3>2. GetAddress("MARKET_CONTROLLER")' = ProxyOf["MARKET_CONTROLLER"]
            BY <1>1, <2>2, <3>1 DEF GetAddress, InitialConfig, Config
        <3>3. ProxyOf["MARKET_CONTROLLER"] # None
            BY OrchestratorAssumption
        <3>4. QED
            BY <3>2, <3>3 DEF Registered
    <2>5. QED
        BY <2>1, <2>3, <2>4 DEF Holds
<1>6. DOMAIN superior' = {"RDS", "DOL"} /\ DOMAIN contracts' = Keys
      /\ allMarkets' \in Seq(Symbols \X Nat) /\ made' \in [{2, 3, 6, 8} -> Nat]
    BY <1>1 DEF WiredInv, Types
<1>7. ListedInitialised'
    BY <1>1 DEF WiredInv, ListedInitialised
<1> HIDE DEF tx
<1>8. QED
    BY <1>1, <1>4, <1>5, <1>6, <1>7, MadeKeeps

\* A superior is set with the registry complete, or with the markets made.
LEMMA WiredSuperior ==
    ASSUME WiredInv, NEW token \in {"RDS", "DOL"}, NEW contract,
           SetSuperior(token, contract),
           contract = IF token = "RDS" THEN GetAddress("DISTRIBUTOR") ELSE MarketOf("DOL")
    PROVE  WiredInv'
<1> DEFINE tx == <<"superior", token>>
<1>1. /\ Make(tx) /\ superior' = [superior EXCEPT ![token] = contract]
      /\ UNCHANGED <<contracts, made, initialised, allMarkets, pools, prices>>
    BY DEF SetSuperior, registryVars, markets, oracle
<1>2. UNCHANGED Symbols
    BY <1>1, Made
<1>3. DOMAIN superior' = {"RDS", "DOL"} /\ superior'[token] = contract
      /\ \A x \in {"RDS", "DOL"} : x # token => superior'[x] = superior[x]
    BY <1>1 DEF WiredInv, Types
<1>4. ASSUME NEW x, Holds(x) PROVE Holds(x)'
    BY <1>1, <1>2, <1>3, <1>4
    DEF Holds, MarketOf, LpToken, ListedLast, Registered, GetAddress, Contract
<1>5. Holds(tx)'
    BY <1>1, <1>2, <1>3 DEF Holds, MarketOf, GetAddress
<1>6. DOMAIN contracts' = Keys
      /\ allMarkets' \in Seq(Symbols \X Nat) /\ made' \in [{2, 3, 6, 8} -> Nat]
    BY <1>1 DEF WiredInv, Types
<1>7. ListedInitialised'
    BY <1>1 DEF WiredInv, ListedInitialised
<1> HIDE DEF tx
<1>8. QED
    BY <1>1, <1>3, <1>4, <1>5, <1>6, <1>7, MadeKeeps

LEMMA WiredSetup ==
    ASSUME WiredInv, NEW s \in Symbols, Setup(s)
    PROVE  WiredInv'
<1> DEFINE tx == <<"setup", s>>
<1>1. /\ Make(tx) /\ initialised' = initialised \cup {MarketOf(s)}
      /\ UNCHANGED <<contracts, made, superior, allMarkets, pools, prices>>
    BY DEF Setup, registryVars, oracle
<1>2. UNCHANGED Symbols
    BY <1>1, Made
<1>3. ASSUME NEW x, Holds(x) PROVE Holds(x)'
    BY <1>1, <1>2, <1>3
    DEF Holds, MarketOf, LpToken, ListedLast, Registered, GetAddress, Contract
<1>4. Holds(tx)'
    BY <1>1 DEF Holds, MarketOf
<1>5. DOMAIN contracts' = Keys /\ DOMAIN superior' = {"RDS", "DOL"}
      /\ allMarkets' \in Seq(Symbols \X Nat) /\ made' \in [{2, 3, 6, 8} -> Nat]
    BY <1>1 DEF WiredInv, Types
<1>6. ListedInitialised'
    BY <1>1 DEF WiredInv, ListedInitialised
<1> HIDE DEF tx
<1>7. QED
    BY <1>1, <1>3, <1>4, <1>5, <1>6, MadeKeeps

\* A market is listed when it is set up, after those of earlier runs.
LEMMA WiredSupport ==
    ASSUME WiredInv, NEW s \in Symbols, Support(s)
    PROVE  WiredInv'
<1> DEFINE tx == <<"support", s>>
           n == Len(allMarkets)
<1>1. /\ Make(tx) /\ allMarkets' = Append(allMarkets, MarketOf(s))
      /\ UNCHANGED <<contracts, made, superior, initialised, pools, prices>>
    BY DEF Support, registryVars, oracle
<1>2. UNCHANGED Symbols /\ <<"setup", s>> \in done /\ migration \in {2, 3, 5, 6, 7, 8}
    <2>1. Awaited(tx) = {<<"setup", s>>}
        BY DEF Awaited
    <2>2. QED
        BY <1>1, <2>1, Made
<1>3. made \in [{2, 3, 6, 8} -> Nat] /\ MarketOf(s) \in Symbols \X Nat
      /\ MarketOf(s)[1] = s
    BY DEF WiredInv, Types, MarketOf
<1>4. allMarkets \in Seq(Symbols \X Nat)
    BY DEF WiredInv, Types
<1>5. /\ n \in Nat /\ Len(allMarkets') = n + 1 /\ allMarkets' \in Seq(Symbols \X Nat)
      /\ \A i \in 1 .. n : allMarkets'[i] = allMarkets[i]
      /\ allMarkets'[n + 1] = MarketOf(s)
    BY <1>1, <1>3, <1>4, AppendProperties, LenProperties
<1> HIDE DEF n
<1>6. \A i \in 1 .. n + 1 : i \in 1 .. n \/ i = n + 1
    BY <1>5
<1>7. \A i \in 1 .. n : i \in 1 .. n + 1
    BY <1>5
<1>8. \A x : MarketOf(x)' = MarketOf(x)
    BY <1>1 DEF MarketOf
<1>9. ListedLast(s)'
    <2>1. n + 1 \in 1 .. n + 1 /\ \A j \in 1 .. n + 1 : j <= n + 1
        BY <1>5
    <2>2. QED
        BY <1>5, <1>8, <2>1 DEF ListedLast
<1>10. ASSUME NEW x, x # s, ListedLast(x) PROVE ListedLast(x)'
    <2>1. PICK i \in 1 .. n : /\ allMarkets[i] = MarketOf(x)
                              /\ \A j \in 1 .. n : allMarkets[j][1] = x => j <= i
        BY <1>10 DEF ListedLast, n
    <2>2. allMarkets'[i] = MarketOf(x)' /\ i \in 1 .. Len(allMarkets')
        BY <1>5, <1>7, <1>8, <2>1
    <2>3. \A j \in 1 .. n + 1 : allMarkets'[j][1] = x => j <= i
        BY <1>3, <1>5, <1>6, <1>10, <2>1
    <2>4. QED
        BY <1>5, <2>2, <2>3 DEF ListedLast
<1>11. ASSUME NEW x, Holds(x) PROVE Holds(x)'
    BY <1>1, <1>2, <1>8, <1>9, <1>10, <1>11
    DEF Holds, LpToken, Registered, GetAddress, Contract
<1>12. Holds(tx)'
    BY <1>9 DEF Holds
<1>13. ListedInitialised'
    <2>1. MarketOf(s) \in initialised
        BY <1>2 DEF WiredInv, Holds
    <2>2. QED
        BY <1>1, <1>5, <1>6, <2>1, Zenon DEF WiredInv, ListedInitialised, n
<1>14. DOMAIN contracts' = Keys /\ DOMAIN superior' = {"RDS", "DOL"} /\ made' \in [{2, 3, 6, 8} -> Nat]
    BY <1>1 DEF WiredInv, Types
<1> HIDE DEF tx
<1>15. QED
    BY <1>1, <1>5, <1>11, <1>12, <1>13, <1>14, MadeKeeps

LEMMA WiredOracle ==
    ASSUME WiredInv, NEW tx, \/ tx = <<"changeAdmin">> /\ ChangeAdmin
                             \/ tx = <<"setPrices">> /\ SetPrices
    PROVE  WiredInv'
<1>1. /\ Make(tx) /\ ((prices' = prices /\ tx = <<"changeAdmin">>) \/ prices' = TRUE)
      /\ UNCHANGED <<contracts, made, superior, initialised, allMarkets, pools>>
    BY DEF ChangeAdmin, SetPrices, registryVars, markets
<1>2. UNCHANGED Symbols
    BY <1>1, Made
<1>3. ASSUME NEW x, Holds(x) PROVE Holds(x)'
    BY <1>1, <1>2, <1>3
    DEF Holds, MarketOf, LpToken, ListedLast, Registered, GetAddress, Contract
<1>4. Holds(tx)'
    <2>1. tx = <<"setPrices">> => prices' = TRUE
        BY <1>1
    <2>2. tx = <<"setPrices">> \/ tx = <<"changeAdmin">>
        OBVIOUS
    <2>3. QED
        BY <2>1, <2>2 DEF Holds
<1>5. DOMAIN contracts' = Keys /\ DOMAIN superior' = {"RDS", "DOL"}
      /\ allMarkets' \in Seq(Symbols \X Nat) /\ made' \in [{2, 3, 6, 8} -> Nat]
    BY <1>1 DEF WiredInv, Types
<1>6. ListedInitialised'
    BY <1>1 DEF WiredInv, ListedInitialised
<1>7. QED
    BY <1>1, <1>3, <1>4, <1>5, <1>6, MadeKeeps

LEMMA WiredPool ==
    ASSUME WiredInv, NEW l, CreatePool(l)
    PROVE  WiredInv'
<1> DEFINE tx == <<"pool", l>>
<1>1. /\ Make(tx) /\ pools' = pools \cup {LpToken(l)}
      /\ UNCHANGED <<contracts, made, superior, initialised, allMarkets, prices>>
    BY DEF CreatePool, registryVars, markets, oracle
<1>2. UNCHANGED Symbols
    BY <1>1, Made
<1>3. ASSUME NEW x, Holds(x) PROVE Holds(x)'
    BY <1>1, <1>2, <1>3
    DEF Holds, MarketOf, LpToken, ListedLast, Registered, GetAddress, Contract
<1>4. Holds(tx)'
    BY <1>1 DEF Holds, LpToken
<1>5. DOMAIN contracts' = Keys /\ DOMAIN superior' = {"RDS", "DOL"}
      /\ allMarkets' \in Seq(Symbols \X Nat) /\ made' \in [{2, 3, 6, 8} -> Nat]
    BY <1>1 DEF WiredInv, Types
<1>6. ListedInitialised'
    BY <1>1 DEF WiredInv, ListedInitialised
<1> HIDE DEF tx
<1>7. QED
    BY <1>1, <1>3, <1>4, <1>5, <1>6, MadeKeeps

\* The contracts are left alone, and what was made of them is recorded or
\* forgotten.
LEMMA RunEnds ==
    ASSUME WiredInv, UNCHANGED <<registryVars, network, made, superior, markets, pools, oracle>>,
           migration' \in {2, 3, 5, 6, 7, 8, 9},
           done' \subseteq IF migration' = 9 THEN {} ELSE Scripts[migration'],
           done' \subseteq done, InOrder', Past' \subseteq Past \cup done
    PROVE  WiredInv'
<1>1. UNCHANGED <<contracts, made, superior, initialised, allMarkets, pools, prices, Symbols, Scripts>>
    BY DEF registryVars, markets, oracle, Symbols, Scripts, DeployScript, OrchestrateScript,
           MarketsScript, OracleScript, PoolsScript, UnitTest, Live
<1>2. Types'
    BY <1>1 DEF WiredInv, Types, Finished
<1>3. \A x : Holds(x) => Holds(x)'
    BY <1>1 DEF Holds, MarketOf, LpToken, ListedLast, Registered, GetAddress, Contract
<1>4. ListedInitialised'
    BY <1>1 DEF WiredInv, ListedInitialised
<1>5. QED
    BY <1>2, <1>3, <1>4 DEF WiredInv

LEMMA WiredSaveMigration ==
    ASSUME WiredInv, SaveMigration
    PROVE  WiredInv'
<1>1. /\ ~Finished /\ Scripts[migration] \subseteq done
      /\ migration' = Following[migration] /\ done' = {}
      /\ UNCHANGED <<registryVars, network, made, superior, markets, pools, oracle>>
    BY DEF SaveMigration
<1>2. migration \in {2, 3, 5, 6, 7, 8}
    BY <1>1 DEF WiredInv, Types, Finished
<1>3. /\ migration' \in {2, 3, 5, 6, 7, 8, 9}
      /\ \A m \in {2, 3, 5, 6, 7, 8} : m < migration' => m = migration \/ m < migration
    BY <1>1, <1>2 DEF Following
<1>4. Scripts' = Scripts
    BY <1>1 DEF Scripts, DeployScript, OrchestrateScript, MarketsScript, OracleScript,
                PoolsScript, UnitTest, Live, Symbols
<1>5. Past' \subseteq Past \cup done
    BY <1>1, <1>2, <1>3, <1>4, ScriptsAre DEF Past, Recorded
<1>6. InOrder'
    BY <1>1 DEF InOrder
<1>7. QED
    BY <1>1, <1>3, <1>5, <1>6, RunEnds

LEMMA WiredFail ==
    ASSUME WiredInv, Fail
    PROVE  WiredInv'
<1>1. /\ done' = {} /\ migration' = migration
      /\ UNCHANGED <<registryVars, network, made, superior, markets, pools, oracle>>
    BY DEF Fail
<1>2. Past' = Past
    BY <1>1 DEF Past, Recorded, Scripts, DeployScript, OrchestrateScript, MarketsScript,
                OracleScript, PoolsScript, UnitTest, Live, Symbols
<1>3. InOrder'
    BY <1>1 DEF InOrder
<1>4. migration' \in {2, 3, 5, 6, 7, 8, 9}
    BY <1>1 DEF WiredInv, Types
<1>5. QED
    BY <1>1, <1>2, <1>3, <1>4, RunEnds

\* What every transaction made has left behind is still there, for any assets,
\* LP tokens and number of failures, and no market was listed too early: the
\* scripts await what they build on (6_setup_markets.js:40), and a run that is
\* started again makes its contracts anew.
THEOREM DeploymentInvariant == Spec => []WiredInv
<1>1. Init => WiredInv
    BY WiredInit
<1>2. WiredInv /\ [Next]_vars => WiredInv'
    <2> SUFFICES ASSUME WiredInv, [Next]_vars PROVE WiredInv'
        OBVIOUS
    <2>1. CASE Deploy
        BY <2>1, WiredDeploy
    <2>2. CASE InitializeRegistry
        BY <2>2, WiredInitialize
    <2>3. CASE SetSuperior("RDS", GetAddress("DISTRIBUTOR"))
        BY <2>3, WiredSuperior
    <2>4. CASE SetSuperior("DOL", MarketOf("DOL"))
        BY <2>4, WiredSuperior
    <2>5. ASSUME NEW s \in Symbols, Setup(s) \/ Support(s) PROVE WiredInv'
        BY <2>5, WiredSetup, WiredSupport
    <2>6. CASE ChangeAdmin \/ SetPrices
        BY <2>6, WiredOracle
    <2>7. ASSUME NEW l \in Range(LpTokens), CreatePool(l) PROVE WiredInv'
        BY <2>7, WiredPool
    <2>8. CASE SaveMigration
        BY <2>8, WiredSaveMigration
    <2>9. CASE Fail
        BY <2>9, WiredFail
    <2>10. CASE UNCHANGED vars
        <3>1. /\ done' = done /\ migration' = migration
              /\ UNCHANGED <<registryVars, network, made, superior, markets, pools, oracle>>
            BY <2>10 DEF vars, run
        <3>2. Past' = Past /\ Scripts' = Scripts
            BY <3>1 DEF Past, Recorded, Scripts, DeployScript, OrchestrateScript, MarketsScript,
                        OracleScript, PoolsScript, UnitTest, Live, Symbols
        <3>3. InOrder'
            BY <3>1 DEF WiredInv, InOrder
        <3>4. migration' \in {2, 3, 5, 6, 7, 8, 9}
              /\ done' \subseteq IF migration' = 9 THEN {} ELSE Scripts[migration']
            BY <3>1 DEF WiredInv, Types, Finished
        <3>5. QED
            BY <3>1, <3>2, <3>3, <3>4, RunEnds
    <2>11. QED
        BY <2>1, <2>2, <2>3, <2>4, <2>5, <2>6, <2>7, <2>8, <2>9, <2>10 DEF Next, Script
<1>3. QED
    BY <1>1, <1>2, PTL DEF Spec

\* However often a run fails, once the migrations are recorded the contracts
\* of the last runs are wired with one another: registry, superiors, markets,
\* prices and pools.
THEOREM DeploymentWired == Spec => []Wired
<1>1. WiredInv => Wired
    <2> SUFFICES ASSUME WiredInv PROVE Wired
        OBVIOUS
    <2>1. allMarkets \in Seq(Symbols \X Nat) /\ DOMAIN allMarkets = 1 .. Len(allMarkets)
        BY LenProperties DEF WiredInv, Types
    <2>2. \A i \in DOMAIN allMarkets : allMarkets[i] \in initialised
        BY <2>1 DEF WiredInv, ListedInitialised
    <2>3. ASSUME NEW s, ListedLast(s)
          PROVE  (\E i \in DOMAIN allMarkets : allMarkets[i][1] = s) /\ RToken(s) = MarketOf(s)
        <3> DEFINE listed == {i \in DOMAIN allMarkets : allMarkets[i][1] = s}
                   last == CHOOSE i \in listed : \A j \in listed : j <= i
        <3>1. PICK i \in DOMAIN allMarkets :
                  /\ allMarkets[i] = MarketOf(s)
                  /\ \A j \in DOMAIN allMarkets : allMarkets[j][1] = s => j <= i
            BY <2>1, <2>3 DEF ListedLast
        <3>2. allMarkets[i][1] = s
            BY <3>1 DEF MarketOf
        <3>3. i \in listed /\ \A j \in listed : j <= i
            BY <3>1, <3>2
        <3>4. last \in listed /\ \A j \in listed : j <= last
            BY <3>3, Zenon
        <3>5. last = i
            <4>1. i <= last /\ last <= i /\ i \in Nat /\ last \in Nat
                BY <2>1, <3>3, <3>4
            <4> HIDE DEF last
            <4>2. QED
                BY <4>1
        <3>6. RToken(s) = allMarkets[last]
            BY Zenon DEF RToken
        <3>7. QED
            BY <3>1, <3>2, <3>5, <3>6
    <2>4. ASSUME Finished, ~UnitTest
          PROVE  /\ \A k \in ReplaceableKeys \cup ImmutableKeys : GetAddress(k) = Contract(k)
                 /\ superior["RDS"] = GetAddress("DISTRIBUTOR")
                 /\ \A s \in Symbols : ListedLast(s)
                 /\ superior["DOL"] = MarketOf("DOL")
                 /\ ~Live => prices /\ \A l \in Range(LpTokens) : LpToken(l) \in pools
        <3>1. Past = UNION {Scripts[m] : m \in {2, 3, 5, 6, 7, 8}}
            BY <2>4, ScriptsAre DEF Finished, Past, Recorded
        <3>2. /\ <<"initialize">> \in Past /\ <<"superior", "RDS">> \in Past
              /\ <<"superior", "DOL">> \in Past
              /\ \A s \in Symbols : <<"support", s>> \in Past
              /\ ~Live => <<"setPrices">> \in Past /\ \A l \in Range(LpTokens) : <<"pool", l>> \in Past
            BY <2>4, <3>1, ScriptsAre DEF OrchestrateScript, MarketsScript, OracleScript, PoolsScript
        <3>3. \A tx \in Past : Holds(tx)
            BY DEF WiredInv
        <3>4. QED
            BY <3>2, <3>3 DEF Holds
    <2>5. "DOL" \in Symbols
        BY DEF Symbols
    <2>6. QED
        BY <2>2, <2>3, <2>4, <2>5 DEF Wired
<1>2. QED
    BY <1>1, DeploymentInvariant, PTL
=============================================================================
