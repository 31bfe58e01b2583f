-------------------------- MODULE RegistryProofs --------------------------
(***************************************************************************)
(* Type correctness of the registry, and that what governance gives away   *)
(* is given away for good, for any keys, contracts and callers.  Then what *)
(* the users of the registry rely on, for any keys, providers, symbols and *)
(* numbers of rounds and loads: the handles of the SDK's object, and the   *)
(* prices the feeder leaves in an oracle.                                  *)
(***************************************************************************)
EXTENDS PriceFeeder, TLAPS

\* Nothing is registered, and nobody is guardian, before initialize is; and
\* what tells that it has been called is an entry that cannot be undone.
Founded ==
    /\ (\E k \in Keys : Registered(k)) \/ guardian # None => Registered("MARKET_CONTROLLER")
    /\ Registered("MARKET_CONTROLLER") => contracts["MARKET_CONTROLLER"].variability = "Upgradeable"

RegistryInv == RegistryTypeOK /\ Founded

\* The controller is a key that initialize registers, as a proxy.
LEMMA ControllerIsProxy ==
    "MARKET_CONTROLLER" \in ProxyKeys /\ "MARKET_CONTROLLER" \in InitialKeys
BY OrchestratorAssumption DEF ProxyKeys, InitialKeys

\* A registry entry is a record of its three parts.
LEMMA ConfigType ==
    ASSUME NEW addr \in Addresses \cup {None}, NEW v \in ContractVariability,
           NEW p \in UpdatePermission
    PROVE  /\ Config(addr, v, p) \in ContractConfig
           /\ Config(addr, v, p).addr = addr
           /\ Config(addr, v, p).variability = v
           /\ Config(addr, v, p).permission = p
BY DEF Config, ContractConfig

\* What initialize is given are contracts.
LEMMA NewType ==
    ASSUME NEW new \in New
    PROVE  \A k \in InitialKeys : new[k] \in Addresses
<1>1. \A k \in InitialKeys : new[k] \in Candidates[k]
      BY DEF New
<1>2. InitialKeys \subseteq Keys
      BY DEF InitialKeys, ProxyKeys, ReplaceableKeys, ImmutableKeys
<1>3. QED BY <1>1, <1>2, OrchestratorAssumption

\* An entry that initialize makes is a registered one.
LEMMA InitialConfigType ==
    ASSUME NEW new \in New, NEW k \in InitialKeys
    PROVE  InitialConfig(k, new) \in ContractConfig /\ InitialConfig(k, new).addr # None
<1>1. k \in Keys /\ ProxyOf[k] \in Addresses /\ new[k] \in Addresses
      BY NewType, OrchestratorAssumption
      DEF InitialKeys, ProxyKeys, ReplaceableKeys, ImmutableKeys
<1>2. None \notin Addresses
      BY OrchestratorAssumption
<1>3. QED BY <1>1, <1>2 DEF InitialConfig, Config, ContractConfig,
                             ContractVariability, UpdatePermission

\* The proxies that initialize makes are given contracts.
LEMMA BootstrapType ==
    ASSUME RegistryTypeOK, NEW new \in New, Bootstrap(new)
    PROVE  contracts' \in [Keys -> ContractConfig] /\ implementation' \in [Addresses -> Addresses \cup {None}]
<1>1. contracts' \in [Keys -> ContractConfig]
  <2>1. \A k \in Keys : (IF k \in InitialKeys THEN InitialConfig(k, new) ELSE contracts[k])
                            \in ContractConfig
        BY InitialConfigType DEF RegistryTypeOK
  <2>2. QED BY <2>1 DEF Bootstrap
<1>2. ASSUME NEW p \in Addresses
      PROVE  (IF \E k \in ProxyKeys : p = ProxyOf[k]
              THEN new[CHOOSE k \in ProxyKeys : p = ProxyOf[k]] ELSE implementation[p])
                \in Addresses \cup {None}
  <2>1. CASE \E k \in ProxyKeys : p = ProxyOf[k]
    <3>1. (CHOOSE k \in ProxyKeys : p = ProxyOf[k]) \in InitialKeys
          BY <2>1 DEF InitialKeys
    <3>2. new[CHOOSE k \in ProxyKeys : p = ProxyOf[k]] \in Addresses
          BY <3>1, NewType
    <3>3. QED BY <2>1, <3>2
  <2>2. CASE ~\E k \in ProxyKeys : p = ProxyOf[k]
        BY <2>2 DEF RegistryTypeOK
  <2>3. QED BY <2>1, <2>2
<1>3. implementation' \in [Addresses -> Addresses \cup {None}]
      BY <1>2 DEF Bootstrap
<1>4. QED BY <1>1, <1>3

-----------------------------------------------------------------------------
\* initialize.
LEMMA InitializeStep ==
    ASSUME RegistryInv, NEW sender \in Senders, NEW new \in New, Initialize(sender, new)
    PROVE  RegistryInv' /\ StableEntries /\ AbdicationFinal
<1>1. ~Registered("MARKET_CONTROLLER")
      BY ControllerIsProxy DEF Initialize
<1>2. guardian = None /\ \A k \in Keys : ~Registered(k)
      BY <1>1 DEF RegistryInv, Founded
<1>3. RegistryTypeOK'
  <2>1. guardian' \in Addresses
        BY OrchestratorAssumption DEF Initialize
  <2>2. QED BY <2>1, BootstrapType DEF RegistryInv, RegistryTypeOK, Initialize
<1>4. contracts'["MARKET_CONTROLLER"] = InitialConfig("MARKET_CONTROLLER", new)
      BY ControllerIsProxy, OrchestratorAssumption DEF Initialize, Bootstrap
<1>5. Registered("MARKET_CONTROLLER")'
      BY <1>4, ControllerIsProxy, InitialConfigType DEF Registered, GetAddress
<1>6. contracts'["MARKET_CONTROLLER"].variability = "Upgradeable"
      BY <1>4, ControllerIsProxy DEF InitialConfig, Config
<1>7. QED BY <1>2, <1>3, <1>5, <1>6 DEF RegistryInv, Founded, StableEntries, AbdicationFinal

\* Nobody has a permission before initialize is called.
LEMMA PermissionFounded ==
    ASSUME RegistryInv, NEW sender \in Senders, NEW permission, CheckPermission(sender, permission)
    PROVE  Registered("MARKET_CONTROLLER")
<1>1. sender # None
      BY OrchestratorAssumption
<1>2. GetAddress("COUNCIL") # None \/ GetAddress("DEMOCRACY") # None \/ guardian # None
      BY <1>1 DEF CheckPermission
<1>3. QED BY <1>2, OrchestratorAssumption DEF RegistryInv, Founded, Registered

\* An entry that takes the place of one that is not registered, or of one that
\* is replaceable, is never the controller's.
LEMMA EntryStep ==
    ASSUME RegistryInv, Registered("MARKET_CONTROLLER"),
           NEW key \in Keys, NEW config \in ContractConfig,
           ~Registered(key) \/ contracts[key].variability = "Replaceable",
           contracts' = [contracts EXCEPT ![key] = config],
           guardian' = guardian,
           implementation' \in [Addresses -> Addresses \cup {None}]
    PROVE  RegistryInv' /\ StableEntries /\ AbdicationFinal
<1>1. key # "MARKET_CONTROLLER"
      BY DEF RegistryInv, Founded
<1>2. contracts \in [Keys -> ContractConfig] /\ "MARKET_CONTROLLER" \in Keys
      BY OrchestratorAssumption DEF RegistryInv, RegistryTypeOK
<1>3. contracts' \in [Keys -> ContractConfig]
      BY <1>2
<1>4. RegistryTypeOK'
      BY <1>3 DEF RegistryInv, RegistryTypeOK
<1>5. contracts'["MARKET_CONTROLLER"] = contracts["MARKET_CONTROLLER"]
      BY <1>1, <1>2
<1>6. Founded'
      BY <1>5 DEF RegistryInv, Founded, Registered, GetAddress
<1>7. StableEntries
      BY <1>2 DEF StableEntries
<1>8. QED BY <1>4, <1>6, <1>7 DEF RegistryInv, AbdicationFinal

LEMMA RegisterContractStep ==
    ASSUME RegistryInv, NEW sender \in Senders, NEW key \in Keys, NEW addr \in Addresses,
           NEW v \in ContractVariability, NEW p \in UpdatePermission,
           RegisterContract(sender, key, addr, v, p)
    PROVE  RegistryInv' /\ StableEntries /\ AbdicationFinal
<1>1. Registered("MARKET_CONTROLLER")
      BY PermissionFounded DEF RegisterContract
<1>2. Config(addr, v, p) \in ContractConfig
      BY ConfigType
<1>3. QED BY <1>1, <1>2, EntryStep DEF RegisterContract, RegistryInv, RegistryTypeOK

LEMMA UpdateContractStep ==
    ASSUME RegistryInv, NEW sender \in Senders, NEW key \in Keys, NEW addr \in Addresses \cup {None},
           UpdateContract(sender, key, addr)
    PROVE  RegistryInv' /\ StableEntries /\ AbdicationFinal
<1>1. Registered("MARKET_CONTROLLER")
      BY PermissionFounded DEF UpdateContract
<1>2. contracts[key] \in ContractConfig
      BY DEF RegistryInv, RegistryTypeOK
<1> DEFINE config == [contracts[key] EXCEPT !.addr = addr]
<1>3. config \in ContractConfig
      BY <1>2 DEF ContractConfig
<1>4. contracts' = [contracts EXCEPT ![key] = config]
      BY <1>2 DEF UpdateContract, RegistryInv, RegistryTypeOK
<1> HIDE DEF config
<1>5. QED BY <1>1, <1>3, <1>4, EntryStep DEF UpdateContract, RegistryInv, RegistryTypeOK

LEMMA RegisterProxyStep ==
    ASSUME RegistryInv, NEW sender \in Senders, NEW key \in Keys, NEW impl \in Addresses,
           NEW p \in UpdatePermission, RegisterProxy(sender, key, impl, p)
    PROVE  RegistryInv' /\ StableEntries /\ AbdicationFinal
<1>1. Registered("MARKET_CONTROLLER")
      BY PermissionFounded DEF RegisterProxy
<1>2. Config(ProxyOf[key], "Upgradeable", p) \in ContractConfig
      BY ConfigType, OrchestratorAssumption DEF ContractVariability
<1>3. implementation' \in [Addresses -> Addresses \cup {None}]
      BY OrchestratorAssumption DEF RegisterProxy, RegistryInv, RegistryTypeOK
<1>4. QED BY <1>1, <1>2, <1>3, EntryStep DEF RegisterProxy

LEMMA UpgradeProxyStep ==
    ASSUME RegistryInv, NEW sender \in Senders, NEW key \in Keys, NEW impl \in Addresses,
           UpgradeProxy(sender, key, impl)
    PROVE  RegistryInv' /\ StableEntries /\ AbdicationFinal
<1>1. implementation' \in [Addresses -> Addresses \cup {None}]
      BY DEF UpgradeProxy, RegistryInv, RegistryTypeOK
<1>2. QED BY <1>1 DEF UpgradeProxy, RegistryInv, RegistryTypeOK, Founded, Registered,
                       GetAddress, StableEntries, AbdicationFinal

LEMMA AbdicateStep ==
    ASSUME RegistryInv, NEW sender \in Senders, Abdicate(sender)
    PROVE  RegistryInv' /\ StableEntries /\ AbdicationFinal
BY DEF Abdicate, RegistryInv, RegistryTypeOK, Founded, Registered, GetAddress,
       StableEntries, AbdicationFinal

\* Every call keeps the invariant and takes nothing back.
LEMMA RegistryStep ==
    ASSUME RegistryInv, [RegistryNext]_registryVars
    PROVE  RegistryInv' /\ StableEntries /\ AbdicationFinal
<1>1. CASE RegistryNext
      BY <1>1, InitializeStep, AbdicateStep, RegisterContractStep, RegisterProxyStep,
         UpgradeProxyStep, UpdateContractStep DEF RegistryNext
<1>2. CASE UNCHANGED registryVars
      BY <1>2 DEF registryVars, RegistryInv, RegistryTypeOK, Founded, Registered,
                  GetAddress, StableEntries, AbdicationFinal
<1>3. QED BY <1>1, <1>2

LEMMA RegistryStart ==
    ASSUME RegistryInit
    PROVE  RegistryInv
BY OrchestratorAssumption DEF RegistryInit, RegistryInv, RegistryTypeOK, Founded, Registered,
   GetAddress, Config, ContractConfig, ContractVariability, UpdatePermission

-----------------------------------------------------------------------------
KeptKeys == ProxyKeys \cup ImmutableKeys

\* Once initialize has been called, what it registered as proxies and as
\* immutable contracts stays registered as such.
Kept ==
    Registered("MARKET_CONTROLLER") =>
        \A k \in KeptKeys : Registered(k) /\ contracts[k].variability # "Replaceable"

LEMMA KeptKey ==
    ASSUME NEW k \in KeptKeys
    PROVE  k \in Keys /\ k \in InitialKeys /\ k \notin ReplaceableKeys
BY DEF KeptKeys, InitialKeys, ProxyKeys, ReplaceableKeys, ImmutableKeys

\* Only initialize can be called before it has been.
LEMMA InitializeFirst ==
    ASSUME RegistryInv, ~Registered("MARKET_CONTROLLER"), RegistryNext
    PROVE  \E sender \in Senders, new \in New : Initialize(sender, new)
BY PermissionFounded DEF RegistryNext, Abdicate, RegisterContract, RegisterProxy, UpgradeProxy,
   UpdateContract

LEMMA KeptStep ==
    ASSUME RegistryInv, Kept, [RegistryNext]_registryVars
    PROVE  Kept' /\ \A k \in KeptKeys : Registered(k) => GetAddress(k)' = GetAddress(k)
<1>1. CASE Registered("MARKET_CONTROLLER")
  <2>1. \A k \in KeptKeys : contracts'[k] = contracts[k]
        BY <1>1, RegistryStep, KeptKey DEF Kept, StableEntries
  <2>2. QED BY <1>1, <2>1 DEF Kept, Registered, GetAddress
<1>2. CASE ~Registered("MARKET_CONTROLLER")
  <2>1. \A k \in KeptKeys : ~Registered(k)
        BY <1>2, KeptKey DEF RegistryInv, Founded
  <2>2. CASE UNCHANGED registryVars
        BY <1>2, <2>2, <2>1 DEF registryVars, Kept, Registered, GetAddress
  <2>3. CASE RegistryNext
    <3>1. PICK sender \in Senders, new \in New : Initialize(sender, new)
          BY <1>2, <2>3, InitializeFirst
    <3>2. ASSUME NEW k \in KeptKeys
          PROVE  Registered(k)' /\ contracts'[k].variability # "Replaceable"
      <4>1. contracts'[k] = InitialConfig(k, new)
            BY <3>1, KeptKey DEF Initialize, Bootstrap
      <4>2. contracts'[k].addr # None
            BY <4>1, KeptKey, InitialConfigType
      <4>3. contracts'[k].variability # "Replaceable"
            BY <4>1, KeptKey DEF InitialConfig, Config
      <4>4. QED BY <4>2, <4>3 DEF Registered, GetAddress
    <3>3. QED BY <3>2, <2>1 DEF Kept
  <2>4. QED BY <2>2, <2>3
<1>3. QED BY <1>1, <1>2

LEMMA KeptStart ==
    ASSUME RegistryInit
    PROVE  Kept
BY OrchestratorAssumption DEF RegistryInit, Kept, Registered, GetAddress, Config

-----------------------------------------------------------------------------
\* The registry's variables keep their types, and nothing happens before
\* initialize is called.
THEOREM RegistryTypeCorrect == RegistrySpec => []RegistryInv
<1>1. RegistryInv /\ [RegistryNext]_registryVars => RegistryInv'
      BY RegistryStep
<1>2. QED BY RegistryStart, <1>1, PTL DEF RegistrySpec

\* For every set of keys and callers, and whatever sequence of calls: entries
\* that are not replaceable never change again, and there is no new guardian
\* (registerContract, updateContract, registerProxy, initialize, abdicate).
THEOREM GivenAwayForGood == RegistrySpec => Irrevocable
<1>1. RegistryInv /\ [RegistryNext]_registryVars => [StableEntries /\ AbdicationFinal]_registryVars
      BY RegistryStep
<1>2. QED BY RegistryTypeCorrect, <1>1, PTL DEF RegistrySpec, Irrevocable

-----------------------------------------------------------------------------
(***************************************************************************)
(* Handles and prices.                                                     *)
(***************************************************************************)

\* What a handle or an answer on its way may say of a contract that is to keep
\* its address: that, or that it was not registered yet.
Believable(k, addr) == k \in KeptKeys => addr \in {None, GetAddress(k)}

HandlesInv ==
    /\ RegistryInv /\ Kept
    /\ handles \in [Loadable -> Handle \cup {NotLoaded}]
    /\ answers \in [Loadable -> SUBSET (Addresses \cup {None})]
    /\ provider \in Providers
    /\ \A k \in Loadable :
        /\ \A addr \in answers[k] : Believable(k, addr)
        /\ Loaded(k) => (k # "ORACLE" => handles[k].provider = provider)
                        /\ Believable(k, handles[k].addr)

\* A step of the registry leaves believable what was.
LEMMA BelievableStep ==
    ASSUME RegistryInv, Kept, [RegistryNext]_registryVars, NEW k, NEW addr, Believable(k, addr)
    PROVE  Believable(k, addr)'
<1>1. k \in KeptKeys => (GetAddress(k) # None => GetAddress(k)' = GetAddress(k))
      BY KeptStep DEF Registered
<1>2. QED BY <1>1 DEF Believable

\* Steps of the registry.
LEMMA HandlesRegistryStep ==
    ASSUME HandlesInv, [RegistryNext]_registryVars, UNCHANGED clientVars
    PROVE  HandlesInv'
<1>1. RegistryInv' /\ Kept'
      BY RegistryStep, KeptStep DEF HandlesInv
<1>2. \A k, addr : Believable(k, addr) => Believable(k, addr)'
      BY BelievableStep DEF HandlesInv
<1>3. QED BY <1>1, <1>2 DEF HandlesInv, clientVars, loads, Loaded

\* Steps that leave the registry alone keep its invariant.
LEMMA RegistryStill ==
    ASSUME RegistryInv, Kept, UNCHANGED registryVars
    PROVE  /\ RegistryInv' /\ Kept'
           /\ \A k, addr : Believable(k, addr)' = Believable(k, addr)
<1>1. RegistryInv' /\ Kept'
      BY RegistryStep, KeptStep
<1>2. QED BY <1>1 DEF registryVars, Believable, GetAddress

LEMMA SetProviderStep ==
    ASSUME HandlesInv, UNCHANGED registryVars, NEW p \in Providers, SetProvider(p)
    PROVE  HandlesInv'
BY RegistryStill DEF HandlesInv, SetProvider, loads, Loaded

LEMMA AnswerLoadStep ==
    ASSUME HandlesInv, UNCHANGED registryVars, NEW key \in Loadable, AnswerLoad(key)
    PROVE  HandlesInv'
<1>1. GetAddress(key) \in Addresses \cup {None}
      BY RealDAOAssumption DEF HandlesInv, RegistryInv, RegistryTypeOK, GetAddress, ContractConfig
<1>2. Believable(key, GetAddress(key))
      BY DEF Believable
<1>3. QED BY <1>1, <1>2, RegistryStill DEF HandlesInv, AnswerLoad, Loaded

LEMMA CreateHandleStep ==
    ASSUME HandlesInv, UNCHANGED registryVars, NEW key \in Loadable, NEW addr \in answers[key],
           CreateHandle(key, addr)
    PROVE  HandlesInv'
<1> DEFINE handle == [provider |-> provider, addr |-> addr]
<1>1. handle \in Handle /\ handle.provider = provider /\ handle.addr = addr
      BY DEF HandlesInv, Handle
<1>2. Believable(key, addr)
      BY DEF HandlesInv
<1>3. handles' = [handles EXCEPT ![key] = handle]
      BY DEF CreateHandle
<1> HIDE DEF handle
<1>4. QED BY <1>1, <1>2, <1>3, RegistryStill DEF HandlesInv, CreateHandle, Loaded

LEMMA CrashStep ==
    ASSUME HandlesInv, Crash
    PROVE  HandlesInv'
BY RegistryStill DEF HandlesInv, Crash, chain, Loaded

\* Every step keeps the handles trusted.
LEMMA HandlesStep ==
    ASSUME HandlesInv, [Next]_vars
    PROVE  HandlesInv'
<1>1. CASE RegistryNext /\ UNCHANGED clientVars
      BY <1>1, HandlesRegistryStep
<1>2. CASE ClientNext /\ UNCHANGED registryVars
  <2>1. ASSUME NEW k \in Loadable, Load(k)
        PROVE  HandlesInv'
        BY <1>2, <2>1, RegistryStill DEF HandlesInv, Load, Loaded
  <2>2. QED BY <1>2, <2>1, SetProviderStep, AnswerLoadStep, CreateHandleStep DEF ClientNext
<1>3. CASE UNCHANGED <<registryVars, clientVars>>
      BY <1>3, HandlesRegistryStep
<1>4. CASE Crash
      BY <1>4, CrashStep
<1>5. QED
  <2>1. ASSUME NEW n \in Round, NEW s \in Symbols, Resolve(n, s)
        PROVE  UNCHANGED <<registryVars, clientVars>>
        BY <2>1 DEF Resolve, chain
  <2>2. ASSUME NEW n \in Round, Reject(n) \/ Send(n)
        PROVE  UNCHANGED <<registryVars, clientVars>>
        BY <2>2 DEF Reject, Send, Sending, chain
  <2>3. ASSUME NEW tx \in sent, SetUnderlyingPrices(tx)
        PROVE  UNCHANGED <<registryVars, clientVars>>
        BY <2>3 DEF SetUnderlyingPrices
  <2>4. ASSUME NEW sender, NEW o, NEW a, NEW S, ChangeAdmin(sender, o, a) \/ SetPricesByHand(o, S)
        PROVE  UNCHANGED <<registryVars, clientVars>>
        BY <2>4 DEF ChangeAdmin, SetPricesByHand
  <2>5. ASSUME Start \/ Tick
        PROVE  UNCHANGED <<registryVars, clientVars>>
        BY <2>5 DEF Start, Tick, chain
  <2>6. ASSUME UNCHANGED vars
        PROVE  UNCHANGED <<registryVars, clientVars>>
        BY <2>6 DEF vars, chain
  <2>7. ASSUME ClientNext /\ (feeding => provider' = provider) /\ UNCHANGED <<chain, process, sent>>
        PROVE  ClientNext /\ UNCHANGED registryVars
        BY <2>7 DEF chain
  <2>8. QED BY <1>1, <1>2, <1>3, <1>4, <2>1, <2>2, <2>3, <2>4, <2>5, <2>6, <2>7 DEF Next

-----------------------------------------------------------------------------
\* The prices.
PricesInv ==
    /\ started \in Nat
    /\ \A n \in DOMAIN rounds : n \in 1 .. started
    /\ \A tx \in sent : tx.symbols = Symbols /\ tx.round \in 1 .. started
    /\ DOMAIN assetPrices = Oracles /\ DOMAIN fed = Oracles
    /\ PricesOfOneRound

\* A round more leaves what the others have set of one round.
LEMMA MoreRounds ==
    ASSUME PricesInv, started' \in {started, started + 1}, UNCHANGED <<sent, assetPrices, fed>>,
           \A n \in DOMAIN rounds' : n \in DOMAIN rounds \/ (n = started + 1 /\ started' = started + 1)
    PROVE  PricesInv'
<1>1. started' \in Nat /\ \A n \in 1 .. started : n \in 1 .. started'
      BY DEF PricesInv
<1>2. \A n \in DOMAIN rounds' : n \in 1 .. started'
      BY <1>1 DEF PricesInv
<1>3. PricesOfOneRound'
      BY <1>1 DEF PricesInv, PricesOfOneRound
<1>4. QED BY <1>1, <1>2, <1>3 DEF PricesInv

LEMMA SendStep ==
    ASSUME PricesInv, NEW n, Send(n)
    PROVE  PricesInv'
<1>1. DOMAIN rounds' \subseteq DOMAIN rounds
      BY DEF Send, Sending, Without
<1>2. n \in 1 .. started /\ started' = started /\ UNCHANGED <<assetPrices, fed>>
      BY DEF PricesInv, Send, Sending, chain, prices
<1>3. sent' = sent \cup {[round |-> n, oracle |-> oracle, symbols |-> Symbols]}
      BY DEF Send, Sending
<1>4. QED BY <1>1, <1>2, <1>3 DEF PricesInv, PricesOfOneRound

\* All the feeder's symbols are set at once, to the round of the transaction.
LEMMA SetUnderlyingPricesStep ==
    ASSUME PricesInv, NEW tx \in sent, SetUnderlyingPrices(tx)
    PROVE  PricesInv'
<1>1. UNCHANGED <<rounds, started>> /\ sent' = sent \ {tx}
      BY DEF SetUnderlyingPrices, process
<1>2. CASE UNCHANGED prices
      BY <1>1, <1>2 DEF PricesInv, PricesOfOneRound, prices
<1>3. CASE tx.oracle \in Oracles /\ SetPrices(tx.oracle, tx.symbols, tx.round, TRUE)
  <2> DEFINE o == tx.oracle
  <2>1. /\ assetPrices' = [assetPrices EXCEPT ![o] =
                 [s \in Priced |-> IF s \in Symbols THEN tx.round ELSE @[s]]]
        /\ fed' = [fed EXCEPT ![o] = TRUE]
        /\ tx.round \in 1 .. started
        BY <1>3 DEF SetPrices, PricesInv
  <2>2. \A s \in Symbols : assetPrices'[o][s] = tx.round
        BY <1>3, <2>1 DEF PricesInv, Priced
  <2>3. \A q \in Oracles \ {o} : assetPrices'[q] = assetPrices[q] /\ fed'[q] = fed[q]
        BY <2>1 DEF PricesInv
  <2>4. PricesOfOneRound'
        BY <1>1, <2>1, <2>2, <2>3 DEF PricesInv, PricesOfOneRound
  <2>5. QED BY <1>1, <2>1, <2>4 DEF PricesInv
<1>4. QED BY <1>2, <1>3 DEF SetUnderlyingPrices

\* What another call has set is not claimed to be of one round.
LEMMA SetPricesByHandStep ==
    ASSUME PricesInv, NEW o \in Oracles, NEW S, SetPricesByHand(o, S)
    PROVE  PricesInv'
<1>1. UNCHANGED <<rounds, started, sent>>
      BY DEF SetPricesByHand, process
<1>2. /\ DOMAIN assetPrices' = Oracles /\ DOMAIN fed' = Oracles /\ ~fed'[o]
      /\ \A q \in Oracles \ {o} : assetPrices'[q] = assetPrices[q] /\ fed'[q] = fed[q]
      BY DEF SetPricesByHand, SetPrices, PricesInv
<1>3. PricesOfOneRound'
      BY <1>1, <1>2 DEF PricesInv, PricesOfOneRound
<1>4. QED BY <1>1, <1>2, <1>3 DEF PricesInv

\* Every step keeps the feeder's prices of one round.
LEMMA PricesStep ==
    ASSUME PricesInv, [Next]_vars
    PROVE  PricesInv'
<1>1. CASE UNCHANGED <<rounds, started, sent, prices>>
  <2>1. rounds' = rounds /\ started' = started /\ UNCHANGED <<sent, assetPrices, fed>>
        BY <1>1 DEF prices
  <2>2. QED BY <2>1, MoreRounds
<1>2. ASSUME NEW n \in Round, (\E s \in Symbols : Resolve(n, s)) \/ Reject(n)
      PROVE  PricesInv'
  <2>1. DOMAIN rounds' \subseteq DOMAIN rounds /\ started' = started /\ UNCHANGED <<sent, assetPrices, fed>>
        BY <1>2 DEF Resolve, Reject, With, Without, chain, prices
  <2>2. QED BY <2>1, MoreRounds
<1>3. CASE Start \/ Tick
  <2>1. /\ started' = started + 1 /\ DOMAIN rounds' = DOMAIN rounds \cup {started + 1}
        /\ UNCHANGED <<sent, assetPrices, fed>>
        BY <1>3 DEF Start, Tick, Fetch, With, chain, prices
  <2>2. QED BY <2>1, MoreRounds
<1>4. CASE Crash
  <2>1. DOMAIN rounds' = {} /\ started' = started /\ UNCHANGED <<sent, assetPrices, fed>>
        BY <1>4 DEF Crash, chain, prices
  <2>2. QED BY <2>1, MoreRounds
<1>5. ASSUME NEW sender, NEW o, NEW a, ChangeAdmin(sender, o, a)
      PROVE  PricesInv'
      BY <1>1, <1>5 DEF ChangeAdmin, process
<1>6. ASSUME UNCHANGED vars \/ UNCHANGED <<chain, process, sent>>
                \/ UNCHANGED <<admin, prices, clientVars, process, sent>>
      PROVE  PricesInv'
      BY <1>1, <1>6 DEF vars, chain, process
<1>7. QED
      BY <1>2, <1>3, <1>4, <1>5, <1>6, SendStep, SetUnderlyingPricesStep, SetPricesByHandStep DEF Next

-----------------------------------------------------------------------------
\* However loads, changes of the provider, restarts and the decisions of
\* governance interleave: a handle talks to the present provider, and to the
\* registry's address of a contract that is to keep its address (setProvider,
\* _createProtocolContractInstance).
THEOREM HandlesAreTrusted == Spec => []HandlesTrusted
<1>1. Init => HandlesInv
      BY RegistryStart, KeptStart DEF Init, ClientInit, HandlesInv, Loaded
<1>2. HandlesInv /\ [Next]_vars => HandlesInv'
      BY HandlesStep
<1>3. HandlesInv => HandlesTrusted
      BY DEF HandlesInv, HandlesTrusted, Believable, KeptKeys
<1>4. QED BY <1>1, <1>2, <1>3, PTL DEF Spec

\* However many rounds overlap, however their transactions are ordered, and
\* whatever other admins have set before: where the feeder was the last to set
\* prices, those of its symbols are of one round (_fetchPriceAndFeed,
\* setUnderlyingPrices).
THEOREM PricesAreOfOneRound == Spec => []PricesOfOneRound
<1>1. Init => PricesInv
  <2>1. Init => DOMAIN rounds = {}
        BY DEF Init
  <2>2. QED BY <2>1 DEF Init, PricesInv, PricesOfOneRound
<1>2. PricesInv /\ [Next]_vars => PricesInv'
      BY PricesStep
<1>3. PricesInv => PricesOfOneRound
      BY DEF PricesInv
<1>4. QED BY <1>1, <1>2, <1>3, PTL DEF Spec
-----------------------------------------------------------------------------
(***************************************************************************)
(* What the feeder and its rounds are.                                     *)
(***************************************************************************)
AskedTypes == asked \in [Loadable -> 0 .. MaxLoads]

RoundTypes ==
    /\ feeding \in BOOLEAN /\ oracle \in Addresses \cup {None}
    /\ ~feeding => oracle = None /\ rounds = <<>>
    /\ started \in 0 .. MaxRounds
    /\ DOMAIN rounds \subseteq 1 .. started
    /\ \A n \in DOMAIN rounds : rounds[n] \subseteq Symbols

\* A transaction that waits is of a round that was started.
SentTypes ==
    /\ sent \subseteq Transaction
    /\ \A tx \in sent : tx.round <= started

OracleTypes ==
    /\ admin \in [Oracles -> Addresses \cup {None}]
    /\ assetPrices \in [Oracles -> [Priced -> 0 .. started]]
    /\ fed \in [Oracles -> BOOLEAN]

FeederInv == HandlesInv /\ AskedTypes /\ RoundTypes /\ SentTypes /\ OracleTypes

\* A round begins.
LEMMA FetchTypes ==
    ASSUME FeederInv, Fetch, feeding' = TRUE, oracle' \in Addresses \cup {None},
           UNCHANGED <<chain, clientVars, sent>>, HandlesInv'
    PROVE  FeederInv'
<1>1. /\ started < MaxRounds /\ started' = started + 1 /\ rounds' = With(started + 1, {})
      /\ UNCHANGED <<admin, assetPrices, fed, asked, sent>>
    BY DEF Fetch, chain, prices, clientVars, loads
<1>2. started \in Nat /\ MaxRounds \in Nat /\ started' \in 0 .. MaxRounds /\ started + 1 \in 1 .. started'
    BY <1>1, FeederAssumption DEF FeederInv, RoundTypes
<1>3. /\ \A n \in 1 .. started : n \in 1 .. started'
      /\ \A n \in 0 .. started : n \in 0 .. started'
      /\ \A n \in Round : n <= started => n <= started'
    BY <1>1, <1>2 DEF Round
<1>4. RoundTypes'
    <2>1. DOMAIN rounds' = DOMAIN rounds \cup {started + 1}
          /\ \A n \in DOMAIN rounds' : rounds'[n] = IF n = started + 1 THEN {} ELSE rounds[n]
        BY <1>1 DEF With
    <2>2. QED
        BY <1>2, <1>3, <2>1 DEF FeederInv, RoundTypes
<1>5. SentTypes'
    BY <1>1, <1>3 DEF FeederInv, SentTypes, Transaction
<1>6. OracleTypes'
    BY <1>1, <1>3 DEF FeederInv, OracleTypes
<1>7. AskedTypes'
    BY <1>1 DEF FeederInv, AskedTypes
<1>8. QED
    BY <1>4, <1>5, <1>6, <1>7 DEF FeederInv

\* A round gets an answer, or ends.
LEMMA RoundChanges ==
    ASSUME FeederInv, HandlesInv', NEW n \in DOMAIN rounds,
           \/ \E symbols \in SUBSET Symbols : rounds' = With(n, symbols)
           \/ rounds' = Without(n),
           UNCHANGED <<feeding, oracle, started, admin, assetPrices, fed, asked>>, SentTypes'
    PROVE  FeederInv'
<1>1. DOMAIN rounds' \subseteq DOMAIN rounds /\ \A m \in DOMAIN rounds' : rounds'[m] \subseteq Symbols
    BY DEF FeederInv, RoundTypes, With, Without
<1>2. feeding
    BY DEF FeederInv, RoundTypes
<1>3. RoundTypes'
    BY <1>1, <1>2 DEF FeederInv, RoundTypes
<1>4. QED
    BY <1>3 DEF FeederInv, AskedTypes, OracleTypes

LEMMA FeederRound ==
    ASSUME FeederInv, HandlesInv', NEW n \in Round,
           (\E s \in Symbols : Resolve(n, s)) \/ Reject(n) \/ Send(n)
    PROVE  FeederInv'
<1>1. n \in DOMAIN rounds /\ rounds[n] \subseteq Symbols
    BY DEF Resolve, Reject, Send, FeederInv, RoundTypes
<1>2. /\ \/ \E symbols \in SUBSET Symbols : rounds' = With(n, symbols)
         \/ rounds' = Without(n)
      /\ UNCHANGED <<feeding, oracle, started, admin, assetPrices, fed, asked>>
    BY <1>1 DEF Resolve, Reject, Send, Sending, chain, prices, clientVars, loads
<1>3. n <= started
    BY <1>1, FeederAssumption DEF FeederInv, RoundTypes
<1>4. SentTypes'
    <2>1. CASE UNCHANGED sent
        BY <1>2, <2>1 DEF FeederInv, SentTypes
    <2>2. CASE sent' = sent \cup {[round |-> n, oracle |-> oracle, symbols |-> rounds[n]]}
        <3>1. [round |-> n, oracle |-> oracle, symbols |-> rounds[n]] \in Transaction
            BY <1>1 DEF FeederInv, RoundTypes, Transaction
        <3>2. QED
            BY <1>2, <1>3, <2>2, <3>1 DEF FeederInv, SentTypes
    <2>3. QED
        BY <2>1, <2>2 DEF Resolve, Reject, Send, Sending
<1>5. QED
    BY <1>1, <1>2, <1>4, RoundChanges

\* What is set is of a round that was started, or of none.
LEMMA PricesTypes ==
    ASSUME OracleTypes, NEW o, NEW S, NEW price \in 0 .. started, NEW byFeeder \in BOOLEAN,
           SetPrices(o, S, price, byFeeder)
    PROVE  assetPrices' \in [Oracles -> [Priced -> 0 .. started]] /\ fed' \in [Oracles -> BOOLEAN]
<1>1. ASSUME o \in Oracles
      PROVE  [s \in Priced |-> IF s \in S THEN price ELSE assetPrices[o][s]] \in [Priced -> 0 .. started]
    BY <1>1 DEF OracleTypes
<1>2. QED
    BY <1>1 DEF SetPrices, OracleTypes

LEMMA FeederMined ==
    ASSUME FeederInv, HandlesInv', NEW tx \in sent, SetUnderlyingPrices(tx)
    PROVE  FeederInv'
<1>1. /\ sent' = sent \ {tx}
      /\ UNCHANGED <<admin, feeding, oracle, rounds, started, asked>>
    BY DEF SetUnderlyingPrices, clientVars, loads, process
<1>2. tx.round \in 0 .. started
    BY FeederAssumption DEF FeederInv, SentTypes, RoundTypes, Transaction, Round
<1>3. assetPrices' \in [Oracles -> [Priced -> 0 .. started]] /\ fed' \in [Oracles -> BOOLEAN]
    BY <1>2, PricesTypes DEF SetUnderlyingPrices, FeederInv, OracleTypes, prices
<1>4. QED
    BY <1>1, <1>3 DEF FeederInv, AskedTypes, RoundTypes, SentTypes, OracleTypes

\* Another call of the admin leaves the feeder alone.
LEMMA FeederByHand ==
    ASSUME FeederInv, HandlesInv', NEW o \in Oracles, NEW S, SetPricesByHand(o, S)
    PROVE  FeederInv'
<1>1. UNCHANGED <<admin, feeding, oracle, rounds, started, sent, asked>>
    BY DEF SetPricesByHand, clientVars, loads, process
<1>2. 0 \in 0 .. started
    BY FeederAssumption DEF FeederInv, RoundTypes
<1>3. assetPrices' \in [Oracles -> [Priced -> 0 .. started]] /\ fed' \in [Oracles -> BOOLEAN]
    BY <1>2, PricesTypes DEF SetPricesByHand, FeederInv, OracleTypes
<1>4. QED
    BY <1>1, <1>3 DEF FeederInv, AskedTypes, RoundTypes, SentTypes, OracleTypes

LEMMA FeederClient ==
    ASSUME FeederInv, HandlesInv', ClientNext, UNCHANGED <<chain, process, sent>>
    PROVE  FeederInv'
<1>1. UNCHANGED <<admin, assetPrices, fed, feeding, oracle, rounds, started, sent>>
    BY DEF chain, prices, process
<1>2. MaxLoads \in Nat
    BY RealDAOAssumption
<1>3. AskedTypes'
    <2>1. ASSUME NEW k \in Loadable, Load(k) PROVE AskedTypes'
        <3>1. asked[k] + 1 \in 0 .. MaxLoads
            BY <1>2, <2>1 DEF FeederInv, AskedTypes, Load
        <3>2. QED
            BY <2>1, <3>1 DEF FeederInv, AskedTypes, Load
    <2>2. ASSUME NEW k \in Loadable, AnswerLoad(k) PROVE AskedTypes'
        <3>1. asked[k] - 1 \in 0 .. MaxLoads
            BY <1>2, <2>2 DEF FeederInv, AskedTypes, AnswerLoad
        <3>2. QED
            BY <2>2, <3>1 DEF FeederInv, AskedTypes, AnswerLoad
    <2>3. QED
        BY <2>1, <2>2 DEF ClientNext, SetProvider, CreateHandle, loads, FeederInv, AskedTypes
<1>4. QED
    BY <1>1, <1>3 DEF FeederInv, RoundTypes, SentTypes, OracleTypes

LEMMA FeederAdmin ==
    ASSUME FeederInv, HandlesInv', NEW sender, NEW o \in Oracles,
           NEW newAdmin \in Addresses \cup {None}, ChangeAdmin(sender, o, newAdmin)
    PROVE  FeederInv'
<1>1. UNCHANGED <<assetPrices, fed, feeding, oracle, rounds, started, sent, asked>>
    BY DEF ChangeAdmin, prices, clientVars, loads, process
<1>2. admin' \in [Oracles -> Addresses \cup {None}]
    BY DEF ChangeAdmin, FeederInv, OracleTypes
<1>3. QED
    BY <1>1, <1>2 DEF FeederInv, AskedTypes, RoundTypes, SentTypes, OracleTypes

\* The variables of the feeder keep their types: what is sent, and what is in
\* an oracle, is of a round that was started, and nothing is left of a process
\* that ended.
THEOREM FeederTypes == Spec => []TypeOK
<1>1. Init => FeederInv
    <2> SUFFICES ASSUME Init PROVE FeederInv
        OBVIOUS
    <2>1. HandlesInv
        BY RegistryStart, KeptStart DEF Init, ClientInit, HandlesInv, Loaded
    <2>2. AskedTypes /\ RoundTypes /\ SentTypes /\ OracleTypes
        <3>1. 0 \in 0 .. MaxRounds /\ 0 \in 0 .. MaxLoads
            BY FeederAssumption, RealDAOAssumption
        <3>2. AskedTypes
            BY <3>1 DEF Init, ClientInit, AskedTypes
        <3>3. DOMAIN rounds = {}
            BY DEF Init
        <3>4. RoundTypes
            BY <3>1, <3>3 DEF Init, RoundTypes
        <3>5. SentTypes /\ OracleTypes
            BY DEF Init, SentTypes, OracleTypes
        <3>6. QED
            BY <3>2, <3>4, <3>5
    <2>3. QED
        BY <2>1, <2>2 DEF FeederInv
<1>2. FeederInv /\ [Next]_vars => FeederInv'
    <2> SUFFICES ASSUME FeederInv, [Next]_vars PROVE FeederInv'
        OBVIOUS
    <2>1. HandlesInv'
        BY HandlesStep DEF FeederInv
    <2>2. CASE UNCHANGED <<admin, prices, clientVars, process, sent>>
        BY <2>1, <2>2
        DEF FeederInv, AskedTypes, RoundTypes, SentTypes, OracleTypes, prices, clientVars, loads, process
    <2>3. CASE ClientNext /\ UNCHANGED <<chain, process, sent>>
        BY <2>1, <2>3, FeederClient
    <2>4. CASE Start
        <3>1. handles["ORACLE"].addr \in Addresses \cup {None}
            BY <2>4, FeederAssumption DEF Start, Loaded, FeederInv, HandlesInv, Handle
        <3>2. QED
            BY <2>1, <2>4, <3>1, FetchTypes DEF Start
    <2>5. CASE Tick
        BY <2>1, <2>5, FetchTypes DEF Tick, FeederInv, RoundTypes
    <2>6. CASE Crash
        <3>1. UNCHANGED <<admin, assetPrices, fed, started, sent>>
            BY <2>6 DEF Crash, chain, prices
        <3>2. AskedTypes' /\ RoundTypes'
            <4>1. 0 \in 0 .. MaxLoads
                BY RealDAOAssumption
            <4>2. AskedTypes'
                BY <2>6, <4>1 DEF Crash, AskedTypes
            <4>3. DOMAIN rounds' = {}
                BY <2>6 DEF Crash
            <4>4. RoundTypes'
                BY <2>6, <3>1, <4>3 DEF Crash, FeederInv, RoundTypes
            <4>5. QED
                BY <4>2, <4>4
        <3>3. QED
            BY <2>1, <3>1, <3>2 DEF FeederInv, SentTypes, OracleTypes
    <2>7. ASSUME NEW n \in Round, (\E s \in Symbols : Resolve(n, s)) \/ Reject(n) \/ Send(n)
          PROVE  FeederInv'
        BY <2>1, <2>7, FeederRound
    <2>8. ASSUME NEW tx \in sent, SetUnderlyingPrices(tx) PROVE FeederInv'
        BY <2>1, <2>8, FeederMined
    <2>9. ASSUME NEW sender \in Senders, NEW o \in Oracles, NEW a \in Addresses \cup {None},
                 ChangeAdmin(sender, o, a)
          PROVE  FeederInv'
        BY <2>1, <2>9, FeederAdmin
    <2>10. CASE UNCHANGED vars
        BY <2>2, <2>10 DEF vars, chain
    <2>11. ASSUME NEW o \in Oracles, NEW S, SetPricesByHand(o, S) PROVE FeederInv'
        BY <2>1, <2>11, FeederByHand
    <2>12. QED
        BY <2>2, <2>3, <2>4, <2>5, <2>6, <2>7, <2>8, <2>9, <2>10, <2>11 DEF Next
<1>3. FeederInv => TypeOK
    BY DEF FeederInv, HandlesInv, RegistryInv, AskedTypes, RoundTypes, SentTypes, OracleTypes,
           TypeOK, ClientTypeOK
<1>4. QED
    BY <1>1, <1>2, <1>3, PTL DEF Spec
=============================================================================
