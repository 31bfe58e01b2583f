---------------------------- MODULE Orchestrator ----------------------------
(***************************************************************************)
(* The registry of the protocol's contracts (Orchestrator.sol): every      *)
(* contract asks it for the addresses of the others and for the guardian.  *)
(* An entry is immutable, replaceable, or upgradeable behind a proxy the   *)
(* registry made; who may change it is part of the entry.  The guardian    *)
(* stands in for both councils until it abdicates.                         *)
(***************************************************************************)
EXTENDS Naturals

CONSTANTS
    Keys,        \* keys of the registry in use
    Addresses,   \* accounts and contracts
    None,        \* address(0)
    ProxyOf,     \* ProxyOf[key]: the proxy made when key is registered as one
    Senders,     \* accounts that call the registry
    Candidates   \* Candidates[key]: contracts that may be given to key

\* The keys that initialize registers, as proxies, replaceable and immutable.
ProxyKeys == Keys \cap {"MARKET_CONTROLLER", "DISTRIBUTOR"}
ReplaceableKeys == Keys \cap {"INTEREST_RATE_MODEL", "ORACLE", "COUNCIL", "REPORTER"}
ImmutableKeys == Keys \cap {"RDS", "DOL"}
InitialKeys == ProxyKeys \cup ReplaceableKeys \cup ImmutableKeys

ASSUME OrchestratorAssumption ==
    /\ {"MARKET_CONTROLLER", "COUNCIL", "DEMOCRACY"} \subseteq Keys
    /\ None \notin Addresses
    /\ ProxyOf \in [Keys -> Addresses]
    /\ \A j, k \in Keys : j # k => ProxyOf[j] # ProxyOf[k]
    /\ Senders \subseteq Addresses
    /\ Candidates \in [Keys -> SUBSET Addresses]

VARIABLES
    guardian,
    contracts,        \* contracts[key]
    implementation    \* implementation[p]: of a proxy that was made

registryVars == <<guardian, contracts, implementation>>

ContractVariability == {"None", "Immutable", "Replaceable", "Upgradeable"}
UpdatePermission == {"None", "Council", "Democracy"}
ContractConfig == [addr : Addresses \cup {None},
                   variability : ContractVariability, permission : UpdatePermission]

Config(addr, variability, permission) ==
    [addr |-> addr, variability |-> variability, permission |-> permission]

RegistryTypeOK ==
    /\ guardian \in Addresses \cup {None}
    /\ contracts \in [Keys -> ContractConfig]
    /\ implementation \in [Addresses -> Addresses \cup {None}]

RegistryInit ==
    /\ guardian = None
    /\ contracts = [k \in Keys |-> Config(None, "None", "None")]
    /\ implementation = [p \in Addresses |-> None]

GetAddress(key) == contracts[key].addr

Registered(key) == GetAddress(key) # None

\* checkPermission: an entry without a permission fails an assertion.
CheckPermission(sender, permission) ==
    \/ permission = "Council" /\ sender \in {GetAddress("COUNCIL"), guardian}
    \/ permission = "Democracy" /\ sender \in {GetAddress("DEMOCRACY"), guardian}

-----------------------------------------------------------------------------
(***************************************************************************)
(* Operations.                                                             *)
(***************************************************************************)

\* The entries that initialize makes, of the contracts `new`.
InitialConfig(k, new) ==
    IF k \in ProxyKeys THEN Config(ProxyOf[k], "Upgradeable", "Council")
    ELSE IF k \in ReplaceableKeys THEN Config(new[k], "Replaceable", "Council")
    ELSE Config(new[k], "Immutable", "Council")

Bootstrap(new) ==
    /\ contracts' = [k \in Keys |-> IF k \in InitialKeys THEN InitialConfig(k, new) ELSE contracts[k]]
    /\ implementation' = [p \in Addresses |->
            IF \E k \in ProxyKeys : p = ProxyOf[k]
            THEN new[CHOOSE k \in ProxyKeys : p = ProxyOf[k]] ELSE implementation[p]]

\* Mutant: the guardian is set although the registrations fail.
InitializeAgain(sender, new) ==
    /\ guardian' = sender
    /\ IF \E k \in InitialKeys : Registered(k) THEN UNCHANGED <<contracts, implementation>>
       ELSE Bootstrap(new)

\* initialize: whoever calls it first becomes the guardian, with whose
\* permission the contracts are registered.  It reverts as a whole, its first
\* assignment included, when one of them is registered already.
Initialize(sender, new) ==
    /\ \A k \in InitialKeys : ~Registered(k)
    /\ guardian' = sender
    /\ Bootstrap(new)

RegisterContract(sender, key, addr, variability, permission) ==
    /\ CheckPermission(sender, "Council")
    /\ ~Registered(key)
    /\ key = "DEMOCRACY" => variability = "Replaceable" /\ permission = "Democracy"
    /\ contracts' = [contracts EXCEPT ![key] = Config(addr, variability, permission)]
    /\ UNCHANGED <<guardian, implementation>>

\* Mutant: an entry of any variability is updated.
UpdateContractAny(sender, key, newAddr) ==
    /\ Registered(key)
    /\ CheckPermission(sender, contracts[key].permission)
    /\ contracts' = [contracts EXCEPT ![key].addr = newAddr]
    /\ UNCHANGED <<guardian, implementation>>

\* The new address may be zero: the entry then counts as not registered.
UpdateContract(sender, key, newAddr) ==
    /\ Registered(key)
    /\ contracts[key].variability = "Replaceable"
    /\ CheckPermission(sender, contracts[key].permission)
    /\ contracts' = [contracts EXCEPT ![key].addr = newAddr]
    /\ UNCHANGED <<guardian, implementation>>

RegisterProxy(sender, key, impl, permission) ==
    /\ CheckPermission(sender, "Council")
    /\ key # "DEMOCRACY"
    /\ ~Registered(key)
    /\ contracts' = [contracts EXCEPT ![key] = Config(ProxyOf[key], "Upgradeable", permission)]
    /\ implementation' = [implementation EXCEPT ![ProxyOf[key]] = impl]
    /\ UNCHANGED guardian

\* The variability is not looked at, but a contract that is no proxy of this
\* registry has no implementation to replace, and the call reverts.
UpgradeProxy(sender, key, newImpl) ==
    /\ Registered(key)
    /\ CheckPermission(sender, contracts[key].permission)
    /\ implementation[GetAddress(key)] # None
    /\ implementation' = [implementation EXCEPT ![GetAddress(key)] = newImpl]
    /\ UNCHANGED <<guardian, contracts>>

Abdicate(sender) ==
    /\ CheckPermission(sender, "Council")
    /\ Registered("DEMOCRACY")
    /\ guardian' = None
    /\ UNCHANGED <<contracts, implementation>>

New == {new \in [InitialKeys -> UNION {Candidates[k] : k \in InitialKeys}] :
            \A k \in InitialKeys : new[k] \in Candidates[k]}

RegistryNext ==
    \E sender \in Senders :
        \/ \E new \in New : Initialize(sender, new)
        \/ Abdicate(sender)
        \/ \E key \in Keys, addr \in Addresses :
            /\ addr \in Candidates[key]
            /\ \/ \E v \in ContractVariability, p \in UpdatePermission :
                    RegisterContract(sender, key, addr, v, p)
               \/ \E p \in UpdatePermission : RegisterProxy(sender, key, addr, p)
               \/ UpgradeProxy(sender, key, addr)
               \/ UpdateContract(sender, key, addr)
        \/ \E key \in Keys : UpdateContract(sender, key, None)

RegistrySpec == RegistryInit /\ [][RegistryNext]_registryVars

-----------------------------------------------------------------------------
(***************************************************************************)
(* Properties.                                                             *)
(***************************************************************************)

\* A registered entry that is not replaceable is registered for good, with the
\* same address and permission: not even by way of an update to zero, of a
\* second registration, or of another call of initialize does it change, so
\* that what other contracts read once they may keep
\* (registerContract, updateContract, registerProxy).
StableEntries ==
    \A k \in Keys : Registered(k) /\ contracts[k].variability # "Replaceable"
                        => contracts'[k] = contracts[k]

\* Once anything is registered nobody becomes guardian any more: initialize
\* cannot be called again, and an abdication is final.
AbdicationFinal == (\E k \in Keys : Registered(k)) => guardian' \in {guardian, None}

\* What governance has given away it does not get back (Orchestrator.sol:75,
\* Orchestrator.sol:238).
Irrevocable == [][StableEntries /\ AbdicationFinal]_registryVars
=============================================================================
