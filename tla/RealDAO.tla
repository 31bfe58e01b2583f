------------------------------- MODULE RealDAO -------------------------------
(***************************************************************************)
(* The SDK's view of the registry (sdk/src/realdao.js): an object that     *)
(* looks up the addresses of the contracts once and keeps a handle on each *)
(* of them.  A load is asynchronous: the registry is read by a node, and   *)
(* the handle is made when the answer arrives, whatever has happened to    *)
(* the object and to the registry in between.                              *)
(***************************************************************************)
EXTENDS Orchestrator

CONSTANTS
    Loadable,    \* keys that the object loads
    Providers,   \* nodes of the network it may be given
    NotLoaded,
    MaxLoads     \* bound of the model: loads of one key under way

ASSUME RealDAOAssumption ==
    /\ Loadable \subseteq Keys
    /\ MaxLoads \in Nat \ {0}

VARIABLES
    provider,
    handles,   \* handles[key]: what the contract's instance was made of
    asked,     \* asked[key]: loads the node has not answered yet
    answers    \* answers[key]: addresses on their way back

loads == <<asked, answers>>
clientVars == <<provider, handles, loads>>

Handle == [provider : Providers, addr : Addresses \cup {None}]

ClientTypeOK ==
    /\ provider \in Providers
    /\ handles \in [Loadable -> Handle \cup {NotLoaded}]
    /\ asked \in [Loadable -> 0 .. MaxLoads]
    /\ answers \in [Loadable -> SUBSET (Addresses \cup {None})]

ClientInit ==
    /\ provider \in Providers
    /\ handles = [k \in Loadable |-> NotLoaded]
    /\ asked = [k \in Loadable |-> 0]
    /\ answers = [k \in Loadable |-> {}]

\* The getters throw when the contract is not loaded.
Loaded(key) == handles[key] # NotLoaded

\* Mutant: the handle on RDS survives, as the oracle's does.
SetProviderKeeps(p) ==
    /\ provider' = p
    /\ handles' = [k \in Loadable |-> IF k \in {"ORACLE", "RDS"} THEN handles[k] ELSE NotLoaded]
    /\ UNCHANGED loads

\* setProvider drops every handle but that on the oracle.  The loads under way
\* are not dropped.
SetProvider(p) ==
    /\ provider' = p
    /\ handles' = [k \in Loadable |-> IF k = "ORACLE" THEN handles[k] ELSE NotLoaded]
    /\ UNCHANGED loads

\* A load: nothing to do when there is a handle; a load under way is not seen.
Load(key) ==
    /\ ~Loaded(key) /\ asked[key] < MaxLoads
    /\ asked' = [asked EXCEPT ![key] = @ + 1]
    /\ UNCHANGED <<provider, handles, answers>>

\* External: a node reads the registry.
AnswerLoad(key) ==
    /\ asked[key] > 0
    /\ asked' = [asked EXCEPT ![key] = @ - 1]
    /\ answers' = [answers EXCEPT ![key] = @ \cup {GetAddress(key)}]
    /\ UNCHANGED <<provider, handles>>

\* The answer arrives.  The instance is made on the provider of this moment.
CreateHandle(key, addr) ==
    /\ addr \in answers[key]
    /\ answers' = [answers EXCEPT ![key] = @ \ {addr}]
    /\ handles' = [handles EXCEPT ![key] = [provider |-> provider, addr |-> addr]]
    /\ UNCHANGED <<provider, asked>>

\* The registry changes hands or entries while the object lives.
ClientNext ==
    \/ \E p \in Providers \ {provider} : SetProvider(p)
    \/ \E k \in Loadable :
        \/ Load(k) \/ AnswerLoad(k)
        \/ \E addr \in answers[k] : CreateHandle(k, addr)

-----------------------------------------------------------------------------
\* Whatever loads overlap with changes of the provider and with the decisions
\* of governance, a handle never talks to a provider that was replaced, nor,
\* of the contracts that are to keep their address, to another address than
\* the registry's.  Excepted are the oracle's provider, which setProvider
\* forgets, and contracts looked up before they were registered
\* (realdao.js:38, realdao.js:213).
HandlesTrusted ==
    \A k \in Loadable : Loaded(k) =>
        /\ k # "ORACLE" => handles[k].provider = provider
        /\ k \in ProxyKeys \cup ImmutableKeys =>
            handles[k].addr \in {None, GetAddress(k)}
=============================================================================
