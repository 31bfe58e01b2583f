----------------------------- MODULE PriceFeeder -----------------------------
(***************************************************************************)
(* The price feeder of the indexing server (price-feeder.js) with the      *)
(* oracle contract it writes to (FeedPriceOracle.sol).  A timer starts a   *)
(* round, whether the last one has ended or not; a round asks an exchange  *)
(* for every symbol's price and, when all have come, sends them in one     *)
(* transaction.  The price of a symbol is the round it was fetched in.     *)
(* Whoever is the admin of an oracle may set the price of any symbol, the  *)
(* deployment's migration among them (7_setup_oracle.js).                  *)
(*                                                                         *)
(* The server's object of the SDK is the one of RealDAO: the feeder is     *)
(* given its oracle once, and the object's provider is not changed then.   *)
(***************************************************************************)
EXTENDS RealDAO

CONSTANTS
    Symbols,     \* feedConfig
    Unfed,       \* symbols that only the deployment prices: ETH
    Feeder,      \* the account of the server's admin key
    MaxRounds    \* bound of the model

ASSUME FeederAssumption ==
    /\ "ORACLE" \in Loadable
    /\ Symbols \cap Unfed = {}
    /\ Feeder \in Addresses
    /\ MaxRounds \in Nat

VARIABLES
    feeding,     \* the timer runs
    oracle,      \* oracleContract: the address in its handle
    rounds,      \* rounds[n]: the symbols answered, of the rounds under way
    started,     \* rounds started
    sent,        \* transactions of the feeder that wait for a block
    admin,       \* FeedPriceOracle: admin[o]
    assetPrices, \* FeedPriceOracle: assetPrices[o][symbol], the round of the
                 \* price, 0 when it is of none: not set, or set by hand
    fed          \* history: whether the feeder was the last to set prices

process == <<feeding, oracle, rounds, started>>
prices == <<assetPrices, fed>>
chain == <<registryVars, admin, prices>>
vars == <<chain, clientVars, process, sent>>

Oracles == Candidates["ORACLE"]
Priced == Symbols \cup Unfed
Round == 1 .. MaxRounds
Transaction == [round : Round, oracle : Addresses \cup {None}, symbols : SUBSET Symbols]

TypeOK ==
    /\ RegistryTypeOK
    /\ ClientTypeOK
    /\ feeding \in BOOLEAN /\ oracle \in Addresses \cup {None}
    /\ ~feeding => oracle = None /\ rounds = <<>>
    /\ started \in 0 .. MaxRounds
    /\ DOMAIN rounds \subseteq 1 .. started
    /\ \A n \in DOMAIN rounds : rounds[n] \subseteq Symbols
    /\ sent \subseteq Transaction
    /\ admin \in [Oracles -> Addresses \cup {None}]
    /\ assetPrices \in [Oracles -> [Priced -> 0 .. started]]
    /\ fed \in [Oracles -> BOOLEAN]

Init ==
    /\ RegistryInit
    /\ ClientInit
    /\ feeding = FALSE /\ oracle = None
    /\ rounds = <<>> /\ started = 0
    /\ sent = {}
    /\ admin = [o \in Oracles |-> None]
    /\ assetPrices = [o \in Oracles |-> [s \in Priced |-> 0]]
    /\ fed = [o \in Oracles |-> FALSE]

-----------------------------------------------------------------------------
(***************************************************************************)
(* The feeder.                                                             *)
(***************************************************************************)
With(n, symbols) == [m \in DOMAIN rounds \cup {n} |-> IF m = n THEN symbols ELSE rounds[m]]
Without(n) == [m \in DOMAIN rounds \ {n} |-> rounds[m]]

\* _fetchPriceAndFeed, up to the answers of the exchange.
Fetch ==
    /\ started < MaxRounds
    /\ started' = started + 1
    /\ rounds' = With(started + 1, {})

\* The server is given the handle of its oracle and starts with a round.
Start ==
    /\ ~feeding /\ Loaded("ORACLE")
    /\ feeding' = TRUE
    /\ oracle' = handles["ORACLE"].addr
    /\ Fetch
    /\ UNCHANGED <<chain, clientVars, sent>>

\* The interval passes.
Tick ==
    /\ feeding
    /\ Fetch
    /\ UNCHANGED <<chain, clientVars, sent, feeding, oracle>>

\* The exchange answers for a symbol.
Resolve(n, s) ==
    /\ n \in DOMAIN rounds /\ s \in Symbols \ rounds[n]
    /\ rounds' = With(n, rounds[n] \cup {s})
    /\ UNCHANGED <<chain, clientVars, sent, feeding, oracle, started>>

\* A request fails, or its answer has no price: the round is given up.
Reject(n) ==
    /\ n \in DOMAIN rounds /\ rounds[n] # Symbols
    /\ rounds' = Without(n)
    /\ UNCHANGED <<chain, clientVars, sent, feeding, oracle, started>>

Sending(n, symbols) ==
    /\ sent' = sent \cup {[round |-> n, oracle |-> oracle, symbols |-> symbols]}
    /\ rounds' = Without(n)
    /\ UNCHANGED <<chain, clientVars, feeding, oracle, started>>

\* Mutant: what has been answered is sent.
SendSome(n) == n \in DOMAIN rounds /\ rounds[n] # {} /\ Sending(n, rounds[n])

\* All symbols are answered: their prices are sent in one transaction.
Send(n) == n \in DOMAIN rounds /\ rounds[n] = Symbols /\ Sending(n, rounds[n])

\* Mutant: the exception ends the timer, the rounds under way go on.
CrashPartly ==
    /\ feeding' = FALSE /\ oracle' = None
    /\ handles' = [k \in Loadable |-> NotLoaded]
    /\ asked' = [k \in Loadable |-> 0]
    /\ answers' = [k \in Loadable |-> {}]
    /\ UNCHANGED <<chain, provider, rounds, started, sent>>

\* The process ends with an exception, for one when an answer is no JSON: it
\* is thrown in a callback that no promise guards.  A new object of the SDK is
\* made at the next start.
Crash ==
    /\ feeding' = FALSE /\ oracle' = None
    /\ rounds' = <<>>
    /\ handles' = [k \in Loadable |-> NotLoaded]
    /\ asked' = [k \in Loadable |-> 0]
    /\ answers' = [k \in Loadable |-> {}]
    /\ UNCHANGED <<chain, provider, started, sent>>

-----------------------------------------------------------------------------
(***************************************************************************)
(* The oracle.                                                             *)
(***************************************************************************)

SetPrices(o, symbols, price, byFeeder) ==
    /\ assetPrices' = [assetPrices EXCEPT ![o] =
                          [s \in Priced |-> IF s \in symbols THEN price ELSE @[s]]]
    /\ fed' = [fed EXCEPT ![o] = byFeeder]

\* A transaction of the feeder gets into a block: in any order, as nothing
\* makes a round wait for the one before.
SetUnderlyingPrices(tx) ==
    /\ tx \in sent
    /\ sent' = sent \ {tx}
    /\ IF tx.oracle \in Oracles /\ admin[tx.oracle] = Feeder
       THEN SetPrices(tx.oracle, tx.symbols, tx.round, TRUE)
       ELSE UNCHANGED prices
    /\ UNCHANGED <<registryVars, clientVars, process, admin>>

\* The admin of the oracle, the feeder's account or another one, calls
\* setUnderlyingPrices itself, for the symbols it likes.
SetPricesByHand(o, symbols) ==
    /\ admin[o] # None
    /\ SetPrices(o, symbols, 0, FALSE)
    /\ UNCHANGED <<registryVars, clientVars, process, sent, admin>>

\* onlyCouncil also lets the orchestrator itself through (AuthBase.sol:23),
\* which calls no function of an oracle.
OnlyCouncil(sender) == sender \in {GetAddress("COUNCIL"), GetAddress("DEMOCRACY"), guardian}

ChangeAdmin(sender, o, newAdmin) ==
    /\ OnlyCouncil(sender)
    /\ newAdmin # admin[o]
    /\ admin' = [admin EXCEPT ![o] = newAdmin]
    /\ UNCHANGED <<registryVars, prices, clientVars, process, sent>>

Next ==
    \/ RegistryNext /\ UNCHANGED <<admin, prices, clientVars, process, sent>>
    \/ ClientNext /\ (feeding => provider' = provider) /\ UNCHANGED <<chain, process, sent>>
    \/ Start \/ Tick \/ Crash
    \/ \E n \in Round : \/ \E s \in Symbols : Resolve(n, s)
                        \/ Reject(n) \/ Send(n)
    \/ \E tx \in sent : SetUnderlyingPrices(tx)
    \/ \E o \in Oracles, symbols \in SUBSET Priced \ {{}} : SetPricesByHand(o, symbols)
    \/ \E sender \in Senders, o \in Oracles, newAdmin \in Addresses \cup {None} :
            ChangeAdmin(sender, o, newAdmin)

Spec == Init /\ [][Next]_vars

-----------------------------------------------------------------------------
\* Whenever the feeder was the last to set prices on an oracle, the prices of
\* its symbols there are all of one and the same round, however rounds overlap,
\* fail, overtake each other in the blocks or are cut off by the end of the
\* process, and whoever was the admin and set prices before: no liquidity check
\* compares prices of the feeder that are of different moments
\* (price-feeder.js:92).  Of a symbol that is not fed, and of prices another
\* call has set since, nothing is claimed.
PricesOfOneRound ==
    \A o \in Oracles : fed[o] =>
        \E n \in 1 .. started : \A s \in Symbols : assetPrices[o][s] = n
=============================================================================
