# RealDAO protocol: TLA+ specifications

This directory models the RealDAO protocol, its contracts (`src/src/*.sol`), the
indexing server, the SDK and the deployment scripts, and checks them: TLC explores small
instances; TLAPS proves the safety properties for all values of the constants. Every
definition is translated from the source; `PROJECT.json` maps each one to the lines it
stands for.

## 1. The system and its parts

| part | state it keeps | operations | who calls it |
|---|---|---|---|
| Distributor (`Distributor.sol`) | mining pools, an account record per pool, pool of a token, block reward and halving, counters of the active pools | open, report power, lock, claim, exit, create and close pools | users, money markets, council, market controller |
| Money markets (`RToken*.sol`, `RERC20`, `REther`, `RDOL`) | cash, supply, borrows, reserves, borrow index, tokens, debts and allowances of accounts | mint, redeem, borrow, repay, liquidate, seize, transfer, approve, add reserves, system supply, accrue | users, other markets (seize), council |
| Market controller and library | state and collateral factor of markets, close factor, incentive, suspension | policy hooks, life cycle of a market, setters | money markets, council |
| Interest rate model | four rate parameters | rates, update | money markets, council |
| Oracles | price per token | get price, feed | market controller, price feeder |
| RDS token | balances, allowances, delegates, checkpoints of votes | transfer, mint, burn, delegate, prior votes | users, Distributor (superior) |
| DOL token | balances, allowances | transfer, mint, burn | users, rDOL (superior) |
| Council | proposals, voters, members, limits | propose, vote, execute, cancel, new term | members, anyone (execute), democracy |
| Orchestrator, proxies, Supreme, AuthBase | registry of contracts, guardian, implementations | register, update, upgrade, abdicate, permission checks | council, democracy, guardian |
| Democracy | none of consequence (a stub) | execute | anyone |
| Indexing server: council | checkpoint, proposal and voter documents | poll events, store, answer queries | chain events, HTTP |
| Indexing server: accounts | a checkpoint per token, two queues, pending keys, account documents | poll events, retrieve accounts, write, refresh | chain events, timers |
| Indexing server: price feeder | rounds under way | fetch, feed | timer |
| SDK (`realdao.js`) | provider, a handle per contract | set provider, load | server, command line, scripts |
| Deployment (`migrations`) | what truffle has recorded | make, register and wire contracts | an operator |

How they meet: a user's call to a money market accrues interest with the rate
model, asks the market controller whether it is allowed (which calls back into
all the markets and the oracle for liquidity), writes the market's books and
reports the account's new power to the Distributor. The Distributor mints RDS.
Closing a market in the controller closes its pool in the Distributor. The
council governs all of it through proposals; the indexing server follows the
events of the council and of the tokens.

A call is one transaction: it runs alone and reverts as a whole, so one
operation is one action. What is hard here is not threads but *sequences*:
lazily updated indexes (rewards, interest) that are exact only after an update,
rounding at every step of long histories, state written in two contracts that
must agree, and call-backs that read state in the middle of an operation. In
the indexing server and the SDK there are crashes, restarts, answers that arrive
late and timers that do not wait for each other; a deployment may die between any
two of its transactions.

What makes each part correct: the Distributor neither loses nor invents rewards
and can always give back what was locked; a market stays backed, never takes
from those who stay, and reports every power; the controller never lets a step
lead an account into shortfall, freezes everything on suspension and lets a
supplier without debts leave; votes equal delegated balances at every block; a
proposal runs inside its window only, and never again once its execution is over;
the registry takes nothing back that governance gave away; the indexes converge to
the chain; the prices the feeder sets belong together; a handle of the SDK is on the
contract the registry names; and a deployment that is recorded is complete.

## 2. Modules

| module | models | depends on |
|---|---|---|
| `TokenSums` | the sum of a ledger, used by every invariant about totals | |
| `DataTheorems` | lemmas about sums, induction over the naturals, loops and positions, proved | `TokenSums` |
| `Distributor` | `Distributor.sol`, and the life cycle of markets from `MarketController.sol` | `TokenSums` |
| `DistributorProofs` | theorems about it | `DataTheorems` |
| `Exponential` | the fixed-point operations of `libraries/Exponential.sol` | |
| `InterestRateModel` | `InterestRateModel.sol` | `Exponential` |
| `RToken` | the books of a money market and the effect of each operation on them | `InterestRateModel`, `TokenSums` |
| `Lending` | all the markets with the controller, oracle, settings and reported power | `RToken` |
| `LendingProofs` | theorems about it | `DataTheorems` |
| `DOL` | `DOL.sol`: balances, allowances, superior | `TokenSums` |
| `RDS` | `RDS.sol`: the same token with a cap, votes and checkpoints | `DOL`, `VoteRegister` |
| `VoteRegister` | abstract: the votes of every account entered at the end of every block | `TokenSums` |
| `RDSProofs` | theorems about both tokens and the votes | `DataTheorems` |
| `Council` | `Council.sol`: proposals, votes, time lock, terms | `ProposalLifecycle` |
| `ProposalLifecycle` | abstract: the states of a proposal and the dates that bind them | |
| `CouncilProofs` | theorems about the council and its index | `CouncilIndexer`, `DataTheorems` |
| `CouncilIndexer` | the council composed with `council-observer.js`, `council-repository.js` and the queries of `index.js` | `Council` |
| `AccountIndexer` | `token-observer.js`, `token-manager.js`, `retrieval-worker.js`, `repository.js`, joined by `service.js` | |
| `AccountIndexerProofs` | theorems about the order of results, and that none is lost | `AccountIndexer`, `DataTheorems` |
| `Orchestrator` | `Orchestrator.sol` and the proxies it makes | |
| `RealDAO` | the SDK's object on top of a registry that changes | `Orchestrator` |
| `PriceFeeder` | `price-feeder.js` and `FeedPriceOracle.sol`, on top of the SDK's object | `RealDAO` |
| `RegistryProofs` | theorems about the registry, handles and prices | `PriceFeeder` |
| `Deployment` | `migrations/*.js` on top of the registry | `Orchestrator` |
| `DeploymentProofs` | theorems about it | `Deployment` |
| `MCDistributor`, `MCLending`, `MCRDS`, `MCCouncil`, `MCAccountIndexer`, `MCPriceFeeder`, `MCDeployment` | instances for TLC | |

### Distributor

`pools[s]` is the Solidity array (`s` = id + 1), `accountRecords[s][a]` the
nested mapping, `tokenToPoolSeq`, `rewardsPerBlock`, `mineStartBlock`,
`nextHalvingBlock`, `activePools` and `totalWeight` the variables of the same
names. `rdsSupply` is the supply of RDS, `custody` what the Distributor holds of
each token, and `mined` a history variable: all that `updatePool` ever credited
to a pool. `SetPower`, `UpdatePool`, `ClaimInternal` and so on are the internal
functions, as operators on a pool or a record; every external function is an
action. A division by zero, a checked subtraction or the cap of RDS that makes
the code revert is a guard. The weight of a pool may be zero, because nothing checks
it: with no other pool active, `updatePool` then divides by zero.

`mintExchangingPool` does not look at the type of the pool, so that the id of a
lending pool locks RTokens; their transfer reports power in the same
transaction. `MintLendingPool` and `ExitLendingPool` model that path.

### Lending

`rToken[m]` is a record with the storage of one market. An operation of
`RTokenPart1..3` is an operator on that record in `RToken`, and an action in
`Lending` with its guards: accrual (`CanAccrueIn`, which fails where the rate is
above `borrowRateMaxMantissa` or utilization divides by zero), the policy hook
of the controller, checked subtractions and cash. `power[m][a]` is what the
market last reported to the Distributor. A listed market can be used before its pool
is open (`unopened`): it then reports nothing (`RTokenBase.sol:430`), and `OpenPool`
(`openPool`, or the first lock after the start block) activates a pool that knows no
power of those who came early. The history variable `earlyPower[m][a]` is the power an
account had at that moment: it counts for nothing until the account's power changes.
Interest is accrued only in the markets an operation touches, as in the code; liquidity
reads the stored rates of the others.

Details kept because they matter: `mulExp` rounds to the nearest while all else
truncates; a liquidation repays first and computes the seizure at the new rate;
when the borrowed market is the ether market, the controller calls back while
the payment is already in its balance (`Arriving`); tokens of an ERC-20 sent to a
market's address become cash (`Donate`), ether does not (`receive` mints);
reserves can be added in ERC-20 markets only; a removed market loses its
collateral factor and its debts no longer count; `transfer` accrues nothing.

Left out: overflow at 2^256 (`CarefulMath`), transfer fees of underlying tokens,
who pays a repayment, `setReserveFactor` and `reduceReserves` (they take the
reentrancy guard twice, `RToken.sol:226` and `RTokenPart3.sol:162`, and always
revert), `setMaxAssets` (nothing reads the value). `Init` is the state after the
set-up of the tests (`RToken.spec.js:95`): markets listed, the system's genesis
supply in rDOL, and the pools open except those of the `LateMarkets`, whose markets are
used before (`RToken.spec.js:145`).

### DOL and RDS

`DOL.sol` and `RDS.sol` are two copies of one token, the second with a cap on
`mint` and with votes. `DOL` models the token; the actions of `RDS` are those of
`DOL` joined with what `_moveDelegates` does to the checkpoints, which is also how
the code is laid out (a transfer, mint or burn ends in `_moveDelegates`).
`checkpoints[a]` is a sequence whose length is `numCheckpoints[a]`.
`WriteCheckpoint` reads the sequence it is given, so that the credit of a transfer
sees what its debit wrote, also when both go to one account in one block.
`GetPriorVotes` has the code's binary search, checkpoint `i` at index `i + 1`.
A signature is a record only its signatory can have made: `Signatures` are those
handed out, and anybody may hand one in at any time. `applied` is a history
variable. `block` serves as `block.timestamp` for the expiry.

`VoteRegister` says what all of this is for, without checkpoints: within a block
balances and delegations move, and at its end the votes of everyone are entered
in `past`. `RDS` implements it with `past` read off the checkpoints, block by
block. That a later operation cannot change an earlier block is part of this: an
action that wrote an old checkpoint would change `past` outside `EndOfBlock`.

### Council and CouncilIndexer

`proposals[id]` is the Solidity record without what is called; `voters` is
`proposalVoters[id]`; `memberMap` is the set of addresses mapped to true. `block`
is the block being mined. Every operation is an action except `execute`, which is two:
it calls the target while the proposal is still `Queued` (`Council.sol:205`), and
writes `Executed` when the call returns, whatever the proposal is by then. `executing`
is the stack of the calls under way. `Execute` begins one and counts it in the history
variable `runs`; `ExecuteReturns` ends the innermost. What a target does is not
prescribed: between the two steps any account may use any operation of the council,
a reform, a cancellation of the proposal itself, and another execution of it, all
included. A call that fails reverts to where it began and is a step not taken. A block
is mined between transactions only (`NextBlock`, with an empty stack).

`ProposalLifecycle` says what this may amount to: a proposal is waiting, running,
returning or done, with its date and the number of its runs. A run begins inside the
window only; a second one begins only while the first is under way, from within its
call; and what is final is never run again. That it runs *at most once* is not true of
the code, which has no guard against a target that calls `execute` again.

`MayGovern` is the condition of `onlyDemocracy` as `AuthBase.sol:37` has it:
`msg.sender != democracy || msg.sender != guardian`. It refuses nobody unless the
two are the same address, while its message is "only democracy is allowed"; so
in the model, as in the code, anyone may cancel a proposal or start a term.

`CouncilIndexer` adds the observer. A poll is a chain of asynchronous calls, and `phase`
is the one it waits for; any action of the council, a notification or a crash may come
in between. `Notify` is the callback of the subscription, which starts at the block of
the checkpoint itself: it starts a poll unless `isPolling` is set. A call of the node or
the store that is rejected ends the poll (`PollFails`); nothing catches it
(`council-observer.js:45`), and `isPolling` stays true: the phase `"failed"`, which only
a restart ends. `savedCheckPoint`, `docs` and `voterDocs` survive a crash. A second
document for one proposal violates the unique index on `pid`, and its poll fails the
same way (`Duplicate`). The queries of the HTTP server are operators on the stores
(`Queried`, `GetProposals`, `GetProposalDetail`), and `IndexAgrees` compares their
answers with the council, page by page.

Seen while modelling and without a run of their own: `ProposalVoted` is emitted with
the proposer (`Council.sol:177`) where it declares the voter (`Council.sol:71`),
so the voter documents all name the proposer; the observer does not read the
`success` of `ProposalCanceled` and marks an executed proposal as canceled when
someone cancels it in vain (`IndexAgrees` excludes those, by `CanceledInVain`);
after a crash between a stored creation and the checkpoint, every later poll fails
(`FailsOnlyAfterFault` says that only a crash makes the index refuse a document, and
that without a crash or a rejected call no poll fails).

### AccountIndexer

What is read of an account is represented by the block it was read at, liquidity
and balances apart, since they are read by two calls. `phase[t]` is what the poll
of token `t`'s observer waits for; `queue`, `pendingKeys`, `isRetrieving` are the
worker's fields, `reading` the retrieval it awaits; `repoQueue`, `isProcessing` the
repository's, `storing` the write it awaits; `docs` is the store, which survives a
crash, as do the checkpoint files. Events are processed and the checkpoint is
saved in one step (`ReceiveEvents`), because nothing is awaited in between;
`retrieveAll` and `processAll` are loops of awaits and so one step per task. A
rejected call ends its chain and leaves `isPolling` or `isRetrieving` set
(`PollFails`, `RetrievalFails`). `Refresh` takes any stored accounts as stale.
Left out: the query for dangerous accounts, `updatedAt`, an error of the store.

### Orchestrator

`contracts[key]` is the configuration of a key; `implementation[p]` stands for the
storage slot of a proxy the registry made. An operation that fails a check is not
enabled. `Initialize` reverts as a whole, with its first assignment, when an entry
is registered already. `updateContract` accepts address zero, after which the key
counts as unregistered and can be registered anew with another kind: the model
allows it, and `Irrevocable` says how far that can go. `registerContract` may
register zero as well, or a contract that is no proxy as upgradeable; the first
changes no answer of `getAddress` and is left out, in the second an upgrade reverts
because a contract has no `_upgrade` of this registry to accept it.

### RealDAO and PriceFeeder

`handles[key]` is the instance kept for a contract, by the provider and the address
it was made of. A load is three steps: the call (`Load`), the node's reading of the
registry (`AnswerLoad`), the arrival of the answer (`CreateHandle`), which makes the
instance on the provider of that moment; several loads of one key may be under
way. `setProvider` drops every handle except the oracle's (`_oracle` is missing
from the list, `realdao.js:38-51`), so `HandlesTrusted` exempts the provider of
that one. A load begun before the registry had an entry makes a handle on address
zero, the other exemption.

A price is the round it was fetched in, zero when it is of none. `rounds[n]` is the set
of symbols that round `n` has answers for, `sent` the transactions that wait for a
block, in any order. Migration 7 prices four symbols of which the feeder updates three
(`Unfed` is the other, ETH), and the admin of an oracle, the feeder's account or another
one that governance appoints, may set the prices of any symbols (`SetPricesByHand`). The
history variable `fed[o]` says that the feeder was the last to set prices on oracle `o`.
The feeder is given its oracle once: an oracle that is replaced in the registry keeps
being fed until the process starts again, and the new one is not. Rounds that overtake
each other let prices go back in time; `PricesOfOneRound` says what holds nevertheless
of the symbols it feeds, on the oracles it was the last to set. It leaves the price of
ETH as the deployment set it. `Crash` is any end of the process, the uncaught exception
of `JSON.parse` (`price-feeder.js:72`) among them. `stop` has no caller, and its
condition is inverted, so that it never stops the timer. The server does not change the
provider of its object while it feeds (`Next`).

### Deployment

`migration` is the migration under way, `done` the transactions its present run
has made, `Scripts` what each script makes on a network and `Awaited` what it waits
for before each: the markets of the assets are set up by `Promise.all`, so their
transactions interleave. A transaction that reverts is not enabled. `Fail` ends a
run anywhere, before the migration is recorded included; the next run makes the
contracts of that migration anew (`made`), and the chain keeps what the first one
did. A contract deployed by a run that died while deploying is named by nothing
later and is not counted. Truffle's record of a migration and the artifacts with the
addresses it deployed are saved in one step; the addresses of the mainnet assets, empty
strings in the repository (`6_setup_markets.js:42`), are supposed filled in; and that a
run after a death does not mint the genesis supply again is not checked.

## 3. Runs

The depth of each instance comes from small amounts, a small fixed-point scale
(so that truncation costs a large part of a unit and happens at nearly every
step) and high rates per block. Deadlock is not checked: blocks are bounded, and
a bounded instance stops at its last block.

Fairness is assumed only of machines and of the operator's patience. In the two
indexers: the node answers the observers' and the worker's calls and the store its
writes, the subscription delivers (`Notify`), the timers fire (`RetrieveAll`,
`ProcessAll`), the process is started again after it died (`Start`), and, for the
council, blocks are mined. Nobody ever has to propose, vote, execute or use a
market, and the server never has to crash or to stay up. In `Deployment` somebody
runs truffle again until it is through (`WF_vars(Script)`).

| run | instance | properties |
|---|---|---|
| `distributor` | two users, one LP pool, six blocks, a halving every two, LP tokens with a fee, a cap that is reached; and one user, a lending and an LP pool of weights 0, 1 or 3, market life cycle, four blocks | `TypeOK`, `PowerConservation`, `MasksCovered`, `RewardsBacked`, `LocksCovered`, `ExitObstacles`, `RegistryMatchesPools`, `OpenPoolListed`, `NoRetroactiveReward` |
| `lending_single` | DOL market, two users and the system, three blocks, two rate models, transfers with an allowance | `TypeOK`, `SupplyBacked`, `RateNeverFalls` |
| `lending_markets` | ether collateral, DOL debt, the DOL market used before its pool opens; price 20 or 10 and two blocks, or, in one block, the ether market closed, liquidated, removed and listed again, and suspension | `PowersReported`, `DebtFreeMayLeave`, `NoShortfallByMoving`, `SuspensionFreezes` |
| `lending_repay` | one borrower, 15% per block, two accruals | `DebtRepayable`: violated |
| `lending_payment` | ether debt in shortfall | `PaymentExcluded`: violated |
| `rds` | two holders, four blocks, any delegations; in the first two blocks also the cap, an allowance, finite or infinite, or three signatures of which two share a nonce | `TypeOK`, `SignaturesOnce`, `VotesMatchBalances`, `HoldingsMovable`, `SearchExact`, `VotesRegistered` (refinement) |
| `council_index` | three accounts, one proposal, a second term that shares members and names them twice, executions that re-enter, five events, four blocks, one crash, one rejected call | `TypeOK`, `TermsMatch`, `AyesCounted`, `CheckPointCovered`, `IndexAgrees`, `FailsOnlyAfterFault`, `ProposalsKeepLifecycle` (refinement), `PollsEnd` (liveness) |
| `council_stored` | the same but two proposers, two events, no crash, no rejected call, a grace period of one | `CreationsStored`: violated |
| `accounts_index` | two tokens, one account, two blocks with any of three events, one crash or one rejected call | `TypeOK`, `NothingLost`, `DocsNeverRegress`, `PolledAreStored` (liveness) |
| `accounts_changes` | one token, two accounts, two blocks, no fault | `ChangesWritten`: violated |
| `deployment` | four networks, three assets, four LP tokens, two runs that die | `Wired`, `Completes` (liveness) |
| `price_feeder` | guardian, council, democracy; a proxy, an immutable and a replaceable contract loaded, two providers, two loads at a time; two symbols fed and one that is not, two rounds, two oracles, prices set by hand, the admins changed | `TypeOK`, `HandlesTrusted`, `PricesOfOneRound`, `Irrevocable` |

Bounds, and why they are enough: `MaxBlock` covers two accruals (rounding compounds from
the second on), a halving and the block after it; two users are enough for every relation
between a party, its counterpart and a third account (the system's own); `MaxCash` and
`MaxPower` bound amounts only. `Suppliers`, `Borrowers`, `Receivers`, `Retirable` and
`MaySuspend` switch operations off in the instances whose question does not need them, and
`LateMarkets` is empty in all instances but `lending_markets`; each operation is on in
some run. (The runs give RToken allowances of a finite amount only; those without limit
are covered by the proofs.) In the votes, four blocks give an account four checkpoints,
the fewest for which the binary search branches both ways, and a supply of two lets one
holder have votes of its own and of the other. In the council, five events are a whole
life of a proposal whose execution changes the council (created, voted, queued, reform,
executed); `GracePeriod` is zero so that the window closes before the last block;
`Proposers`, `MaxReforms`, `MaxCrashes` and `MaxErrors` bound who and how often, never in
which order. Two blocks let an account change again after it was read, before it was
written and after it was stored; one account in two tokens shares a document between two
keys. Two rounds can overtake each other, and two failures let a migration be made three
times.

Four instances explore the union of parts of their state space, by a constraint that
names them: `MCDistributor` (`OnePool`, `OneUser`), `MCLending` (interest and prices, or
life cycle and suspension), `MCRDS` (`EarlyTokens`) and `MCPriceFeeder` (`Governing`,
where the registry does all it can; `Loading`, one key at a time under a guardian;
`Feeding`, the feeder on top of its oracle handle). None of these runs checks liveness,
so a constraint only leaves states out. Users are interchangeable where symmetry is
declared: every constant that mentions one of them mentions both.

What they show. Rewards and locks stay exact through every order of joining, leaving and
claiming; a user with locked tokens can leave unless RDS is exhausted or the pool is not
up to date and no pool that is active has a weight. Both obstacles are real: the one is
the cap, at which locks stay where they are, the other comes of weights of zero, or of
closing the last pool that has one. No user's operation lowers the rate of an RToken, and
the supply stays backed at the initial rate, even with the system's one-to-one supply
mixed in. `NoShortfallByMoving` tolerates one unit: with zero it fails, by truncation
alone. Of a liquidation of the account it claims nothing when the incentive is above the
margin of the collateral (`MarginKept`), since it then takes more than the debt it pays.
That margin is stated with the factors as the code rounds them. The plain condition,
collateral factor times incentive at most one, is not enough: the rounded factors are
multiplied by the amount, so that the error grows with it (with scale 10, factor 0.5,
incentive 2, an exchange rate of 1.5 and prices of 0.2 and 1, paying 100 of the debt
raises the shortfall by 32). Votes follow balances through every mix of operations in a
block, and nobody is ever unable to move tokens because of them. A proposal begins to run
only inside its window, a second time only from within its own call, and never after it
was final, whatever its call does to the council. The index agrees with the council
whenever it has caught up, also after a crash that it survives. A market tells the
Distributor the power of every account, and where its pool was opened late, of every
account whose power has changed since. An account passes from the observers to the store
without being lost between the queues, its document never goes back in time, and without
faults it gets there. What the registry registered as a proxy or immutable stays so for
ever and an abdication is final; a handle of the SDK is on such a contract's address and
on the present provider, and the prices the feeder was the last to set on an oracle are of
one round. A deployment that truffle has recorded is wired, and running it again completes
it, except after a death inside migration 5 or 7, or between their last transaction and
its record: what these did first reverts the second time (`Halfway`). The violations:

- `lending_repay`: `totalBorrows` is truncated at every accrual while the
  account's debt follows the index, so the last debt is one unit more than
  `totalBorrows` and the checked subtraction reverts its full repayment.
- `lending_payment`: `getCashPrior` takes off `msg.value`, but in the
  controller's call back that is the value of the inner call, zero. A
  liquidation of an ether debt sees the borrower's ether collateral with the
  liquidator's ether in it and is refused.
- `council_stored`: a poll asks for the latest block; a block with a new proposal
  is mined and announced before the poll ends; the callback returns because
  `isPolling` is set, and no other event follows. The proposal is never stored.
- `accounts_changes`: the key of an account that was read once stays in
  `pendingKeys`, so the task of its second change is dropped; and refreshing iterates
  `item.balance`, which no document has.

Also seen, without a run: reserves grow without cash behind them, and the
utilization rate, borrows divided by cash + borrows - reserves, is then more than
the one that `InterestRateModel.sol:74` promises.

## 4. Proofs

`DistributorProofs` assumes `DistributorAssumption`: a finite set of accounts, weights
that are natural numbers, zero included, a positive scale and year, and a first supply
within the cap.

`DataTheorems` proves what invariants about sums need: the total is a
natural number, an update of one or of two entries moves it by the difference,
a bound on each entry bounds it, and ledgers that are added, or multiplied by a
number, have no larger total than their totals added or multiplied (`TotalPlus`,
`TotalTimes`, by injections between the units, so that no induction is needed).
It also has induction over the naturals in a form that takes no operator as a
parameter: a set of naturals that is not all of them misses a least one, because
`<` is well-founded (`LeastNatural`, from `WFMin`), and so `SetInduction` is stated of a
set. What a loop of rounds keeps (`LoopRuns`) and which positions of a sequence a date
cuts off (`Prefix`) follow.

`DistributorProofs` proves, for every action, that `IInv` is inductive:

    IInv == TypeOK /\ rdsSupply <= MaxSupply /\ PoolsOK /\ UnusedFresh /\ RegistryOK

`PoolsOK` joins, for each pool, conservation of power, non-negative totals and
the cover of every mask by the index (`TypeOK` alone is not inductive: a claim
subtracts the mask, a closing pool subtracts its weight). `UnusedFresh` says that
records of pools not yet created are zero, so that a created pool starts right.
`RegistryOK` ties `totalWeight` and `activePools` to the pools. From it follow
`TypeCorrect`, `PowerConserved`, `MasksAreCovered`, `RegistryIsExact` and, as an
action property, `RewardsAreKept`, with the half that a closing needs
(`ClosingSettles`): only a closing makes the total weight smaller, and it brings every
pool that stays active up to date first.

A second invariant is proved on top of it:

    LedgerOK == Catalogued /\ OpenPoolListed /\ LocksHeld /\ AllBacked

`Catalogued` says that a token has one pool, so that closing the pool of a market
closes the only one that could stay open, and a lock moves one pool only;
`LocksHeld` that the LP tokens held are the power of their pool, which `IInv` makes
the sum of the locks; `AllBacked` that what a pool owes is covered. The step
lemmas split an action as the code does: first the pool is updated or opened (`Base`),
then its records are settled under the new index (`Settled`) and its power moves.
`UpdatedBacked` is where the index grows: the growth times the power is at most
what was mined and set aside, and the mask and the rounding do the rest
(`OwedGrows`). `SetPowerSettles` and `ClaimSettles` say that a settlement rounds
in the pool's favour. `RewardsAreBacked`, `LocksAreCovered` and
`OpenPoolsAreListed` follow.

`ExitsStayOpen` needs no more: the guard of `ExitExchangingPool` is an operator of its
own (`CanExitExchangingPool`), so that "is not refused" is said without `ENABLED`, and
`ExitIsPossible` shows that this guard is all the action waits for. `totalWeight` is zero
exactly when no active pool has a weight (`WeightInTotal`), and then a pool that is not
up to date cannot be updated; the lock is part of the power of its pool, the power is
what the Distributor holds, and the mask is covered, so that besides this only the cap of
RDS can refuse an exit.

`LendingProofs` assumes `ScaleAssumption`, `RTokenAssumption` and
`LendingAssumption` (finite users, a positive scale and positive initial rates,
rDOL's initial rate one, factors that are fractions). Its invariant says of every
market `m`

    Good(t, i, now) == Sound(t, now) /\ Covers(t, i)        \* i = InitialRate[m]
    Covers(t, r)    == t.totalSupply * r <= SupplierAssets(t) * Scale

`Sound` holds the types of the books, the supply as the sum of the accounts'
tokens, a positive index behind every debt and an accrual not in the future.
`SupplyBacked` alone is not inductive: a redemption takes tokens at the *current*
rate. The argument is that books are covered at their own exchange rate
(`RateCovers`), that every operation keeps books covered at any rate it is made
at (`MintGood`, `RedeemGood`, `DebtGood`, `MoveGood`, ...: this is where every
truncation is in favour of those who stay), and that books covered at a rate have
at least that rate (`CoversRate`). So the same lemma of an operation gives both
`SupplyIsBacked` and `RateNeverDrops`; the system's supply, moved at par, is
covered at the rate one and is the exception `SystemDilutes` names. `OneMarket`
lifts the books of one market to the state, with the accounts an operation
touches (`OnlyTouches`), from which `PowersAreReported` and `SuspensionHolds`
follow; `LiquidateBorrowStep` does it for the two markets of a liquidation. What the
Distributor knows of an account in an active pool is its power, or, where the pool was
opened late, nothing as long as the power is that of the opening; an operation reports
the accounts it touches and leaves the others as they are (`KnownKept`), and a pool that
opens knows of nobody (`OpenPoolStep`).

The liquidity of an account is the difference of two ledgers over its markets,
`Collaterals` and `Debts`. `DebtFreeLeaves`: what is redeemed is worth at most what the
account has of that market, truncated the same way, and nothing is owed, so the
hypothetical liquidity is never short; the guard is again an operator (`CanRedeem`).
`MovingKeepsCovered` goes through the operations at still markets (`Quiet`): rates do
not fall (`RateKept`, proved before), so an account whose tokens and debts stay is
no worse off (`RatesUp`, `BetterOff`). A redemption and a loan pass the liquidity check,
which computes the shortfall after them; the difference of the two ways of
truncating is the one unit. The sender of tokens passes that check as well, the
receiver, or the payer of a debt, only gains. Of the borrower that is liquidated
`SeizedWorth` compares, through both truncations, the collateral value of what is
seized with the value of the debt that is paid; this is where `MarginKept` is
used, whether debt and collateral are of two markets or of one (`SeizeQuiet`).

`RDSProofs` assumes `TokenAssumption` and `VotesAssumption`: finitely many accounts, the
initial supply under the cap and the cap under the largest integer. `VotesInvariant` proves

    Consistent == TypeOK /\ SupplyCapped /\ WellFormed(checkpoints, block) /\ VotesMatchBalances

inductive. `WellFormed` says that block numbers increase along the checkpoints of an
account and none is in the future; `VotesMatchBalances` alone would not do, since what a
write does depends on the block of the last checkpoint. (That the checkpoints up to a
block have a last one is carried along in `WellFormed`, which avoids an induction over
their number.) One lemma (`VotesMove`) covers `_moveDelegates` for every caller: votes
were the sums of the delegated balances, so the debit never goes below zero, and
afterwards they are the sums again. `HoldingsMovable` follows from the invariant in one
step: a balance is at most the votes it is part of. For the refinement, `RecordedVotes`
of a block that is over is shown to be untouched by a write in the present block, and at
the end of a block to be the votes of `VoteRegister`. `SearchIsExact`: the binary search
is a recursive function, that is a `CHOOSE` of one that satisfies its equation. One
does: the function that gives for each pair of bounds the votes of the checkpoint sought
between them (`SearchDefined`). And every one that does gives those votes: with block
numbers increasing, a round keeps the sought checkpoint between the bounds and brings
them closer (`SearchStep`), and the rest is induction on their distance (`SearchFinds`).

`CouncilProofs` assumes `CouncilAssumption`, the types of the settings. Its invariant
adds to `CouncilTypeOK` and `TermsMatch` that the voters of a proposal are finitely many, as
many as its ayes, its proposer among them (`Counts`), and that a proposal whose call is
under way was queued, and is so still unless its call has canceled or executed it
(`CallsOK`). An operation that executes nothing leaves the calls alone, keeps the members
of one term and moves each proposal along `Moves` (`Operates`, `Evolves`); the two steps
of an execution change the stack and one proposal. For the refinement the life of the
proposals is said of the three variables it depends on (`LifeOf`): each operation is a
step along the edges of `ProposalLifecycle`, a call that begins takes a proposal that is
queued or running to one that is running, with one run more, and a call that returns
takes it to `Executed`, or, where an outer call of it is still under way, to
`Returning`, from which no run begins.

For the index it adds two invariants. `LogInv` says what the events tell: they are in the
order of their blocks, and those about a proposal, read up to the end, name its state, its
date and its votes (`Told`), which holds because every operation of the council emits what
it did, in one transaction (`CouncilAdvances`). `IndexInv` says that the stores hold what
the first `n` events tell *or later ones* (`Stored`), for an `n` between the checkpoint
and the polled block, and that the events of the poll under way are the next ones up to
that block. A stored event moves `n` by one; a crash moves it back to the checkpoint while
the stores stay ahead. The rest is claimed only as long as nothing crashed: that every
document has its creation among the `n` events, and as many voter documents as votes,
hence that no creation is stored twice and that a poll fails by a rejected call alone
(`FaultsFail`). When the checkpoint has caught up, `n` is the whole log, there is nothing
later, and the answers are the council's (`QueriesAgree`), page by page (`PageOfEach`).

Of the registry, `RegistryProofs` assumes `OrchestratorAssumption`: the keys that matter
are among the keys, and every key has a proxy of its own. That no guardian returns needs
to know that `initialize` cannot be called again, whatever is updated to zero; the
invariant `Founded` says that the controller is registered, as upgradeable, as soon as
anything is, and an upgradeable entry cannot be set to zero. `Kept` says the same of all
the entries that `initialize` makes for good.

For handles and prices `RegistryProofs` assumes in addition `RealDAOAssumption` and
`FeederAssumption` (the symbols that are fed are not those that are not).
`HandlesInv` adds to `HandlesTrusted` that every answer on its way is believable, the
registry's address or none, which the registry's steps preserve by `GivenAwayForGood`'s
lemmas. `PricesInv` adds that every transaction on its way names all the symbols that are
fed, and a round that was started, which makes their order irrelevant; a price set by
another hand ends the claim for that oracle (`fed`) until the feeder's next transaction.

`AccountIndexerProofs` needs no assumption. `OrderInv` says that along the pipeline,
from what is being written over the queue to what is being read, the block of every
answer never decreases (`Ordered`), and that what is stored is no newer than any of it
(`DocsSettled`). An answer is read at the present block, so it goes last; `processAll`
takes what was read first; so what `processOne` writes is no older than what it
replaces, and no newer than the rest. Liquidity and balances are compared apart, because
they are read by two calls between which blocks are mined. `NothingIsLost` rests on an
invariant of the pipeline (`PipelineInvariant`): until the first crash or rejected call
the accounts of the polled events are pending, and a pending key is in the queue, in the
retrieval under way, in the repository's queue, in the write under way, or stored
(`OnItsWay`). The loop over the events of a batch is followed round by round
(`EventLoopRuns`, `LoopExtends`).

`DeploymentProofs` assumes `DeploymentAssumption`. Its invariant says of every
transaction that is done, in this run or in a recorded migration, that what it left
behind still holds (`Holds`), and that it was made after those it awaits (`InOrder`). Of
what a run did that died nothing is claimed; the markets it left in the controller's
list come before those the next run lists (`ListedLast`), and the last one of a symbol
is the one the SDK finds.

`FeederTypes` in `RegistryProofs` is the type correctness of registry, handles and feeder
together.

Only model-checked: liveness under fairness (`PollsEnd`, `PolledAreStored`, `Completes`),
which is out of the prover's reach. Every other property of the passing runs is
stated by a theorem. The violations are counterexamples of TLC and need no proof.

## 5. Plan

1. Done: `Distributor`, `Lending`, `DOL`, `RDS`, `Council`, `CouncilIndexer`, `AccountIndexer`,
   `Orchestrator`, `RealDAO`, `PriceFeeder`, `Deployment`, with runs and proofs.
2. Left to TLC for good: the three liveness properties.
3. Open: the hazards of `PROJECT.json` without a property, each of which the models
   show as a guard that is false (a market removed with supply, a price of zero) or as a
   step that is possible (a pool that opens dilutes blocks already over, a deposit of
   RTokens that counts for nothing after the next report) and no document promises
   otherwise; and refinements of `Distributor` and `Lending` by abstract accounts that are
   exact where the code rounds.

Not modelled, and why, is listed per component in `PROJECT.json`: views
(`ProtocolReporter`, the query for dangerous accounts), stubs (`Democracy`), what
nothing deploys (`Supreme`, `ChainlinkPriceOracle`), test doubles, and the clients that
keep no state and only encode calls, send them and print answers (command line,
`smoke.js`, the helpers, the faucet); the simulator is empty.
