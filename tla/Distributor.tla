---------------------------- MODULE Distributor ----------------------------
(***************************************************************************)
(* The mining pools of the protocol (Distributor.sol): a lending pool per  *)
(* money market, fed with the power of its users by the market, and an     *)
(* exchanging pool per LP token, fed by locking LP tokens.  RDS is mined   *)
(* per block, shared among the active pools by weight, and among the       *)
(* accounts of a pool by power, with a lazily updated reward index.        *)
(*                                                                         *)
(* The life cycle of a market (MarketController.sol) is part of this       *)
(* module, because closing a market closes its pool.  The tokens and the   *)
(* money markets are external: an RToken is seen through the power it      *)
(* reports, an LP token through the amount the Distributor holds.          *)
(***************************************************************************)
EXTENDS Integers, Sequences, TokenSums

CONSTANTS
    Accounts,       \* addresses of users
    Self,           \* the address of the Distributor itself
    Markets,        \* RToken contracts
    LpTokens,       \* LP tokens of exchanges
    MaxPools,       \* pools the model may create
    Powers,         \* powers a market may report, amounts a user may lock
    MaxPower,       \* largest power of an account (uint128)
    Weights,        \* weights of a pool the council may choose, zero included
    Delays,         \* delays of a pool the council may choose, in blocks
    Mantissa,       \* fixed-point scale of the reward index (1e18)
    BlocksPerYear,  \* blocks between two halvings
    InitialSupply,  \* RDS in circulation before mining starts
    MaxSupply,      \* cap of the RDS token
    TokenPower,     \* power of one supplied RToken
    MaxBlock        \* bound of the model: last block

ASSUME DistributorAssumption ==
    /\ IsFiniteSet(Accounts) /\ Self \notin Accounts
    /\ Markets \cap LpTokens = {}
    /\ MaxPools \in Nat /\ MaxBlock \in Nat
    /\ Powers \subseteq Nat /\ MaxPower \in Nat
    /\ Weights \subseteq Nat /\ Delays \subseteq Nat \ {0}
    /\ Mantissa \in Nat \ {0} /\ BlocksPerYear \in Nat \ {0}
    /\ InitialSupply \in Nat /\ MaxSupply \in Nat /\ InitialSupply <= MaxSupply
    /\ TokenPower \in Nat

Tokens == Markets \cup LpTokens
Holders == Accounts \cup {Self}
PoolSeqs == 1 .. MaxPools

VARIABLES
    block,             \* block.number
    market,            \* MarketController: state of every market
    pools,             \* the pools, in order of creation: pool id s - 1 is pools[s]
    accountRecords,    \* accountRecords[s][a]
    tokenToPoolSeq,    \* 1 + id of the pool of a token, 0 when it has none
    rewardsPerBlock, mineStartBlock, nextHalvingBlock,
    activePools, totalWeight,
    rdsSupply,         \* total supply of RDS
    custody,           \* custody[t]: tokens t the Distributor holds
    mined              \* history: mined[s], RDS ever credited to pool s

schedule == <<rewardsPerBlock, mineStartBlock, nextHalvingBlock>>
registry == <<activePools, totalWeight>>
vars == <<block, market, pools, accountRecords, tokenToPoolSeq, schedule,
          registry, rdsSupply, custody, mined>>

PoolState == {"NOT_START", "ACTIVE", "CLOSED"}
PoolType == {"LENDING", "EXCHANGING"}
MarketState == {"None", "Listed", "Closing", "Liquidating"}

Pool == [ptype : PoolType, tokenAddr : Tokens, state : PoolState,
         rewardIndex : Nat, lastBlockNumber : Nat, accumulatedPower : Int,
         accumulatedTokens : Nat, totalPower : Nat, startBlock : Nat, weight : Nat]

AccountRecord == [power : Nat, mask : Nat, settled : Nat, claimed : Nat]

NewRecord == [power |-> 0, mask |-> 0, settled |-> 0, claimed |-> 0]

NewPool(t, type, weight, delay) ==
    [ptype |-> type, tokenAddr |-> t, state |-> "NOT_START", rewardIndex |-> 0,
     lastBlockNumber |-> 0, accumulatedPower |-> 0, accumulatedTokens |-> 0,
     totalPower |-> 0, startBlock |-> block + delay, weight |-> weight]

Init ==
    /\ block = 1
    /\ market = [m \in Markets |-> "None"]
    /\ pools = <<>>
    /\ accountRecords = [s \in PoolSeqs |-> [a \in Holders |-> NewRecord]]
    /\ tokenToPoolSeq = [t \in Tokens |-> 0]
    /\ rewardsPerBlock = 0 /\ mineStartBlock = 0 /\ nextHalvingBlock = 0
    /\ activePools = 0 /\ totalWeight = 0
    /\ rdsSupply = InitialSupply
    /\ custody = [t \in Tokens |-> 0]
    /\ mined = [s \in PoolSeqs |-> 0]

-----------------------------------------------------------------------------
(***************************************************************************)
(* Accounting of one pool.                                                 *)
(***************************************************************************)
PoolIds == 1 .. Len(pools)

\* isListedMarket
IsListedMarket(m) == market[m] = "Listed"

\* isPoolActive: a token without a pool has an id out of range.
IsPoolActive(t) == tokenToPoolSeq[t] \in PoolIds /\ pools[tokenToPoolSeq[t]].state = "ACTIVE"

\* tryHalving, run by the first pool that is updated in a block
HalvingDue == block >= nextHalvingBlock
RewardRate == IF HalvingDue THEN rewardsPerBlock \div 2 ELSE rewardsPerBlock

\* updatePool leaves a pool already updated in this block alone.
Stale(pool) == pool.lastBlockNumber # block

TokenMinedWithin(pool) ==
    IF Stale(pool)
    THEN ((block - pool.lastBlockNumber) * RewardRate * pool.weight) \div totalWeight
    ELSE 0

\* updatePool reverts on a division by a zero totalWeight and on a negative power.
CanUpdatePool(pool) ==
    Stale(pool) => totalWeight # 0 /\ pool.totalPower + pool.accumulatedPower >= 0

\* updatePool(pool, 0): the power added since the last update counts from now on.
UpdatePool(pool) ==
    LET power == pool.totalPower + pool.accumulatedPower
        tokens == pool.accumulatedTokens + TokenMinedWithin(pool)
        idle == power = 0
    IN  IF ~Stale(pool) THEN pool
        ELSE [pool EXCEPT
                !.totalPower = power,
                !.accumulatedPower = 0,
                !.rewardIndex = IF idle THEN @ ELSE @ + (tokens * Mantissa) \div power,
                !.accumulatedTokens = IF idle THEN tokens ELSE 0,
                !.lastBlockNumber = block]

\* Mutant: the second change of a block overwrites the first.
AddPowerOverwrites(pool, added) == [pool EXCEPT !.accumulatedPower = added]

AddPower(pool, added) == [pool EXCEPT !.accumulatedPower = @ + added]

\* What a record has earned under `index` and not yet settled.
Earned(record, index) == (index * record.power - record.mask) \div Mantissa

\* Mutant: the mask is left alone when the power changes.
SetPowerKeepsMask(record, index, newPower) ==
    IF newPower < record.power
    THEN [record EXCEPT !.settled = Earned(record, index) + @, !.power = newPower]
    ELSE [record EXCEPT !.power = newPower]

\* updatePower, on the account's record
SetPower(record, index, newPower) ==
    IF newPower < record.power
    THEN [record EXCEPT !.settled = Earned(record, index) + @,
                        !.mask = index * newPower, !.power = newPower]
    ELSE [record EXCEPT !.mask = @ + index * (newPower - record.power), !.power = newPower]

\* claimInternal, on the account's record
Claimable(record, index) == Earned(record, index) + record.settled

\* Mutant: the mask does not move up to the index, so that the same rewards are
\* paid again.
ClaimRecordKeepsMask(record, index) ==
    [record EXCEPT !.claimed = @ + Claimable(record, index), !.settled = 0]

ClaimRecord(record, index) ==
    [record EXCEPT !.claimed = @ + Claimable(record, index), !.settled = 0,
                   !.mask = index * record.power]

\* tryHalving's effect when updatePool ran on the pools S
Halve(S) ==
    IF HalvingDue /\ \E s \in S : Stale(pools[s])
    THEN rewardsPerBlock' = RewardRate /\ nextHalvingBlock' = block + BlocksPerYear
    ELSE UNCHANGED <<rewardsPerBlock, nextHalvingBlock>>

Credit(S) == mined' = [s \in PoolSeqs |->
                          mined[s] + IF s \in S THEN TokenMinedWithin(pools[s]) ELSE 0]

-----------------------------------------------------------------------------
(***************************************************************************)
(* Opening a pool.  tryOpenPool makes the pool active without updating the *)
(* other active pools; the first opening starts the mining schedule.       *)
(***************************************************************************)
\* Mutant: a pool is opened although it was opened before.
CanOpenAgain(pool) == block >= pool.startBlock

CanOpen(pool) == pool.state = "NOT_START" /\ block >= pool.startBlock

OpenedPool(pool) == [pool EXCEPT !.state = "ACTIVE", !.lastBlockNumber = block]

OpenRegistry(pool) ==
    /\ activePools' = activePools + 1
    /\ totalWeight' = totalWeight + pool.weight
    /\ IF mineStartBlock = 0
       THEN /\ rewardsPerBlock' = ((MaxSupply - rdsSupply) \div 2) \div BlocksPerYear
            /\ mineStartBlock' = block
            /\ nextHalvingBlock' = block + BlocksPerYear
       ELSE UNCHANGED schedule

OpenPool(s) ==
    /\ CanOpen(pools[s])
    /\ pools' = [pools EXCEPT ![s] = OpenedPool(@)]
    /\ OpenRegistry(pools[s])
    /\ UNCHANGED <<block, market, accountRecords, tokenToPoolSeq, rdsSupply, custody, mined>>

-----------------------------------------------------------------------------
(***************************************************************************)
(* Mining.                                                                 *)
(***************************************************************************)

\* A market reports the power of one of its users, when its pool is active
\* (RTokenBase.updatePowerInternal); the branch of updateLendingPower that
\* opens the pool is then unreachable.
UpdateLendingPower(m, a, power) ==
    LET s == tokenToPoolSeq[m]
        pool == UpdatePool(pools[s])
        record == accountRecords[s][a]
    IN  /\ IsPoolActive(m) /\ IsListedMarket(m)
        /\ power <= MaxPower
        /\ CanUpdatePool(pools[s])
        /\ pools' = [pools EXCEPT ![s] = AddPower(pool, power - record.power)]
        /\ accountRecords' = [accountRecords EXCEPT
                                ![s][a] = SetPower(@, pool.rewardIndex, power)]
        /\ Halve({s}) /\ Credit({s})
        /\ UNCHANGED <<block, market, tokenToPoolSeq, mineStartBlock, registry, rdsSupply, custody>>

\* Mutant: the deposit is credited as sent.
CreditedAsSent(amount, received) == amount

\* doTransferIn: the change of the Distributor's balance, not the amount sent
Credited(amount, received) == received

\* The first deposit into a pool whose start block has come opens it; a later
\* one brings it up to date.
Opening(s) == pools[s].state = "NOT_START"
Entered(s) == IF Opening(s) THEN OpenedPool(pools[s]) ELSE UpdatePool(pools[s])

Enter(s) ==
    /\ pools[s].state # "CLOSED"
    /\ IF Opening(s)
       THEN CanOpen(pools[s]) /\ OpenRegistry(pools[s]) /\ UNCHANGED mined
       ELSE /\ CanUpdatePool(pools[s])
            /\ Halve({s}) /\ Credit({s})
            /\ UNCHANGED <<mineStartBlock, registry>>

\* The amount credited is what arrived, which may be less than what was sent.
MintExchangingPool(s, a, amount, received) ==
    LET pool == Entered(s)
        added == Credited(amount, received)
    IN  /\ pools[s].tokenAddr \in LpTokens
        /\ amount > 0 /\ received <= amount
        /\ added + accountRecords[s][a].power <= MaxPower
        /\ Enter(s)
        /\ pools' = [pools EXCEPT ![s] = AddPower(pool, added)]
        /\ accountRecords' = [accountRecords EXCEPT
                ![s][a] = SetPower(@, pool.rewardIndex, added + @.power)]
        /\ custody' = [custody EXCEPT ![pools[s].tokenAddr] = @ + received]
        /\ UNCHANGED <<block, market, tokenToPoolSeq, rdsSupply>>

\* The mint reverts above the cap of RDS.
CanClaim(s, a, pool) ==
    /\ CanUpdatePool(pools[s])
    /\ rdsSupply + Claimable(accountRecords[s][a], pool.rewardIndex) <= MaxSupply

\* updatePool(pool, 0) and the mint of what the account has earned
ClaimInternal(s, a, pool) ==
    /\ CanClaim(s, a, pool)
    /\ rdsSupply' = rdsSupply + Claimable(accountRecords[s][a], pool.rewardIndex)
    /\ Halve({s}) /\ Credit({s})

Started(s) == pools[s].state \in {"ACTIVE", "CLOSED"}

Claim(s, a) ==
    LET pool == UpdatePool(pools[s])
    IN  /\ Started(s)
        /\ ClaimInternal(s, a, pool)
        /\ pools' = [pools EXCEPT ![s] = pool]
        /\ accountRecords' = [accountRecords EXCEPT ![s][a] = ClaimRecord(@, pool.rewardIndex)]
        /\ UNCHANGED <<block, market, tokenToPoolSeq, mineStartBlock, registry, custody>>

\* Nothing that exitExchangingPool requires, or calls, reverts.
CanExitExchangingPool(s, a) ==
    LET amount == accountRecords[s][a].power
    IN  /\ pools[s].tokenAddr \in LpTokens
        /\ Started(s) /\ amount # 0
        /\ CanClaim(s, a, UpdatePool(pools[s]))
        /\ custody[pools[s].tokenAddr] >= amount

ExitExchangingPool(s, a) ==
    LET pool == UpdatePool(pools[s])
        amount == accountRecords[s][a].power
    IN  /\ CanExitExchangingPool(s, a)
        /\ ClaimInternal(s, a, pool)
        /\ pools' = [pools EXCEPT ![s] = AddPower(pool, -amount)]
        /\ accountRecords' = [accountRecords EXCEPT
                ![s][a] = SetPower(ClaimRecord(@, pool.rewardIndex), pool.rewardIndex, 0)]
        /\ custody' = [custody EXCEPT ![pools[s].tokenAddr] = @ - amount]
        /\ UNCHANGED <<block, market, tokenToPoolSeq, mineStartBlock, registry>>
-----------------------------------------------------------------------------
(***************************************************************************)
(* The same two handlers reached with the id of a lending pool: neither    *)
(* checks the type of the pool.  The token moved is then an RToken, whose  *)
(* transfer calls updateLendingPower back for the receiver and the sender  *)
(* while the handler runs.  The Distributor's own power follows from the   *)
(* RTokens it holds; the account's is whatever its market reports.         *)
(***************************************************************************)
MintLendingPool(s, a, amount, reported) ==
    LET m == pools[s].tokenAddr
        pool == Entered(s)
        index == pool.rewardIndex
        ownPower == TokenPower * (custody[m] + amount)
        before == accountRecords[s]
    IN  /\ m \in Markets /\ IsListedMarket(m)
        /\ amount > 0
        /\ ownPower <= MaxPower /\ amount + reported <= MaxPower
        /\ Enter(s)
        /\ pools' = [pools EXCEPT ![s] =
                AddPower(pool, (ownPower - before[Self].power) + ((amount + reported) - before[a].power))]
        /\ accountRecords' = [accountRecords EXCEPT
                ![s][Self] = SetPower(@, index, ownPower),
                ![s][a] = SetPower(SetPower(@, index, reported), index, amount + reported)]
        /\ custody' = [custody EXCEPT ![m] = @ + amount]
        /\ UNCHANGED <<block, market, tokenToPoolSeq, rdsSupply>>

\* A closed pool is no longer called back.
ExitLendingPool(s, a, reported) ==
    LET m == pools[s].tokenAddr
        pool == UpdatePool(pools[s])
        index == pool.rewardIndex
        before == accountRecords[s]
        amount == before[a].power
        ownPower == TokenPower * (custody[m] - amount)
        exited == SetPower(ClaimRecord(before[a], index), index, 0)
        calledBack == pools[s].state = "ACTIVE"
    IN  /\ m \in Markets /\ market[m] # "None"
        /\ Started(s) /\ amount # 0
        /\ calledBack => IsListedMarket(m) /\ reported <= MaxPower
        /\ ClaimInternal(s, a, pool)
        /\ custody[m] >= amount
        /\ custody' = [custody EXCEPT ![m] = @ - amount]
        /\ IF calledBack
           THEN /\ pools' = [pools EXCEPT ![s] =
                        AddPower(pool, (reported - amount) + (ownPower - before[Self].power))]
                /\ accountRecords' = [accountRecords EXCEPT
                        ![s][Self] = SetPower(@, index, ownPower),
                        ![s][a] = SetPower(exited, index, reported)]
           ELSE /\ pools' = [pools EXCEPT ![s] = AddPower(pool, -amount)]
                /\ accountRecords' = [accountRecords EXCEPT ![s][a] = exited]
        /\ UNCHANGED <<block, market, tokenToPoolSeq, mineStartBlock, registry>>

-----------------------------------------------------------------------------
(***************************************************************************)
(* Governance: pools.                                                      *)
(***************************************************************************)
\* The delay is checked, the weight is not.
PushPool(t, type, weight, delay) ==
    /\ delay > 0
    /\ tokenToPoolSeq[t] = 0
    /\ Len(pools) < MaxPools
    /\ pools' = Append(pools, NewPool(t, type, weight, delay))
    /\ tokenToPoolSeq' = [tokenToPoolSeq EXCEPT ![t] = Len(pools) + 1]
    /\ UNCHANGED <<block, market, accountRecords, schedule, registry, rdsSupply, custody, mined>>

CreateLendingPool(m, weight, delay) ==
    IsListedMarket(m) /\ PushPool(m, "LENDING", weight, delay)

CreateExchangingPool(t, weight, delay) == PushPool(t, "EXCHANGING", weight, delay)

\* Every active pool is brought up to date before the total weight changes.
ClosePoolInternal(s) ==
    LET active == {q \in PoolIds : pools[q].state = "ACTIVE"}
    IN  /\ s \in active
        /\ \A q \in active : CanUpdatePool(pools[q])
        /\ pools' = [q \in PoolIds |->
                        IF q = s THEN [UpdatePool(pools[q]) EXCEPT !.state = "CLOSED"]
                        ELSE IF q \in active THEN UpdatePool(pools[q]) ELSE pools[q]]
        /\ Halve(active) /\ Credit(active)
        /\ activePools' = activePools - 1
        /\ totalWeight' = totalWeight - pools[s].weight
        /\ UNCHANGED <<block, accountRecords, tokenToPoolSeq, mineStartBlock, rdsSupply, custody>>

ClosePool(s) ==
    /\ pools[s].ptype # "LENDING"
    /\ ClosePoolInternal(s)
    /\ UNCHANGED market

-----------------------------------------------------------------------------
(***************************************************************************)
(* Governance: markets.                                                    *)
(***************************************************************************)
\* Mutant: the current state of the market is not checked.
MoveMarketUnchecked(m, from, to) == market' = [market EXCEPT ![m] = to]

MoveMarket(m, from, to) == market[m] = from /\ market' = [market EXCEPT ![m] = to]

distributorVars == <<pools, accountRecords, tokenToPoolSeq, schedule, registry,
                     rdsSupply, custody, mined>>

SupportMarket(m) == MoveMarket(m, "None", "Listed") /\ UNCHANGED <<block, distributorVars>>

\* closeLendingPool reverts for a market without a pool or with one not active.
CloseMarket(m) ==
    /\ MoveMarket(m, "Listed", "Closing")
    /\ ClosePoolInternal(tokenToPoolSeq[m])

LiquidateMarket(m) == MoveMarket(m, "Closing", "Liquidating") /\ UNCHANGED <<block, distributorVars>>

\* removeMarket forgets the market; tokenToPoolSeq still names its closed pool.
RemoveMarket(m) == MoveMarket(m, "Liquidating", "None") /\ UNCHANGED <<block, distributorVars>>

NextBlock == block < MaxBlock /\ block' = block + 1 /\ UNCHANGED <<market, distributorVars>>

-----------------------------------------------------------------------------
Next ==
    \/ NextBlock
    \/ \E m \in Markets :
        \/ SupportMarket(m)
        \/ CloseMarket(m)
        \/ LiquidateMarket(m)
        \/ RemoveMarket(m)
        \/ \E w \in Weights, d \in Delays : CreateLendingPool(m, w, d)
        \/ \E a \in Accounts, p \in Powers : UpdateLendingPower(m, a, p)
    \/ \E t \in LpTokens, w \in Weights, d \in Delays : CreateExchangingPool(t, w, d)
    \/ \E s \in PoolIds :
        \/ OpenPool(s)
        \/ ClosePool(s)
        \/ \E a \in Accounts :
            \/ Claim(s, a)
            \/ ExitExchangingPool(s, a)
            \/ \E n, received \in Powers : MintExchangingPool(s, a, n, received)
            \/ \E n, p \in Powers : MintLendingPool(s, a, n, p)
            \/ \E p \in Powers : ExitLendingPool(s, a, p)

Spec == Init /\ [][Next]_vars

-----------------------------------------------------------------------------
(***************************************************************************)
(* Properties.                                                             *)
(***************************************************************************)
\* Powers, masks, settlements, indexes and the supply stay natural numbers: no
\* checked subtraction of the Distributor is passed a larger subtrahend.
TypeOK ==
    /\ block \in Nat
    /\ market \in [Markets -> MarketState]
    /\ pools \in Seq(Pool) /\ Len(pools) <= MaxPools
    /\ accountRecords \in [PoolSeqs -> [Holders -> AccountRecord]]
    /\ tokenToPoolSeq \in [Tokens -> 0 .. MaxPools]
    /\ rewardsPerBlock \in Nat /\ mineStartBlock \in Nat /\ nextHalvingBlock \in Nat
    /\ activePools \in Nat /\ totalWeight \in Nat
    /\ rdsSupply \in Nat
    /\ custody \in [Tokens -> Nat]
    /\ mined \in [PoolSeqs -> Nat]

\* A field of the records of one pool, as a ledger.
PowerLedger(s) == [a \in Holders |-> accountRecords[s][a].power]

\* The weight a pool contributes to totalWeight.
ActiveWeight(s) == IF s \in PoolIds /\ pools[s].state = "ACTIVE" THEN pools[s].weight ELSE 0
\* The pool's power is the sum of its accounts' powers at all times, the power
\* added in the current block included (updatePool, updatePower).
PowerConservation ==
    \A s \in PoolIds : pools[s].totalPower + pools[s].accumulatedPower = Total(PowerLedger(s))

\* The mask of a record never exceeds the index times its power: the checked
\* subtraction in updatePower and claimInternal cannot revert.
MasksCovered ==
    \A s \in PoolIds, a \in Holders :
        accountRecords[s][a].mask <= pools[s].rewardIndex * accountRecords[s][a].power

\* What a pool has paid, owes and keeps aside is covered by what was mined for
\* it (the rounding of the index and of settlements is in the pool's favour).
RewardLedger(s) ==
    [a \in Holders |->
        LET r == accountRecords[s][a]
        IN  pools[s].rewardIndex * r.power - r.mask + Mantissa * (r.settled + r.claimed)]

RewardsBacked ==
    \A s \in PoolIds :
        Total(RewardLedger(s)) + Mantissa * pools[s].accumulatedTokens <= Mantissa * mined[s]

\* The Distributor holds exactly the LP tokens its accounts have locked, so
\* doTransferOut can pay every exit (mintExchangingPool, exitExchangingPool).
LocksCovered ==
    \A s \in PoolIds :
        pools[s].tokenAddr \in LpTokens => custody[pools[s].tokenAddr] = Total(PowerLedger(s))

\* totalWeight is the weight of the active pools, and activePools their number,
\* whatever opens and closes them (tryOpenPool, closePoolInternal).
RegistryMatchesPools ==
    /\ totalWeight = Total([s \in PoolSeqs |-> ActiveWeight(s)])
    /\ activePools = Cardinality({s \in PoolIds : pools[s].state = "ACTIVE"})

\* A lending pool that is not closed belongs to a listed market, so that a
\* market's report to its active pool passes onlyListedMarket, and repaying or
\* liquidating in a market being closed is not blocked by the Distributor.
OpenPoolListed ==
    \A s \in PoolIds :
        pools[s].ptype = "LENDING" /\ pools[s].state # "CLOSED"
            => IsListedMarket(pools[s].tokenAddr)

\* What an account has got and can get from a pool moves with the reward index
\* only: joining, leaving, or claiming never earns nor loses a reward, neither
\* for the account nor for another one.
Received(record, index) == record.claimed + Claimable(record, index)

RewardKept ==
    \A s \in PoolIds, a \in Holders :
        LET index == pools'[s].rewardIndex
        IN  Received(accountRecords'[s][a], index) = Received(accountRecords[s][a], index)

\* The smaller total weight that a closing leaves never shares out blocks already
\* over: the pools still active are brought up to date first (closePoolInternal).
OldSharesSettled ==
    totalWeight' < totalWeight
        => \A s \in PoolIds : pools'[s].state = "ACTIVE" => pools'[s].lastBlockNumber = block

NoRetroactiveReward == [][RewardKept /\ OldSharesSettled]_vars

\* The two obstacles to an exit, besides which an account with LP tokens locked
\* in a pool, active or closed, can always leave: no pool with a weight is active
\* and this one is not up to date (updatePool divides by totalWeight), or the
\* reward would exceed the cap of RDS (claimInternal mints before the exit).
\* Nothing else makes exitExchangingPool revert, whatever other accounts and
\* governance have done, and each of the two does.
NoWeight(s) == Stale(pools[s]) /\ \A q \in PoolIds : ActiveWeight(q) = 0

OverCap(s, a) ==
    ~(rdsSupply + Claimable(accountRecords[s][a], UpdatePool(pools[s]).rewardIndex) <= MaxSupply)

ExitObstacles ==
    \A s \in PoolIds, a \in Accounts :
        Started(s) /\ pools[s].tokenAddr \in LpTokens /\ accountRecords[s][a].power > 0
            => (CanExitExchangingPool(s, a) <=> ~NoWeight(s) /\ ~OverCap(s, a))
=============================================================================
