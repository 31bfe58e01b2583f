------------------------- MODULE DistributorProofs -------------------------
(***************************************************************************)
(* Theorems about Distributor, for all accounts, tokens, weights, delays,  *)
(* powers and scales.                                                      *)
(***************************************************************************)
EXTENDS Distributor, DataTheorems, SequenceTheorems

USE DistributorAssumption

-----------------------------------------------------------------------------
(***************************************************************************)
(* Arithmetic of the reward index.                                         *)
(***************************************************************************)
LEMMA ProductType == ASSUME NEW i \in Nat, NEW p \in Nat PROVE i * p \in Nat
    OBVIOUS

LEMMA ProductMonotone ==
    ASSUME NEW i \in Nat, NEW j \in Nat, NEW p \in Nat, i <= j
    PROVE  i * p <= j * p
    OBVIOUS

LEMMA ProductDistributes ==
    ASSUME NEW i \in Nat, NEW p \in Int, NEW d \in Int
    PROVE  i * (p + d) = i * p + i * d
    OBVIOUS

LEMMA QuotientType == ASSUME NEW x \in Nat, NEW m \in Nat \ {0} PROVE x \div m \in Nat
    OBVIOUS

LEMMA ZeroQuotient == ASSUME NEW m \in Nat \ {0} PROVE 0 \div m = 0
    OBVIOUS

-----------------------------------------------------------------------------
(***************************************************************************)
(* Accounting of one record.                                               *)
(***************************************************************************)
Covered(record, index) == record.mask <= index * record.power

\* A record stays covered while the index grows.
LEMMA CoveredGrows ==
    ASSUME NEW r \in AccountRecord, NEW i \in Nat, NEW j \in Nat, i <= j, Covered(r, i)
    PROVE  Covered(r, j)
<1>1. r.power \in Nat /\ r.mask \in Nat
    BY DEF AccountRecord
<1>2. i * r.power <= j * r.power /\ i * r.power \in Nat /\ j * r.power \in Nat
    BY <1>1, ProductMonotone, ProductType
<1>3. QED
    BY <1>1, <1>2 DEF Covered

LEMMA EarnedType ==
    ASSUME NEW r \in AccountRecord, NEW index \in Nat, Covered(r, index)
    PROVE  Earned(r, index) \in Nat
<1>1. r.power \in Nat /\ r.mask \in Nat
    BY DEF AccountRecord
<1>2. index * r.power - r.mask \in Nat
    BY <1>1, ProductType DEF Covered
<1>3. QED
    BY <1>2, QuotientType DEF Earned

\* updatePower keeps the record covered, and what the account has received
\* and can claim the same.
LEMMA SetPowerRecord ==
    ASSUME NEW r \in AccountRecord, NEW index \in Nat, NEW power \in Nat, Covered(r, index)
    PROVE  LET new == SetPower(r, index, power)
           IN  /\ new \in AccountRecord
               /\ new.power = power
               /\ Covered(new, index)
               /\ new.claimed = r.claimed
               /\ Claimable(new, index) = Claimable(r, index)
<1> DEFINE new == SetPower(r, index, power)
<1>1. /\ r.power \in Nat /\ r.mask \in Nat /\ r.settled \in Nat /\ r.claimed \in Nat
      /\ r = [power |-> r.power, mask |-> r.mask, settled |-> r.settled, claimed |-> r.claimed]
    BY DEF AccountRecord
<1>2. Earned(r, index) \in Nat
    BY EarnedType
<1>3. index * power \in Nat /\ index * r.power \in Nat
    BY <1>1, ProductType
<1>4. CASE power < r.power
    <2>1. new = [power |-> power, mask |-> index * power,
                 settled |-> Earned(r, index) + r.settled, claimed |-> r.claimed]
        BY <1>1, <1>4 DEF SetPower
    <2>2. Earned(new, index) = 0
        BY <2>1, <1>3, ZeroQuotient DEF Earned
    <2>3. QED
        BY <2>1, <2>2, <1>1, <1>2, <1>3 DEF AccountRecord, Covered, Claimable
<1>5. CASE ~(power < r.power)
    <2>1. new = [power |-> power, mask |-> r.mask + index * (power - r.power),
                 settled |-> r.settled, claimed |-> r.claimed]
        BY <1>1, <1>5 DEF SetPower
    <2>2. power - r.power \in Nat /\ power = r.power + (power - r.power)
        BY <1>1, <1>5
    <2>3. /\ index * (power - r.power) \in Nat
          /\ index * power = index * r.power + index * (power - r.power)
        BY <1>1, <2>2, ProductType, ProductDistributes
    <2>4. Earned(new, index) = Earned(r, index)
        BY <2>1, <2>3, <1>1, <1>3 DEF Earned
    <2>5. QED
        BY <2>1, <2>3, <2>4, <1>1, <1>3 DEF AccountRecord, Covered, Claimable
<1>6. QED
    BY <1>4, <1>5

\* claimInternal moves what can be claimed to what has been claimed.
LEMMA ClaimRecordRecord ==
    ASSUME NEW r \in AccountRecord, NEW index \in Nat, Covered(r, index)
    PROVE  LET new == ClaimRecord(r, index)
           IN  /\ new \in AccountRecord
               /\ new.power = r.power
               /\ Covered(new, index)
               /\ new.claimed = r.claimed + Claimable(r, index)
               /\ Claimable(new, index) = 0
               /\ Claimable(r, index) \in Nat
<1> DEFINE new == ClaimRecord(r, index)
<1>1. /\ r.power \in Nat /\ r.mask \in Nat /\ r.settled \in Nat /\ r.claimed \in Nat
      /\ r = [power |-> r.power, mask |-> r.mask, settled |-> r.settled, claimed |-> r.claimed]
    BY DEF AccountRecord
<1>2. Earned(r, index) \in Nat /\ index * r.power \in Nat
    BY <1>1, EarnedType, ProductType
<1>3. Claimable(r, index) \in Nat
    BY <1>1, <1>2 DEF Claimable
<1> DEFINE mask == index * r.power
           claimed == r.claimed + Claimable(r, index)
<1>4. new = [r EXCEPT !.claimed = claimed, !.settled = 0, !.mask = mask]
    BY DEF ClaimRecord
<1>5. mask \in Nat /\ claimed \in Nat
    BY <1>1, <1>2, <1>3
<1> HIDE DEF new, mask, claimed
<1>6. new = [power |-> r.power, mask |-> mask, settled |-> 0, claimed |-> claimed]
    BY <1>1, <1>4
<1>7. /\ new \in AccountRecord
      /\ new.power = r.power /\ new.mask = mask /\ new.settled = 0 /\ new.claimed = claimed
    BY <1>1, <1>5, <1>6 DEF AccountRecord
<1>8. index * new.power - new.mask = 0
    BY <1>5, <1>7 DEF mask
<1>9. Earned(new, index) = 0
    BY <1>8, ZeroQuotient DEF Earned
<1>10. Claimable(new, index) = 0 /\ Covered(new, index)
    BY <1>5, <1>7, <1>9 DEF Covered, Claimable, mask
<1>11. QED
    BY <1>3, <1>7, <1>10 DEF new, claimed

-----------------------------------------------------------------------------
(***************************************************************************)
(* Accounting of one pool.                                                 *)
(***************************************************************************)
ScheduleType == /\ block \in Nat /\ rewardsPerBlock \in Nat /\ nextHalvingBlock \in Nat
                /\ totalWeight \in Nat

\* An update keeps the power of the pool and never lowers its index.
LEMMA UpdatePoolPool ==
    ASSUME NEW p \in Pool, ScheduleType, p.lastBlockNumber <= block, CanUpdatePool(p)
    PROVE  LET new == UpdatePool(p)
           IN  /\ new \in Pool
               /\ new.rewardIndex >= p.rewardIndex
               /\ new.totalPower + new.accumulatedPower = p.totalPower + p.accumulatedPower
               /\ new.lastBlockNumber = block
               /\ new.state = p.state /\ new.ptype = p.ptype
               /\ new.tokenAddr = p.tokenAddr /\ new.weight = p.weight
               /\ TokenMinedWithin(p) \in Nat
<1> DEFINE new == UpdatePool(p)
<1>1. /\ p.ptype \in PoolType /\ p.tokenAddr \in Tokens /\ p.state \in PoolState
      /\ p.rewardIndex \in Nat /\ p.lastBlockNumber \in Nat /\ p.accumulatedPower \in Int
      /\ p.accumulatedTokens \in Nat /\ p.totalPower \in Nat /\ p.startBlock \in Nat
      /\ p.weight \in Nat
    BY DEF Pool
<1>2. CASE ~Stale(p)
    BY <1>1, <1>2 DEF UpdatePool, TokenMinedWithin, Stale, ScheduleType
<1>3. CASE Stale(p)
    <2> DEFINE power == p.totalPower + p.accumulatedPower
               tokens == p.accumulatedTokens + TokenMinedWithin(p)
    <2>1. RewardRate \in Nat
        BY QuotientType DEF RewardRate, ScheduleType
    <2>2. block - p.lastBlockNumber \in Nat
        BY <1>1 DEF ScheduleType
    <2>3. ((block - p.lastBlockNumber) * RewardRate) * p.weight \in Nat
        BY <1>1, <2>1, <2>2, ProductType
    <2>4. totalWeight \in Nat \ {0} /\ power \in Nat
        BY <1>1, <1>3 DEF CanUpdatePool, ScheduleType
    <2>5. TokenMinedWithin(p) \in Nat
        BY <1>3, <2>3, <2>4, QuotientType DEF TokenMinedWithin
    <2>6. tokens * Mantissa \in Nat
        BY <1>1, <2>5, ProductType
    <2>7. power # 0 => (tokens * Mantissa) \div power \in Nat
        BY <2>4, <2>6, QuotientType
    <2> DEFINE index == IF power = 0 THEN p.rewardIndex
                        ELSE p.rewardIndex + (tokens * Mantissa) \div power
               aside == IF power = 0 THEN tokens ELSE 0
    <2>8. new = [p EXCEPT !.totalPower = power, !.accumulatedPower = 0, !.rewardIndex = index,
                          !.accumulatedTokens = aside, !.lastBlockNumber = block]
        BY <1>3 DEF UpdatePool
    <2>9. index \in Nat /\ index >= p.rewardIndex /\ aside \in Nat
        BY <1>1, <2>5, <2>7
    <2> HIDE DEF new, index, aside, power, tokens
    <2>10. new = [ptype |-> p.ptype, tokenAddr |-> p.tokenAddr, state |-> p.state,
                  rewardIndex |-> index, lastBlockNumber |-> block, accumulatedPower |-> 0,
                  accumulatedTokens |-> aside, totalPower |-> power,
                  startBlock |-> p.startBlock, weight |-> p.weight]
        BY <2>8 DEF Pool
    <2>11. QED
        BY <1>1, <2>4, <2>5, <2>9, <2>10 DEF new, power, Pool, ScheduleType
<1>4. QED
    BY <1>2, <1>3

LEMMA AddPowerPool ==
    ASSUME NEW p \in Pool, NEW added \in Int
    PROVE  LET new == AddPower(p, added)
           IN  /\ new \in Pool
               /\ new.rewardIndex = p.rewardIndex
               /\ new.totalPower + new.accumulatedPower = p.totalPower + p.accumulatedPower + added
               /\ new.lastBlockNumber = p.lastBlockNumber
               /\ new.state = p.state /\ new.ptype = p.ptype
               /\ new.tokenAddr = p.tokenAddr /\ new.weight = p.weight
BY DEF AddPower, Pool

-----------------------------------------------------------------------------
(***************************************************************************)
(* A pool together with the records of its accounts.                       *)
(***************************************************************************)
PowerOf(R) == [a \in Holders |-> R[a].power]

PoolOK(p, R, now) ==
    /\ p.lastBlockNumber <= now
    /\ \A a \in Holders : Covered(R[a], p.rewardIndex)
    /\ p.totalPower + p.accumulatedPower = Total(PowerOf(R))

\* What the accounts have received and can claim under `index` is the same.
Kept(R, S, index) == \A a \in Holders : Received(S[a], index) = Received(R[a], index)

LEMMA HoldersFinite == IsFiniteSet(Holders)
    BY FS_AddElement DEF Holders, DistributorAssumption

\* A step that sets the record of one account, and moves the power of the pool
\* by the same amount.
LEMMA SetRecord ==
    ASSUME NEW p \in Pool, NEW R \in [Holders -> AccountRecord], NEW now \in Nat,
           PoolOK(p, R, now),
           NEW P \in Pool, NEW a \in Holders, NEW new \in AccountRecord,
           P.lastBlockNumber <= now, P.rewardIndex >= p.rewardIndex,
           Covered(new, P.rewardIndex),
           P.totalPower + P.accumulatedPower
             = p.totalPower + p.accumulatedPower + (new.power - R[a].power)
    PROVE  LET S == [R EXCEPT ![a] = new]
           IN  /\ S \in [Holders -> AccountRecord]
               /\ PoolOK(P, S, now)
<1> DEFINE S == [R EXCEPT ![a] = new]
<1>1. /\ S \in [Holders -> AccountRecord] /\ S[a] = new
      /\ \A b \in Holders \ {a} : S[b] = R[b]
    OBVIOUS
<1> HIDE DEF S
<1>2. p.rewardIndex \in Nat /\ P.rewardIndex \in Nat
      /\ p.totalPower + p.accumulatedPower \in Int
    BY DEF Pool
<1>3. \A b \in Holders : Covered(S[b], P.rewardIndex)
    BY <1>1, <1>2, CoveredGrows DEF PoolOK
<1>4. /\ PowerOf(R) \in [Holders -> Nat] /\ PowerOf(S) \in [Holders -> Nat]
      /\ PowerOf(R)[a] = R[a].power /\ PowerOf(S)[a] = new.power
      /\ \A b \in Holders \ {a} : PowerOf(S)[b] = PowerOf(R)[b]
    BY <1>1 DEF PowerOf, AccountRecord
<1>5. Total(PowerOf(S)) = Total(PowerOf(R)) - R[a].power + new.power
    BY <1>4, HoldersFinite, TotalUpdate
<1>6. Total(PowerOf(R)) \in Nat /\ R[a].power \in Nat /\ new.power \in Nat
    BY <1>4, HoldersFinite, TotalType DEF AccountRecord
<1>7. P.totalPower + P.accumulatedPower = Total(PowerOf(S))
    BY <1>2, <1>5, <1>6 DEF PoolOK
<1>8. QED
    BY <1>1, <1>3, <1>7 DEF PoolOK, S

\* A step that changes no record.
LEMMA KeepRecords ==
    ASSUME NEW p \in Pool, NEW R \in [Holders -> AccountRecord], NEW now \in Nat,
           PoolOK(p, R, now),
           NEW P \in Pool, P.lastBlockNumber <= now, P.rewardIndex >= p.rewardIndex,
           P.totalPower + P.accumulatedPower = p.totalPower + p.accumulatedPower
    PROVE  PoolOK(P, R, now)
<1>1. p.rewardIndex \in Nat /\ P.rewardIndex \in Nat
    BY DEF Pool
<1>2. \A b \in Holders : Covered(R[b], P.rewardIndex)
    BY <1>1, CoveredGrows DEF PoolOK
<1>3. QED
    BY <1>2 DEF PoolOK

-----------------------------------------------------------------------------
(***************************************************************************)
(* The inductive invariant.  TypeOK alone is not inductive: a settlement   *)
(* stays a natural number because the masks are covered, the counters of   *)
(* the registry do because they match the pools, the mining rate does      *)
(* because the supply is capped.                                           *)
(***************************************************************************)
ActiveIds == {s \in PoolIds : pools[s].state = "ACTIVE"}
WeightLedger == [s \in PoolSeqs |-> ActiveWeight(s)]

PoolsOK == \A s \in PoolIds : PoolOK(pools[s], accountRecords[s], block)
UnusedFresh ==
    \A s \in PoolSeqs \ PoolIds : accountRecords[s] = [a \in Holders |-> NewRecord]
RegistryOK ==
    /\ totalWeight = Total(WeightLedger)
    /\ activePools = Cardinality(ActiveIds)

IInv ==
    /\ TypeOK
    /\ rdsSupply <= MaxSupply
    /\ PoolsOK
    /\ UnusedFresh
    /\ RegistryOK

LEMMA PoolTypes ==
    ASSUME TypeOK, NEW s \in PoolIds
    PROVE  /\ s \in PoolSeqs /\ pools[s] \in Pool
           /\ accountRecords[s] \in [Holders -> AccountRecord]
           /\ ScheduleType
<1>1. Len(pools) \in Nat /\ Len(pools) <= MaxPools
    BY DEF TypeOK
<1>2. QED
    BY <1>1 DEF TypeOK, PoolIds, PoolSeqs, ScheduleType, DistributorAssumption

\* A step on one pool leaves the others sound.
LEMMA PoolStep ==
    ASSUME TypeOK, PoolsOK, UnusedFresh, NEW s \in PoolIds,
           NEW P \in Pool, NEW R \in [Holders -> AccountRecord],
           PoolOK(P, R, block), block' = block,
           pools' = [pools EXCEPT ![s] = P],
           accountRecords' = [accountRecords EXCEPT ![s] = R],
           Kept(accountRecords[s], R, P.rewardIndex)
    PROVE  /\ pools' \in Seq(Pool) /\ Len(pools') = Len(pools)
           /\ accountRecords' \in [PoolSeqs -> [Holders -> AccountRecord]]
           /\ PoolsOK' /\ UnusedFresh' /\ RewardKept
<1>1. /\ s \in 1 .. Len(pools) /\ pools \in Seq(Pool) /\ s \in PoolSeqs
    BY PoolTypes DEF PoolIds, TypeOK
<1>2. pools' \in Seq(Pool) /\ Len(pools') = Len(pools)
    BY <1>1
<1>3. /\ pools'[s] = P /\ \A q \in PoolIds \ {s} : pools'[q] = pools[q]
    BY <1>1 DEF PoolIds
<1>4. /\ accountRecords' \in [PoolSeqs -> [Holders -> AccountRecord]]
      /\ accountRecords'[s] = R
      /\ \A q \in PoolSeqs \ {s} : accountRecords'[q] = accountRecords[q]
    BY <1>1 DEF TypeOK
<1>5. PoolIds' = PoolIds /\ PoolIds \subseteq PoolSeqs
    BY <1>2, PoolTypes DEF PoolIds
<1>6. PoolsOK'
    BY <1>3, <1>4, <1>5 DEF PoolsOK
<1>7. UnusedFresh'
    BY <1>4, <1>5 DEF UnusedFresh
<1>8. RewardKept
    BY <1>3, <1>4, <1>5 DEF RewardKept, Kept
<1>9. QED
    BY <1>2, <1>4, <1>6, <1>7, <1>8

\* The registry is untouched by a step that keeps the state and weight of a pool.
LEMMA RegistryStep ==
    ASSUME TypeOK, RegistryOK, NEW s \in PoolIds, NEW P \in Pool,
           P.state = pools[s].state, P.weight = pools[s].weight,
           pools' = [pools EXCEPT ![s] = P], UNCHANGED registry
    PROVE  RegistryOK'
<1>1. /\ s \in 1 .. Len(pools) /\ pools \in Seq(Pool)
    BY DEF PoolIds, TypeOK
<1>2. Len(pools') = Len(pools)
    BY <1>1
<1>3. /\ pools'[s] = P /\ \A q \in PoolIds \ {s} : pools'[q] = pools[q]
    BY <1>1 DEF PoolIds
<1>4. PoolIds' = PoolIds
    BY <1>2 DEF PoolIds
<1>5. ActiveIds' = ActiveIds
    BY <1>3, <1>4 DEF ActiveIds
<1>6. WeightLedger' = WeightLedger
    BY <1>3, <1>4 DEF WeightLedger, ActiveWeight
<1>7. QED
    BY <1>5, <1>6 DEF RegistryOK, registry

LEMMA WeightLedgerType ==
    ASSUME TypeOK
    PROVE  /\ WeightLedger \in [PoolSeqs -> Nat] /\ IsFiniteSet(PoolSeqs)
           /\ ActiveIds \subseteq PoolSeqs /\ IsFiniteSet(ActiveIds)
<1>1. IsFiniteSet(PoolSeqs)
    BY FS_Interval DEF PoolSeqs, DistributorAssumption
<1>2. \A s \in PoolIds : pools[s].weight \in Nat /\ s \in PoolSeqs
    BY PoolTypes DEF Pool
<1>3. ActiveIds \subseteq PoolSeqs
    BY <1>2 DEF ActiveIds
<1>4. IsFiniteSet(ActiveIds)
    BY <1>1, <1>3, FS_Subset
<1>5. QED
    BY <1>1, <1>2, <1>3, <1>4 DEF WeightLedger, ActiveWeight

\* Opening a pool adds it to the registry.
LEMMA RegistryOpens ==
    ASSUME TypeOK, RegistryOK, NEW s \in PoolIds, NEW P \in Pool,
           pools[s].state = "NOT_START", P.state = "ACTIVE", P.weight = pools[s].weight,
           pools' = [pools EXCEPT ![s] = P],
           activePools' = activePools + 1, totalWeight' = totalWeight + pools[s].weight
    PROVE  RegistryOK'
<1>1. /\ s \in 1 .. Len(pools) /\ pools \in Seq(Pool) /\ s \in PoolSeqs
    BY PoolTypes DEF PoolIds, TypeOK
<1>2. Len(pools') = Len(pools)
    BY <1>1
<1>3. /\ pools'[s] = P /\ \A q \in PoolIds \ {s} : pools'[q] = pools[q]
    BY <1>1 DEF PoolIds
<1>4. PoolIds' = PoolIds
    BY <1>2 DEF PoolIds
<1>5. ActiveIds' = ActiveIds \cup {s} /\ s \notin ActiveIds
    BY <1>3, <1>4 DEF ActiveIds
<1>6. Cardinality(ActiveIds') = Cardinality(ActiveIds) + 1
    BY <1>5, WeightLedgerType, FS_AddElement
<1>7. WeightLedger[s] = 0 /\ WeightLedger'[s] = pools[s].weight
    BY <1>1, <1>3, <1>4 DEF WeightLedger, ActiveWeight
<1>8. \A q \in PoolSeqs \ {s} : WeightLedger'[q] = WeightLedger[q]
    BY <1>1, <1>3, <1>4 DEF WeightLedger, ActiveWeight
<1>9. WeightLedger' \in [PoolSeqs -> Nat] /\ WeightLedger \in [PoolSeqs -> Nat]
    <2>1. \A q \in PoolIds : P.weight \in Nat /\ pools[q].weight \in Nat
        BY PoolTypes DEF Pool
    <2>2. QED
        BY <2>1, <1>3, <1>4, WeightLedgerType DEF WeightLedger, ActiveWeight
<1>10. Total(WeightLedger') = Total(WeightLedger) - WeightLedger[s] + WeightLedger'[s]
    <2>1. IsFiniteSet(PoolSeqs) /\ s \in PoolSeqs
        BY <1>1, WeightLedgerType
    <2>2. QED
        BY <2>1, <1>8, <1>9, TotalUpdate
<1>11. Total(WeightLedger) \in Nat /\ pools[s].weight \in Nat
    BY WeightLedgerType, TotalType, PoolTypes DEF Pool
<1>12. Total(WeightLedger)' = Total(WeightLedger')
    OBVIOUS
<1>13. QED
    BY <1>6, <1>7, <1>10, <1>11, <1>12 DEF RegistryOK

\* Closing a pool removes it from the registry; the counters stay natural numbers.
LEMMA RegistryCloses ==
    ASSUME TypeOK, RegistryOK, NEW s \in ActiveIds,
           NEW Q \in Seq(Pool), Len(Q) = Len(pools), pools' = Q,
           \A q \in PoolIds : Q[q].weight = pools[q].weight,
           \A q \in PoolIds \ {s} : Q[q].state = pools[q].state,
           Q[s].state = "CLOSED",
           activePools' = activePools - 1, totalWeight' = totalWeight - pools[s].weight
    PROVE  RegistryOK' /\ activePools' \in Nat /\ totalWeight' \in Nat
<1>1. s \in PoolIds /\ s \in PoolSeqs /\ pools[s].state = "ACTIVE"
    BY PoolTypes DEF ActiveIds
<1>2. PoolIds' = PoolIds
    BY DEF PoolIds
<1>3. ActiveIds' = ActiveIds \ {s}
    BY <1>1, <1>2 DEF ActiveIds
<1>4. Cardinality(ActiveIds') = Cardinality(ActiveIds) - 1
    BY <1>3, WeightLedgerType, FS_RemoveElement
<1>5. WeightLedger[s] = pools[s].weight /\ WeightLedger'[s] = 0
    BY <1>1, <1>2 DEF WeightLedger, ActiveWeight
<1>6. \A q \in PoolSeqs \ {s} : WeightLedger'[q] = WeightLedger[q]
    BY <1>1, <1>2 DEF WeightLedger, ActiveWeight
<1>7. WeightLedger \in [PoolSeqs -> Nat]
    BY WeightLedgerType
<1>8. WeightLedger' \in [PoolSeqs -> Nat]
    BY <1>5, <1>6, <1>7 DEF WeightLedger
<1>9. Total(WeightLedger') = Total(WeightLedger) - pools[s].weight + 0
    BY <1>1, <1>5, <1>6, <1>7, <1>8, WeightLedgerType, TotalUpdate
<1>10. /\ Total(WeightLedger) \in Nat /\ Total(WeightLedger') \in Nat
       /\ pools[s].weight \in Nat
    BY <1>1, <1>7, <1>8, WeightLedgerType, TotalType, PoolTypes DEF Pool
<1>11. Cardinality(ActiveIds') \in Nat
    BY <1>3, WeightLedgerType, FS_RemoveElement, FS_CardinalityType
<1>12. Total(WeightLedger)' = Total(WeightLedger') /\ Cardinality(ActiveIds)' = Cardinality(ActiveIds')
    OBVIOUS
<1>13. QED
    BY <1>4, <1>9, <1>10, <1>11, <1>12 DEF RegistryOK

-----------------------------------------------------------------------------
(***************************************************************************)
(* The steps of the accounts.                                              *)
(***************************************************************************)
\* Updating the pools S moves the schedule and credits what was mined.
LEMMA Mining ==
    ASSUME IInv, NEW S \in SUBSET PoolIds, \A s \in S : CanUpdatePool(pools[s]),
           Halve(S), Credit(S)
    PROVE  /\ rewardsPerBlock' \in Nat /\ nextHalvingBlock' \in Nat
           /\ mined' \in [PoolSeqs -> Nat]
<1>1. block \in Nat /\ rewardsPerBlock \in Nat /\ nextHalvingBlock \in Nat /\ BlocksPerYear \in Nat
    BY DEF IInv, TypeOK, DistributorAssumption
<1>2. rewardsPerBlock \div 2 \in Nat
    BY <1>1, QuotientType
<1>3. rewardsPerBlock' \in Nat /\ nextHalvingBlock' \in Nat
    BY <1>1, <1>2 DEF Halve, RewardRate
<1>4. \A s \in S : TokenMinedWithin(pools[s]) \in Nat
    BY PoolTypes, UpdatePoolPool DEF IInv, PoolsOK, PoolOK
<1>5. mined' \in [PoolSeqs -> Nat]
    BY <1>4 DEF Credit, IInv, TypeOK
<1>6. QED
    BY <1>3, <1>5

\* The pool as updatePool leaves it, before its power changes.
LEMMA Updated ==
    ASSUME IInv, NEW s \in PoolIds, CanUpdatePool(pools[s])
    PROVE  LET P == UpdatePool(pools[s])
           IN  /\ P \in Pool /\ PoolOK(P, accountRecords[s], block)
               /\ P.rewardIndex \in Nat
               /\ P.state = pools[s].state /\ P.weight = pools[s].weight
               /\ P.tokenAddr = pools[s].tokenAddr /\ P.ptype = pools[s].ptype
<1> DEFINE P == UpdatePool(pools[s])
<1>1. /\ pools[s] \in Pool /\ accountRecords[s] \in [Holders -> AccountRecord]
      /\ PoolOK(pools[s], accountRecords[s], block) /\ ScheduleType /\ block \in Nat
    BY PoolTypes DEF IInv, PoolsOK, ScheduleType
<1>2. pools[s].lastBlockNumber <= block
    BY <1>1 DEF PoolOK
<1>3. /\ P \in Pool /\ P.rewardIndex >= pools[s].rewardIndex
      /\ P.totalPower + P.accumulatedPower = pools[s].totalPower + pools[s].accumulatedPower
      /\ P.lastBlockNumber = block
      /\ P.state = pools[s].state /\ P.weight = pools[s].weight
      /\ P.tokenAddr = pools[s].tokenAddr /\ P.ptype = pools[s].ptype
    BY <1>1, <1>2, UpdatePoolPool
<1> HIDE DEF P
<1>4. P.lastBlockNumber <= block
    BY <1>1, <1>3 DEF ScheduleType
<1>5. PoolOK(P, accountRecords[s], block)
    BY <1>1, <1>3, <1>4, KeepRecords
<1>6. P.rewardIndex \in Nat
    BY <1>3 DEF Pool
<1>7. QED
    BY <1>3, <1>5, <1>6 DEF P

\* updatePower, after the pool was updated
LEMMA PowerSet ==
    ASSUME NEW P \in Pool, NEW R \in [Holders -> AccountRecord], NEW now \in Nat,
           PoolOK(P, R, now), NEW a \in Holders, NEW power \in Nat
    PROVE  LET S == [R EXCEPT ![a] = SetPower(R[a], P.rewardIndex, power)]
               Q == AddPower(P, power - R[a].power)
           IN  /\ S \in [Holders -> AccountRecord] /\ S[a].power = power
               /\ Q \in Pool /\ PoolOK(Q, S, now)
               /\ Q.rewardIndex = P.rewardIndex
               /\ Q.state = P.state /\ Q.weight = P.weight
               /\ Q.tokenAddr = P.tokenAddr /\ Q.ptype = P.ptype
               /\ Kept(R, S, P.rewardIndex)
<1> DEFINE new == SetPower(R[a], P.rewardIndex, power)
           S == [R EXCEPT ![a] = new]
           Q == AddPower(P, power - R[a].power)
<1>1. P.rewardIndex \in Nat /\ R[a] \in AccountRecord /\ Covered(R[a], P.rewardIndex)
      /\ R[a].power \in Nat /\ P.lastBlockNumber <= now /\ P.lastBlockNumber \in Nat
    BY DEF Pool, AccountRecord, PoolOK
<1>2. /\ new \in AccountRecord /\ new.power = power /\ Covered(new, P.rewardIndex)
      /\ new.claimed = R[a].claimed
      /\ Claimable(new, P.rewardIndex) = Claimable(R[a], P.rewardIndex)
    BY <1>1, SetPowerRecord
<1>3. power - R[a].power \in Int
    BY <1>1
<1>4. /\ Q \in Pool /\ Q.rewardIndex = P.rewardIndex
      /\ Q.totalPower + Q.accumulatedPower
           = P.totalPower + P.accumulatedPower + (power - R[a].power)
      /\ Q.lastBlockNumber = P.lastBlockNumber
      /\ Q.state = P.state /\ Q.weight = P.weight
      /\ Q.tokenAddr = P.tokenAddr /\ Q.ptype = P.ptype
    BY <1>3, AddPowerPool
<1> HIDE DEF new, Q
<1>5. S \in [Holders -> AccountRecord] /\ PoolOK(Q, S, now)
    <2>1. /\ Covered(new, Q.rewardIndex) /\ Q.rewardIndex >= P.rewardIndex
          /\ Q.lastBlockNumber <= now
          /\ Q.totalPower + Q.accumulatedPower
               = P.totalPower + P.accumulatedPower + (new.power - R[a].power)
        BY <1>1, <1>2, <1>4
    <2>2. QED
        BY <1>2, <1>4, <2>1, SetRecord
<1>6. Received(new, P.rewardIndex) = Received(R[a], P.rewardIndex)
    BY <1>2 DEF Received
<1>7. S[a] = new /\ \A b \in Holders \ {a} : S[b] = R[b]
    OBVIOUS
<1> HIDE DEF S
<1>8. Kept(R, S, P.rewardIndex) /\ S[a].power = power
    BY <1>2, <1>6, <1>7 DEF Kept
<1>9. QED
    BY <1>4, <1>5, <1>8 DEF new, Q, S

\* claimInternal, after the pool was updated
LEMMA ClaimSet ==
    ASSUME NEW P \in Pool, NEW R \in [Holders -> AccountRecord], NEW now \in Nat,
           PoolOK(P, R, now), NEW a \in Holders
    PROVE  LET S == [R EXCEPT ![a] = ClaimRecord(R[a], P.rewardIndex)]
           IN  /\ S \in [Holders -> AccountRecord] /\ PoolOK(P, S, now)
               /\ S[a] = ClaimRecord(R[a], P.rewardIndex) /\ S[a].power = R[a].power
               /\ Kept(R, S, P.rewardIndex)
               /\ Claimable(R[a], P.rewardIndex) \in Nat
<1> DEFINE new == ClaimRecord(R[a], P.rewardIndex)
           S == [R EXCEPT ![a] = new]
<1>1. /\ P.rewardIndex \in Nat /\ R[a] \in AccountRecord /\ Covered(R[a], P.rewardIndex)
      /\ P.lastBlockNumber <= now /\ R[a].power \in Nat /\ R[a].claimed \in Nat
      /\ P.totalPower + P.accumulatedPower \in Int
    BY DEF Pool, AccountRecord, PoolOK
<1>2. /\ new \in AccountRecord /\ new.power = R[a].power /\ Covered(new, P.rewardIndex)
      /\ new.claimed = R[a].claimed + Claimable(R[a], P.rewardIndex)
      /\ Claimable(new, P.rewardIndex) = 0
      /\ Claimable(R[a], P.rewardIndex) \in Nat
    BY <1>1, ClaimRecordRecord
<1> HIDE DEF new
<1>3. P.totalPower + P.accumulatedPower
        = P.totalPower + P.accumulatedPower + (new.power - R[a].power)
    BY <1>1, <1>2
<1>4. P.rewardIndex >= P.rewardIndex
    BY <1>1
<1>5. S \in [Holders -> AccountRecord] /\ PoolOK(P, S, now)
    BY <1>1, <1>2, <1>3, <1>4, SetRecord
<1>6. Received(new, P.rewardIndex) = Received(R[a], P.rewardIndex)
    BY <1>1, <1>2 DEF Received
<1>7. S[a] = new /\ \A b \in Holders \ {a} : S[b] = R[b]
    OBVIOUS
<1> HIDE DEF S
<1>8. Kept(R, S, P.rewardIndex)
    BY <1>6, <1>7 DEF Kept
<1>9. QED
    BY <1>2, <1>5, <1>7, <1>8 DEF S, new

LEMMA CustodyGrows ==
    ASSUME IInv, NEW p \in Pool, NEW received \in Nat,
           custody' = [custody EXCEPT ![p.tokenAddr] = @ + received]
    PROVE  custody' \in [Tokens -> Nat]
<1>1. p.tokenAddr \in Tokens /\ custody \in [Tokens -> Nat]
    BY DEF IInv, TypeOK, Pool
<1>2. custody[p.tokenAddr] + received \in Nat
    BY <1>1
<1>3. QED
    BY <1>1, <1>2

LEMMA CustodyShrinks ==
    ASSUME IInv, NEW p \in Pool, NEW amount \in Nat, custody[p.tokenAddr] >= amount,
           custody' = [custody EXCEPT ![p.tokenAddr] = @ - amount]
    PROVE  custody' \in [Tokens -> Nat]
<1>1. p.tokenAddr \in Tokens /\ custody \in [Tokens -> Nat]
    BY DEF IInv, TypeOK, Pool
<1>2. custody[p.tokenAddr] - amount \in Nat
    BY <1>1
<1>3. QED
    BY <1>1, <1>2

\* Kept composes: two changes of the records under one index.
LEMMA KeptTrans ==
    ASSUME NEW R, NEW S, NEW T, NEW index, Kept(R, S, index), Kept(S, T, index)
    PROVE  Kept(R, T, index)
BY DEF Kept

\* A mining step: what an action on one pool that is not opened has to show.
LEMMA MiningStep ==
    ASSUME IInv, NEW s \in PoolIds, CanUpdatePool(pools[s]), Halve({s}), Credit({s}),
           NEW P \in Pool, NEW R \in [Holders -> AccountRecord],
           PoolOK(P, R, block), Kept(accountRecords[s], R, P.rewardIndex),
           P.state = pools[s].state, P.weight = pools[s].weight,
           pools' = [pools EXCEPT ![s] = P],
           accountRecords' = [accountRecords EXCEPT ![s] = R],
           rdsSupply' \in Nat, rdsSupply' <= MaxSupply,
           custody' \in [Tokens -> Nat],
           UNCHANGED <<block, market, tokenToPoolSeq, mineStartBlock, registry>>
    PROVE  IInv' /\ RewardKept
<1>1. TypeOK /\ PoolsOK /\ UnusedFresh /\ RegistryOK /\ block' = block
    BY DEF IInv
<1>2. /\ pools' \in Seq(Pool) /\ Len(pools') = Len(pools)
      /\ accountRecords' \in [PoolSeqs -> [Holders -> AccountRecord]]
      /\ PoolsOK' /\ UnusedFresh' /\ RewardKept
    BY <1>1, PoolStep
<1>3. RegistryOK'
    BY <1>1, RegistryStep
<1>4. /\ rewardsPerBlock' \in Nat /\ nextHalvingBlock' \in Nat
      /\ mined' \in [PoolSeqs -> Nat]
    <2>1. {s} \in SUBSET PoolIds /\ \A q \in {s} : CanUpdatePool(pools[q])
        OBVIOUS
    <2>2. QED
        BY <2>1, Mining
<1>5. TypeOK'
    BY <1>1, <1>2, <1>4 DEF TypeOK, registry
<1>6. QED
    BY <1>2, <1>3, <1>5 DEF IInv

LEMMA KeptRefl == ASSUME NEW R, NEW index PROVE Kept(R, R, index)
    BY DEF Kept

\* The pool as tryOpenPool leaves it.
LEMMA Opened ==
    ASSUME IInv, NEW s \in PoolIds, CanOpen(pools[s])
    PROVE  LET P == OpenedPool(pools[s])
           IN  /\ P \in Pool /\ PoolOK(P, accountRecords[s], block)
               /\ P.rewardIndex \in Nat
               /\ P.state = "ACTIVE" /\ P.weight = pools[s].weight
               /\ P.tokenAddr = pools[s].tokenAddr /\ P.ptype = pools[s].ptype
<1> DEFINE P == OpenedPool(pools[s])
<1>1. /\ pools[s] \in Pool /\ accountRecords[s] \in [Holders -> AccountRecord]
      /\ PoolOK(pools[s], accountRecords[s], block) /\ block \in Nat
    BY PoolTypes DEF IInv, PoolsOK, ScheduleType
<1>2. /\ P \in Pool /\ P.rewardIndex = pools[s].rewardIndex /\ P.rewardIndex \in Nat
      /\ P.totalPower = pools[s].totalPower /\ P.accumulatedPower = pools[s].accumulatedPower
      /\ P.lastBlockNumber = block
      /\ P.state = "ACTIVE" /\ P.weight = pools[s].weight
      /\ P.tokenAddr = pools[s].tokenAddr /\ P.ptype = pools[s].ptype
    BY <1>1 DEF OpenedPool, Pool, PoolState
<1> HIDE DEF P
<1>3. PoolOK(P, accountRecords[s], block)
    BY <1>1, <1>2 DEF PoolOK
<1>4. QED
    BY <1>2, <1>3 DEF P

\* A step that opens a pool.
LEMMA OpeningStep ==
    ASSUME IInv, NEW s \in PoolIds, CanOpen(pools[s]), OpenRegistry(pools[s]),
           NEW P \in Pool, NEW R \in [Holders -> AccountRecord],
           PoolOK(P, R, block), Kept(accountRecords[s], R, P.rewardIndex),
           P.state = "ACTIVE", P.weight = pools[s].weight,
           pools' = [pools EXCEPT ![s] = P],
           accountRecords' = [accountRecords EXCEPT ![s] = R],
           custody' \in [Tokens -> Nat],
           UNCHANGED <<block, market, tokenToPoolSeq, rdsSupply, mined>>
    PROVE  IInv' /\ RewardKept
<1>1. TypeOK /\ PoolsOK /\ UnusedFresh /\ RegistryOK /\ block' = block
    BY DEF IInv
<1>2. /\ pools' \in Seq(Pool) /\ Len(pools') = Len(pools)
      /\ accountRecords' \in [PoolSeqs -> [Holders -> AccountRecord]]
      /\ PoolsOK' /\ UnusedFresh' /\ RewardKept
    BY <1>1, PoolStep
<1>3. RegistryOK'
    BY <1>1, RegistryOpens DEF CanOpen, OpenRegistry
<1>4. pools[s].weight \in Nat
    BY <1>1, PoolTypes DEF Pool
<1>5. ((MaxSupply - rdsSupply) \div 2) \div BlocksPerYear \in Nat
    <2>1. MaxSupply - rdsSupply \in Nat
        BY DEF IInv, TypeOK, DistributorAssumption
    <2>2. (MaxSupply - rdsSupply) \div 2 \in Nat
        BY <2>1, QuotientType
    <2>3. QED
        BY <2>2, QuotientType DEF DistributorAssumption
<1>6. /\ rewardsPerBlock' \in Nat /\ mineStartBlock' \in Nat /\ nextHalvingBlock' \in Nat
      /\ activePools' \in Nat /\ totalWeight' \in Nat
    BY <1>1, <1>4, <1>5 DEF OpenRegistry, TypeOK, schedule, DistributorAssumption
<1>7. TypeOK'
    BY <1>1, <1>2, <1>6 DEF TypeOK
<1>8. QED
    BY <1>2, <1>3, <1>7 DEF IInv

LEMMA OpenPoolStep ==
    ASSUME IInv, NEW s \in PoolIds, OpenPool(s)
    PROVE  IInv' /\ RewardKept
<1> DEFINE P == OpenedPool(pools[s])
           R == accountRecords[s]
<1>1. /\ P \in Pool /\ PoolOK(P, R, block)
      /\ P.state = "ACTIVE" /\ P.weight = pools[s].weight
    BY Opened DEF OpenPool
<1>2. R \in [Holders -> AccountRecord] /\ custody \in [Tokens -> Nat]
      /\ accountRecords = [accountRecords EXCEPT ![s] = R]
    BY PoolTypes DEF IInv, TypeOK
<1>3. Kept(accountRecords[s], R, P.rewardIndex)
    BY KeptRefl
<1>4. /\ CanOpen(pools[s]) /\ OpenRegistry(pools[s])
      /\ pools' = [pools EXCEPT ![s] = P]
      /\ accountRecords' = [accountRecords EXCEPT ![s] = R]
      /\ custody' \in [Tokens -> Nat]
      /\ UNCHANGED <<block, market, tokenToPoolSeq, rdsSupply, mined>>
    BY <1>2 DEF OpenPool
<1> HIDE DEF P, R
<1>5. QED
    BY <1>1, <1>2, <1>3, <1>4, OpeningStep

LEMMA UpdateLendingPowerStep ==
    ASSUME IInv, NEW m \in Markets, NEW a \in Accounts, NEW power \in Nat,
           UpdateLendingPower(m, a, power)
    PROVE  IInv' /\ RewardKept
<1> DEFINE s == tokenToPoolSeq[m]
           P == UpdatePool(pools[s])
           Q == AddPower(P, power - accountRecords[s][a].power)
           R == [accountRecords[s] EXCEPT ![a] = SetPower(accountRecords[s][a], P.rewardIndex, power)]
<1>1. s \in PoolIds /\ CanUpdatePool(pools[s]) /\ Halve({s}) /\ Credit({s})
    BY DEF UpdateLendingPower, IsPoolActive
<1>2. a \in Holders /\ block \in Nat /\ accountRecords[s] \in [Holders -> AccountRecord]
    BY <1>1, PoolTypes DEF Holders, IInv, TypeOK
<1>3. /\ P \in Pool /\ PoolOK(P, accountRecords[s], block)
      /\ P.state = pools[s].state /\ P.weight = pools[s].weight
    BY <1>1, Updated
<1>4. /\ pools' = [pools EXCEPT ![s] = Q]
      /\ accountRecords' = [accountRecords EXCEPT ![s] = R]
      /\ UNCHANGED <<block, market, tokenToPoolSeq, mineStartBlock, registry, rdsSupply, custody>>
    BY DEF UpdateLendingPower
<1> HIDE DEF P, s
<1>5. /\ R \in [Holders -> AccountRecord] /\ Q \in Pool /\ PoolOK(Q, R, block)
      /\ Q.rewardIndex = P.rewardIndex /\ Q.state = P.state /\ Q.weight = P.weight
      /\ Kept(accountRecords[s], R, P.rewardIndex)
    BY <1>2, <1>3, PowerSet
<1>6. rdsSupply' \in Nat /\ rdsSupply' <= MaxSupply /\ custody' \in [Tokens -> Nat]
    BY <1>4 DEF IInv, TypeOK
<1> HIDE DEF Q, R
<1>7. QED
    BY <1>1, <1>3, <1>4, <1>5, <1>6, MiningStep

\* The pool a deposit goes to.
LEMMA EnteredPool ==
    ASSUME IInv, NEW s \in PoolIds, Enter(s)
    PROVE  LET P == Entered(s)
           IN  /\ P \in Pool /\ PoolOK(P, accountRecords[s], block)
               /\ P.weight = pools[s].weight
               /\ P.state = IF Opening(s) THEN "ACTIVE" ELSE pools[s].state
<1>1. CASE Opening(s)
    <2>1. CanOpen(pools[s]) /\ Entered(s) = OpenedPool(pools[s])
        BY <1>1 DEF Enter, Entered
    <2>2. QED
        BY <1>1, <2>1, Opened
<1>2. CASE ~Opening(s)
    <2>1. CanUpdatePool(pools[s]) /\ Entered(s) = UpdatePool(pools[s])
        BY <1>2 DEF Enter, Entered
    <2>2. QED
        BY <1>2, <2>1, Updated
<1>3. QED
    BY <1>1, <1>2

\* What a deposit has to show: it opens the pool, or mines in it.
LEMMA EnterStep ==
    ASSUME IInv, NEW s \in PoolIds, Enter(s),
           NEW P \in Pool, NEW R \in [Holders -> AccountRecord],
           PoolOK(P, R, block), Kept(accountRecords[s], R, P.rewardIndex),
           P.state = Entered(s).state, P.weight = Entered(s).weight,
           pools' = [pools EXCEPT ![s] = P],
           accountRecords' = [accountRecords EXCEPT ![s] = R],
           custody' \in [Tokens -> Nat],
           UNCHANGED <<block, market, tokenToPoolSeq, rdsSupply>>
    PROVE  IInv' /\ RewardKept
<1>1. /\ P.weight = pools[s].weight
      /\ P.state = IF Opening(s) THEN "ACTIVE" ELSE pools[s].state
    BY EnteredPool
<1>2. rdsSupply' \in Nat /\ rdsSupply' <= MaxSupply
    BY DEF IInv, TypeOK
<1>3. CASE Opening(s)
    <2>1. CanOpen(pools[s]) /\ OpenRegistry(pools[s]) /\ UNCHANGED mined
        BY <1>3 DEF Enter
    <2>2. P.state = "ACTIVE"
        BY <1>1, <1>3
    <2>3. QED
        BY <1>1, <2>1, <2>2, OpeningStep
<1>4. CASE ~Opening(s)
    <2>1. /\ CanUpdatePool(pools[s]) /\ Halve({s}) /\ Credit({s})
          /\ UNCHANGED <<mineStartBlock, registry>>
        BY <1>4 DEF Enter
    <2>2. P.state = pools[s].state
        BY <1>1, <1>4
    <2>3. QED
        BY <1>1, <1>2, <2>1, <2>2, MiningStep
<1>5. QED
    BY <1>3, <1>4

LEMMA MintExchangingPoolStep ==
    ASSUME IInv, NEW s \in PoolIds, NEW a \in Accounts, NEW amount \in Nat, NEW received \in Nat,
           MintExchangingPool(s, a, amount, received)
    PROVE  IInv' /\ RewardKept
<1> DEFINE P == Entered(s)
           power == received + accountRecords[s][a].power
           Q == AddPower(P, power - accountRecords[s][a].power)
           R == [accountRecords[s] EXCEPT ![a] = SetPower(accountRecords[s][a], P.rewardIndex, power)]
<1>1. /\ a \in Holders /\ block \in Nat /\ accountRecords[s] \in [Holders -> AccountRecord]
      /\ pools[s] \in Pool
    BY PoolTypes DEF Holders, IInv, TypeOK
<1>2. accountRecords[s][a].power \in Nat /\ power \in Nat
    BY <1>1 DEF AccountRecord
<1>3. /\ Enter(s)
      /\ pools' = [pools EXCEPT ![s] = AddPower(P, received)]
      /\ accountRecords' = [accountRecords EXCEPT ![s] = R]
      /\ custody' = [custody EXCEPT ![pools[s].tokenAddr] = @ + received]
      /\ UNCHANGED <<block, market, tokenToPoolSeq, rdsSupply>>
    BY DEF MintExchangingPool, Credited
<1>4. P \in Pool /\ PoolOK(P, accountRecords[s], block)
    BY <1>3, EnteredPool
<1>5. power - accountRecords[s][a].power = received
    BY <1>2
<1> HIDE DEF P
<1>6. pools' = [pools EXCEPT ![s] = Q]
    BY <1>3, <1>5
<1> HIDE DEF power
<1>7. /\ R \in [Holders -> AccountRecord] /\ Q \in Pool /\ PoolOK(Q, R, block)
      /\ Q.rewardIndex = P.rewardIndex /\ Q.state = P.state /\ Q.weight = P.weight
      /\ Kept(accountRecords[s], R, P.rewardIndex)
    BY <1>1, <1>2, <1>4, PowerSet
<1>8. custody' \in [Tokens -> Nat]
    BY <1>1, <1>3, CustodyGrows
<1> HIDE DEF Q, R
<1>9. Q.state = Entered(s).state /\ Q.weight = Entered(s).weight
    BY <1>7 DEF P
<1>10. QED
    BY <1>3, <1>6, <1>7, <1>8, <1>9, EnterStep

\* claimInternal mints within the cap.
LEMMA ClaimSupply ==
    ASSUME IInv, NEW s \in PoolIds, NEW a \in Accounts, NEW pool, ClaimInternal(s, a, pool),
           Claimable(accountRecords[s][a], pool.rewardIndex) \in Nat
    PROVE  rdsSupply' \in Nat /\ rdsSupply' <= MaxSupply
BY DEF ClaimInternal, CanClaim, IInv, TypeOK

LEMMA ClaimStep ==
    ASSUME IInv, NEW s \in PoolIds, NEW a \in Accounts, Claim(s, a)
    PROVE  IInv' /\ RewardKept
<1> DEFINE P == UpdatePool(pools[s])
           R == [accountRecords[s] EXCEPT ![a] = ClaimRecord(accountRecords[s][a], P.rewardIndex)]
<1>1. /\ a \in Holders /\ block \in Nat /\ accountRecords[s] \in [Holders -> AccountRecord]
    BY PoolTypes DEF Holders, IInv, TypeOK
<1>2. CanUpdatePool(pools[s]) /\ Halve({s}) /\ Credit({s}) /\ ClaimInternal(s, a, P)
    BY DEF Claim, ClaimInternal, CanClaim
<1>3. /\ P \in Pool /\ PoolOK(P, accountRecords[s], block)
      /\ P.state = pools[s].state /\ P.weight = pools[s].weight
    BY <1>2, Updated
<1>4. /\ pools' = [pools EXCEPT ![s] = P]
      /\ accountRecords' = [accountRecords EXCEPT ![s] = R]
      /\ UNCHANGED <<block, market, tokenToPoolSeq, mineStartBlock, registry, custody>>
    BY DEF Claim
<1> HIDE DEF P
<1>5. /\ R \in [Holders -> AccountRecord] /\ PoolOK(P, R, block)
      /\ Kept(accountRecords[s], R, P.rewardIndex)
      /\ Claimable(accountRecords[s][a], P.rewardIndex) \in Nat
    BY <1>1, <1>3, ClaimSet
<1>6. rdsSupply' \in Nat /\ rdsSupply' <= MaxSupply
    BY <1>2, <1>5, ClaimSupply
<1>7. custody' \in [Tokens -> Nat]
    BY <1>4 DEF IInv, TypeOK
<1> HIDE DEF R
<1>8. QED
    BY <1>2, <1>3, <1>4, <1>5, <1>6, <1>7, MiningStep

\* claimInternal followed by updatePower(.., 0)
LEMMA ExitSet ==
    ASSUME NEW P \in Pool, NEW R \in [Holders -> AccountRecord], NEW now \in Nat,
           PoolOK(P, R, now), NEW a \in Holders
    PROVE  LET S == [R EXCEPT ![a] =
                        SetPower(ClaimRecord(R[a], P.rewardIndex), P.rewardIndex, 0)]
               Q == AddPower(P, -R[a].power)
           IN  /\ S \in [Holders -> AccountRecord] /\ S[a].power = 0
               /\ Q \in Pool /\ PoolOK(Q, S, now)
               /\ Q.rewardIndex = P.rewardIndex
               /\ Q.state = P.state /\ Q.weight = P.weight
               /\ Q.tokenAddr = P.tokenAddr
               /\ Kept(R, S, P.rewardIndex)
               /\ Claimable(R[a], P.rewardIndex) \in Nat
<1> DEFINE index == P.rewardIndex
           S == [R EXCEPT ![a] = SetPower(ClaimRecord(R[a], index), index, 0)]
<1>1. PICK C :
        /\ C \in [Holders -> AccountRecord]
        /\ C = [R EXCEPT ![a] = ClaimRecord(R[a], index)]
        /\ PoolOK(P, C, now) /\ C[a] = ClaimRecord(R[a], index)
        /\ C[a].power = R[a].power /\ Kept(R, C, index)
        /\ Claimable(R[a], index) \in Nat
    BY ClaimSet
<1>2. PICK none \in Nat : none = 0
    OBVIOUS
<1> DEFINE T == [C EXCEPT ![a] = SetPower(C[a], index, none)]
           Q == AddPower(P, none - C[a].power)
<1>3. /\ T \in [Holders -> AccountRecord] /\ T[a].power = none
      /\ Q \in Pool /\ PoolOK(Q, T, now)
      /\ Q.rewardIndex = index /\ Q.state = P.state /\ Q.weight = P.weight
      /\ Q.tokenAddr = P.tokenAddr
      /\ Kept(C, T, index)
    <2>1. C \in [Holders -> AccountRecord] /\ PoolOK(P, C, now)
        BY <1>1
    <2>2. P \in Pool /\ now \in Nat /\ a \in Holders /\ none \in Nat
        OBVIOUS
    <2>3. LET U == [C EXCEPT ![a] = SetPower(C[a], P.rewardIndex, none)]
               V == AddPower(P, none - C[a].power)
           IN  /\ U \in [Holders -> AccountRecord] /\ U[a].power = none
               /\ V \in Pool /\ PoolOK(V, U, now)
               /\ V.rewardIndex = P.rewardIndex
               /\ V.state = P.state /\ V.weight = P.weight
               /\ V.tokenAddr = P.tokenAddr /\ V.ptype = P.ptype
               /\ Kept(C, U, P.rewardIndex)
        BY <2>1, <2>2, PowerSet, Zenon
    <2>4. QED
        BY <2>3
<1>4. T = S
    BY <1>1, <1>2
<1>5. Q = AddPower(P, -R[a].power)
    <2>1. R[a].power \in Nat
        BY DEF AccountRecord
    <2>2. none - C[a].power = -R[a].power
        BY <1>1, <1>2, <2>1
    <2>3. QED
        BY <2>2
<1> HIDE DEF T, Q
<1>6. Kept(R, T, index)
    BY <1>1, <1>3, KeptTrans
<1> HIDE DEF S
<1>7. QED
    BY <1>1, <1>2, <1>3, <1>4, <1>5, <1>6 DEF S

LEMMA ExitExchangingPoolStep ==
    ASSUME IInv, NEW s \in PoolIds, NEW a \in Accounts, ExitExchangingPool(s, a)
    PROVE  IInv' /\ RewardKept
<1> DEFINE P == UpdatePool(pools[s])
           amount == accountRecords[s][a].power
           Q == AddPower(P, -amount)
           R == [accountRecords[s] EXCEPT ![a] =
                    SetPower(ClaimRecord(accountRecords[s][a], P.rewardIndex), P.rewardIndex, 0)]
<1>1. /\ a \in Holders /\ block \in Nat /\ accountRecords[s] \in [Holders -> AccountRecord]
      /\ pools[s] \in Pool
    BY PoolTypes DEF Holders, IInv, TypeOK
<1>2. CanUpdatePool(pools[s]) /\ Halve({s}) /\ Credit({s}) /\ ClaimInternal(s, a, P)
    BY DEF ExitExchangingPool, CanExitExchangingPool, ClaimInternal, CanClaim
<1>3. /\ P \in Pool /\ PoolOK(P, accountRecords[s], block)
      /\ P.state = pools[s].state /\ P.weight = pools[s].weight
    BY <1>2, Updated
<1>4. /\ pools' = [pools EXCEPT ![s] = Q]
      /\ accountRecords' = [accountRecords EXCEPT ![s] = R]
      /\ custody[pools[s].tokenAddr] >= amount
      /\ custody' = [custody EXCEPT ![pools[s].tokenAddr] = @ - amount]
      /\ UNCHANGED <<block, market, tokenToPoolSeq, mineStartBlock, registry>>
    BY DEF ExitExchangingPool, CanExitExchangingPool
<1> HIDE DEF P
<1>5. /\ R \in [Holders -> AccountRecord]
      /\ Q \in Pool /\ PoolOK(Q, R, block)
      /\ Q.rewardIndex = P.rewardIndex /\ Q.state = P.state /\ Q.weight = P.weight
      /\ Kept(accountRecords[s], R, P.rewardIndex)
      /\ Claimable(accountRecords[s][a], P.rewardIndex) \in Nat
    BY <1>1, <1>3, ExitSet
<1>6. rdsSupply' \in Nat /\ rdsSupply' <= MaxSupply
    BY <1>2, <1>5, ClaimSupply
<1>7. custody' \in [Tokens -> Nat]
    <2>1. amount \in Nat
        BY <1>1 DEF AccountRecord
    <2>2. QED
        BY <1>1, <1>4, <2>1, CustodyShrinks
<1> HIDE DEF Q, R
<1>8. QED
    BY <1>2, <1>3, <1>4, <1>5, <1>6, <1>7, MiningStep

-----------------------------------------------------------------------------
(***************************************************************************)
(* The exchanging handlers on a lending pool: up to three changes of power *)
(* under one index.                                                        *)
(***************************************************************************)
\* From pool P with records R to pool Q with records S, under one index.
Moved(P, R, Q, S, now) ==
    /\ S \in [Holders -> AccountRecord]
    /\ Q \in Pool /\ PoolOK(Q, S, now)
    /\ Q.rewardIndex = P.rewardIndex
    /\ Q.state = P.state /\ Q.weight = P.weight
    /\ Kept(R, S, P.rewardIndex)

LEMMA MovedTrans ==
    ASSUME NEW P, NEW R, NEW Q, NEW S, NEW V, NEW T, NEW now,
           Moved(P, R, Q, S, now), Moved(Q, S, V, T, now)
    PROVE  Moved(P, R, V, T, now)
<1>1. Kept(R, S, P.rewardIndex) /\ Kept(S, T, P.rewardIndex)
    BY DEF Moved
<1>2. Kept(R, T, P.rewardIndex)
    BY <1>1, KeptTrans
<1>3. QED
    BY <1>2 DEF Moved

LEMMA PowerMoved ==
    ASSUME NEW P \in Pool, NEW R \in [Holders -> AccountRecord], NEW now \in Nat,
           PoolOK(P, R, now), NEW a \in Holders, NEW power \in Nat
    PROVE  Moved(P, R, AddPower(P, power - R[a].power),
                 [R EXCEPT ![a] = SetPower(R[a], P.rewardIndex, power)], now)
<1>1. LET S == [R EXCEPT ![a] = SetPower(R[a], P.rewardIndex, power)]
          Q == AddPower(P, power - R[a].power)
      IN  /\ S \in [Holders -> AccountRecord] /\ S[a].power = power
          /\ Q \in Pool /\ PoolOK(Q, S, now)
          /\ Q.rewardIndex = P.rewardIndex
          /\ Q.state = P.state /\ Q.weight = P.weight
          /\ Q.tokenAddr = P.tokenAddr /\ Q.ptype = P.ptype
          /\ Kept(R, S, P.rewardIndex)
    BY PowerSet, Zenon
<1> DEFINE S == [R EXCEPT ![a] = SetPower(R[a], P.rewardIndex, power)]
           Q == AddPower(P, power - R[a].power)
<1>2. /\ S \in [Holders -> AccountRecord]
      /\ Q \in Pool /\ PoolOK(Q, S, now)
      /\ Q.rewardIndex = P.rewardIndex
      /\ Q.state = P.state /\ Q.weight = P.weight
      /\ Kept(R, S, P.rewardIndex)
    BY <1>1
<1> HIDE DEF S, Q
<1>3. Moved(P, R, Q, S, now)
    BY <1>2 DEF Moved
<1>4. QED
    BY <1>3 DEF S, Q

LEMMA AddPowerTwice ==
    ASSUME NEW p \in Pool, NEW x \in Int, NEW y \in Int
    PROVE  AddPower(AddPower(p, x), y) = AddPower(p, x + y)
<1> DEFINE q == AddPower(p, x)
           v == AddPower(q, y)
           w == AddPower(p, x + y)
           fields == {"ptype", "tokenAddr", "state", "rewardIndex", "lastBlockNumber",
                      "accumulatedTokens", "totalPower", "startBlock", "weight"}
<1>1. p.accumulatedPower \in Int
    BY DEF Pool
<1>2. q \in Pool /\ q.accumulatedPower = p.accumulatedPower + x
    BY DEF AddPower, Pool
<1>3. \A f \in fields : q[f] = p[f]
    BY DEF AddPower, Pool
<1> HIDE DEF q
<1>4. v \in Pool /\ v.accumulatedPower = q.accumulatedPower + y
    BY <1>2 DEF AddPower, Pool
<1>5. \A f \in fields : v[f] = q[f]
    BY <1>2 DEF AddPower, Pool
<1>6. w \in Pool /\ w.accumulatedPower = p.accumulatedPower + (x + y)
    BY DEF AddPower, Pool
<1>7. \A f \in fields : w[f] = p[f]
    BY DEF AddPower, Pool
<1> HIDE DEF v, w
<1>8. v.accumulatedPower = w.accumulatedPower
    BY <1>1, <1>2, <1>4, <1>6
<1>9. v = w
    BY <1>3, <1>4, <1>5, <1>6, <1>7, <1>8 DEF Pool
<1>10. QED
    BY <1>9 DEF q, v, w

\* Two accounts change their power, one of them twice.
LEMMA TwoMoved ==
    ASSUME NEW P \in Pool, NEW R \in [Holders -> AccountRecord], NEW now \in Nat,
           PoolOK(P, R, now), NEW a \in Holders, NEW b \in Holders, a # b,
           NEW x \in Nat, NEW y \in Nat
    PROVE  Moved(P, R, AddPower(P, (x - R[a].power) + (y - R[b].power)),
                 [R EXCEPT ![a] = SetPower(R[a], P.rewardIndex, x),
                           ![b] = SetPower(R[b], P.rewardIndex, y)], now)
<1> DEFINE S == [R EXCEPT ![a] = SetPower(R[a], P.rewardIndex, x)]
           Q == AddPower(P, x - R[a].power)
           T == [S EXCEPT ![b] = SetPower(S[b], Q.rewardIndex, y)]
           V == AddPower(Q, y - S[b].power)
           U == [R EXCEPT ![a] = SetPower(R[a], P.rewardIndex, x),
                          ![b] = SetPower(R[b], P.rewardIndex, y)]
           W == AddPower(P, (x - R[a].power) + (y - R[b].power))
<1>1. Moved(P, R, Q, S, now)
    BY PowerMoved
<1>2. S[b] = R[b] /\ R[a].power \in Nat /\ R[b].power \in Nat
    BY DEF AccountRecord
<1>3. T = U
    <2>1. Q.rewardIndex = P.rewardIndex
        BY <1>1 DEF Moved
    <2>2. QED
        BY <1>2, <2>1
<1>4. V = W
    BY <1>2, AddPowerTwice
<1> HIDE DEF S, Q, U, W
<1>5. Q \in Pool /\ S \in [Holders -> AccountRecord] /\ PoolOK(Q, S, now)
    BY <1>1 DEF Moved
<1>6. Moved(Q, S, V, T, now)
    BY <1>5, PowerMoved
<1>7. Moved(P, R, V, T, now)
    BY <1>1, <1>6, MovedTrans
<1> HIDE DEF T, V
<1>8. Moved(P, R, W, U, now)
    BY <1>3, <1>4, <1>7
<1>9. QED
    BY <1>8 DEF W, U

\* The callbacks of a deposit into a lending pool, and the deposit itself.
LEMMA DepositMoved ==
    ASSUME NEW P \in Pool, NEW R \in [Holders -> AccountRecord], NEW now \in Nat,
           PoolOK(P, R, now), NEW a \in Holders, NEW b \in Holders, a # b,
           NEW x \in Nat, NEW y \in Nat, NEW z \in Nat
    PROVE  LET S == [R EXCEPT ![a] = SetPower(R[a], P.rewardIndex, x),
                              ![b] = SetPower(SetPower(R[b], P.rewardIndex, y), P.rewardIndex, z)]
           IN  Moved(P, R, AddPower(P, (x - R[a].power) + (z - R[b].power)), S, now)
<1> DEFINE S == [R EXCEPT ![a] = SetPower(R[a], P.rewardIndex, x),
                          ![b] = SetPower(R[b], P.rewardIndex, y)]
           Q == AddPower(P, (x - R[a].power) + (y - R[b].power))
           T == [S EXCEPT ![b] = SetPower(S[b], Q.rewardIndex, z)]
           V == AddPower(Q, z - S[b].power)
           U == [R EXCEPT ![a] = SetPower(R[a], P.rewardIndex, x),
                          ![b] = SetPower(SetPower(R[b], P.rewardIndex, y), P.rewardIndex, z)]
           W == AddPower(P, (x - R[a].power) + (z - R[b].power))
<1>1. Moved(P, R, Q, S, now)
    BY TwoMoved
<1>2. /\ R[a].power \in Nat /\ R[b].power \in Nat /\ R[b] \in AccountRecord
      /\ S[b] = SetPower(R[b], P.rewardIndex, y)
      /\ P.rewardIndex \in Nat /\ Covered(R[b], P.rewardIndex)
    BY DEF AccountRecord, Pool, PoolOK
<1>3. S[b].power = y
    BY <1>2, SetPowerRecord
<1>4. T = U
    <2>1. Q.rewardIndex = P.rewardIndex
        BY <1>1 DEF Moved
    <2>2. QED
        BY <1>2, <2>1
<1>5. V = W
    <2> DEFINE u == (x - R[a].power) + (y - R[b].power)
               v == z - S[b].power
    <2>1. u + v = (x - R[a].power) + (z - R[b].power) /\ u \in Int /\ v \in Int
        BY <1>2, <1>3
    <2> HIDE DEF u, v
    <2>2. AddPower(AddPower(P, u), v) = AddPower(P, u + v)
        BY <2>1, AddPowerTwice
    <2>3. QED
        BY <2>1, <2>2 DEF u, v
<1> HIDE DEF S, Q, U, W
<1>6. Q \in Pool /\ S \in [Holders -> AccountRecord] /\ PoolOK(Q, S, now)
    BY <1>1 DEF Moved
<1>7. Moved(Q, S, V, T, now)
    BY <1>6, PowerMoved
<1>8. Moved(P, R, V, T, now)
    BY <1>1, <1>7, MovedTrans
<1> HIDE DEF T, V
<1>9. Moved(P, R, W, U, now)
    BY <1>4, <1>5, <1>8
<1>10. QED
    BY <1>9 DEF W, U

\* The exit of an account, and the callbacks of the transfer that pays it.
LEMMA ExitMoved ==
    ASSUME NEW P \in Pool, NEW R \in [Holders -> AccountRecord], NEW now \in Nat,
           PoolOK(P, R, now), NEW a \in Holders, NEW b \in Holders, a # b,
           NEW x \in Nat, NEW y \in Nat
    PROVE  LET index == P.rewardIndex
               exited == SetPower(ClaimRecord(R[b], index), index, 0)
               S == [R EXCEPT ![a] = SetPower(R[a], index, x),
                              ![b] = SetPower(exited, index, y)]
           IN  Moved(P, R, AddPower(P, (y - R[b].power) + (x - R[a].power)), S, now)
<1> DEFINE index == P.rewardIndex
           exited == SetPower(ClaimRecord(R[b], index), index, 0)
           S == [R EXCEPT ![b] = exited]
           Q == AddPower(P, -R[b].power)
           T == [S EXCEPT ![a] = SetPower(S[a], Q.rewardIndex, x),
                          ![b] = SetPower(S[b], Q.rewardIndex, y)]
           V == AddPower(Q, (x - S[a].power) + (y - S[b].power))
           U == [R EXCEPT ![a] = SetPower(R[a], index, x), ![b] = SetPower(exited, index, y)]
           W == AddPower(P, (y - R[b].power) + (x - R[a].power))
<1>1. /\ S \in [Holders -> AccountRecord] /\ S[b].power = 0
      /\ Q \in Pool /\ PoolOK(Q, S, now)
      /\ Q.rewardIndex = P.rewardIndex
      /\ Q.state = P.state /\ Q.weight = P.weight
      /\ Kept(R, S, P.rewardIndex)
    <2>1. LET N == [R EXCEPT ![b] =
                        SetPower(ClaimRecord(R[b], P.rewardIndex), P.rewardIndex, 0)]
              M == AddPower(P, -R[b].power)
          IN  /\ N \in [Holders -> AccountRecord] /\ N[b].power = 0
              /\ M \in Pool /\ PoolOK(M, N, now)
              /\ M.rewardIndex = P.rewardIndex
              /\ M.state = P.state /\ M.weight = P.weight
              /\ M.tokenAddr = P.tokenAddr
              /\ Kept(R, N, P.rewardIndex)
              /\ Claimable(R[b], P.rewardIndex) \in Nat
        BY ExitSet, Zenon
    <2>2. QED
        BY <2>1
<1>2. /\ R[a].power \in Nat /\ R[b].power \in Nat
      /\ S[b] = exited /\ S[a] = R[a]
    BY DEF AccountRecord
<1>3. T = U
    BY <1>1, <1>2
<1>4. V = W
    <2>1. -R[b].power + ((x - S[a].power) + (y - S[b].power)) = (y - R[b].power) + (x - R[a].power)
        BY <1>1, <1>2
    <2>2. -R[b].power \in Int /\ (x - S[a].power) + (y - S[b].power) \in Int
        BY <1>1, <1>2
    <2>3. QED
        BY <2>1, <2>2, AddPowerTwice
<1> HIDE DEF S, Q, U, W
<1>5. Moved(P, R, Q, S, now)
    BY <1>1 DEF Moved
<1>6. Moved(Q, S, V, T, now)
    BY <1>1, TwoMoved
<1>7. Moved(P, R, V, T, now)
    BY <1>5, <1>6, MovedTrans
<1> HIDE DEF T, V
<1>8. Moved(P, R, W, U, now)
    BY <1>3, <1>4, <1>7
<1>9. QED
    BY <1>8 DEF W, U

LEMMA MintLendingPoolStep ==
    ASSUME IInv, NEW s \in PoolIds, NEW a \in Accounts, NEW amount \in Nat, NEW reported \in Nat,
           MintLendingPool(s, a, amount, reported)
    PROVE  IInv' /\ RewardKept
<1> DEFINE P == Entered(s)
           before == accountRecords[s]
           own == TokenPower * (custody[pools[s].tokenAddr] + amount)
           new == amount + reported
           Q == AddPower(P, (own - before[Self].power) + (new - before[a].power))
           R == [before EXCEPT
                    ![Self] = SetPower(before[Self], P.rewardIndex, own),
                    ![a] = SetPower(SetPower(before[a], P.rewardIndex, reported), P.rewardIndex, new)]
<1>1. /\ a \in Holders /\ Self \in Holders /\ a # Self
      /\ block \in Nat /\ before \in [Holders -> AccountRecord]
      /\ pools[s] \in Pool /\ pools[s].tokenAddr \in Tokens /\ s \in PoolSeqs
      /\ accountRecords \in [PoolSeqs -> [Holders -> AccountRecord]]
    BY PoolTypes DEF Holders, IInv, TypeOK, Pool, DistributorAssumption
<1>2. own \in Nat /\ new \in Nat
    <2>1. custody[pools[s].tokenAddr] + amount \in Nat
        BY <1>1 DEF IInv, TypeOK
    <2>2. QED
        BY <2>1, ProductType DEF DistributorAssumption
<1>3. pools' = [pools EXCEPT ![s] = Q]
    BY Zenon DEF MintLendingPool
<1>4. accountRecords' = [accountRecords EXCEPT
            ![s][Self] = SetPower(@, P.rewardIndex, own),
            ![s][a] = SetPower(SetPower(@, P.rewardIndex, reported), P.rewardIndex, new)]
    BY Zenon DEF MintLendingPool
<1>5. /\ Enter(s)
      /\ custody' = [custody EXCEPT ![pools[s].tokenAddr] = @ + amount]
      /\ UNCHANGED <<block, market, tokenToPoolSeq, rdsSupply>>
    BY DEF MintLendingPool
<1>6. P \in Pool /\ PoolOK(P, before, block)
    BY <1>5, EnteredPool
<1> HIDE DEF P
<1>7. accountRecords' = [accountRecords EXCEPT ![s] = R]
    BY <1>1, <1>4
<1> HIDE DEF own, new
<1>8. Moved(P, before, Q, R, block)
    BY <1>1, <1>2, <1>6, DepositMoved, Zenon
<1> HIDE DEF Q, R
<1>9. /\ R \in [Holders -> AccountRecord] /\ Q \in Pool /\ PoolOK(Q, R, block)
      /\ Q.state = Entered(s).state /\ Q.weight = Entered(s).weight
      /\ Kept(before, R, Q.rewardIndex)
    BY <1>8 DEF Moved, P
<1>10. custody' \in [Tokens -> Nat]
    BY <1>1, <1>5, CustodyGrows
<1>11. QED
    BY <1>3, <1>5, <1>7, <1>9, <1>10, EnterStep

LEMMA ExitLendingPoolStep ==
    ASSUME IInv, NEW s \in PoolIds, NEW a \in Accounts, NEW reported \in Nat,
           ExitLendingPool(s, a, reported)
    PROVE  IInv' /\ RewardKept
<1> DEFINE P == UpdatePool(pools[s])
           before == accountRecords[s]
           amount == before[a].power
           held == custody[pools[s].tokenAddr]
           own == TokenPower * (held - amount)
           exited == SetPower(ClaimRecord(before[a], P.rewardIndex), P.rewardIndex, 0)
           Q == AddPower(P, (reported - amount) + (own - before[Self].power))
           R == [before EXCEPT ![Self] = SetPower(before[Self], P.rewardIndex, own),
                               ![a] = SetPower(exited, P.rewardIndex, reported)]
           V == AddPower(P, -amount)
           T == [before EXCEPT ![a] = exited]
<1>1. /\ a \in Holders /\ Self \in Holders /\ a # Self
      /\ block \in Nat /\ before \in [Holders -> AccountRecord]
      /\ pools[s] \in Pool /\ pools[s].tokenAddr \in Tokens /\ s \in PoolSeqs
      /\ accountRecords \in [PoolSeqs -> [Holders -> AccountRecord]]
    BY PoolTypes DEF Holders, IInv, TypeOK, Pool, DistributorAssumption
<1>2. amount \in Nat
    BY <1>1 DEF AccountRecord
<1>3. /\ CanUpdatePool(pools[s]) /\ Halve({s}) /\ Credit({s}) /\ ClaimInternal(s, a, P)
      /\ held >= amount
      /\ custody' = [custody EXCEPT ![pools[s].tokenAddr] = @ - amount]
      /\ UNCHANGED <<block, market, tokenToPoolSeq, mineStartBlock, registry>>
    BY DEF ExitLendingPool, ClaimInternal, CanClaim
<1>4. \/ /\ pools' = [pools EXCEPT ![s] = Q]
         /\ accountRecords' = [accountRecords EXCEPT
                ![s][Self] = SetPower(@, P.rewardIndex, own),
                ![s][a] = SetPower(exited, P.rewardIndex, reported)]
      \/ /\ pools' = [pools EXCEPT ![s] = V]
         /\ accountRecords' = [accountRecords EXCEPT ![s][a] = exited]
    BY DEF ExitLendingPool
<1>5. /\ P \in Pool /\ PoolOK(P, before, block)
      /\ P.state = pools[s].state /\ P.weight = pools[s].weight
    BY <1>3, Updated
<1>6. own \in Nat
    <2>1. held - amount \in Nat
        BY <1>1, <1>2, <1>3 DEF IInv, TypeOK
    <2>2. QED
        BY <2>1, ProductType DEF DistributorAssumption
<1>7. rdsSupply' \in Nat /\ rdsSupply' <= MaxSupply
    <2>1. Claimable(before[a], P.rewardIndex) \in Nat
        BY <1>1, <1>5, ClaimSet
    <2>2. QED
        BY <1>3, <2>1, ClaimSupply
<1>8. custody' \in [Tokens -> Nat]
    BY <1>1, <1>2, <1>3, CustodyShrinks
<1> HIDE DEF P, own
<1>9. \/ pools' = [pools EXCEPT ![s] = Q] /\ accountRecords' = [accountRecords EXCEPT ![s] = R]
      \/ pools' = [pools EXCEPT ![s] = V] /\ accountRecords' = [accountRecords EXCEPT ![s] = T]
    BY <1>1, <1>4
<1>10. Moved(P, before, Q, R, block)
    BY <1>1, <1>5, <1>6, ExitMoved, Zenon
<1>11. Moved(P, before, V, T, block)
    <2>1. LET N == [before EXCEPT ![a] =
                        SetPower(ClaimRecord(before[a], P.rewardIndex), P.rewardIndex, 0)]
              M == AddPower(P, -before[a].power)
          IN  /\ N \in [Holders -> AccountRecord] /\ N[a].power = 0
              /\ M \in Pool /\ PoolOK(M, N, block)
              /\ M.rewardIndex = P.rewardIndex
              /\ M.state = P.state /\ M.weight = P.weight
              /\ M.tokenAddr = P.tokenAddr
              /\ Kept(before, N, P.rewardIndex)
              /\ Claimable(before[a], P.rewardIndex) \in Nat
        BY <1>1, <1>5, ExitSet, Zenon
    <2>2. QED
        BY <2>1 DEF Moved
<1> HIDE DEF Q, R, V, T
<1>12. \A W, U : Moved(P, before, W, U, block) =>
            /\ U \in [Holders -> AccountRecord] /\ W \in Pool /\ PoolOK(W, U, block)
            /\ W.state = pools[s].state /\ W.weight = pools[s].weight
            /\ Kept(before, U, W.rewardIndex)
    BY <1>5 DEF Moved
<1>13. CASE pools' = [pools EXCEPT ![s] = Q] /\ accountRecords' = [accountRecords EXCEPT ![s] = R]
    BY <1>3, <1>7, <1>8, <1>10, <1>12, <1>13, MiningStep
<1>14. CASE pools' = [pools EXCEPT ![s] = V] /\ accountRecords' = [accountRecords EXCEPT ![s] = T]
    BY <1>3, <1>7, <1>8, <1>11, <1>12, <1>14, MiningStep
<1>15. QED
    BY <1>9, <1>13, <1>14

-----------------------------------------------------------------------------
(***************************************************************************)
(* The steps of governance and of time.                                    *)
(***************************************************************************)
\* A new pool finds the records of its id as they were created.
LEMMA PushPoolStep ==
    ASSUME IInv, NEW t \in Tokens, NEW type \in PoolType, NEW weight \in Nat, NEW delay \in Nat,
           PushPool(t, type, weight, delay), UNCHANGED market
    PROVE  IInv' /\ RewardKept
<1> DEFINE n == Len(pools) + 1
           new == NewPool(t, type, weight, delay)
<1>1. /\ pools \in Seq(Pool) /\ Len(pools) \in Nat /\ n <= MaxPools /\ block \in Nat
      /\ PoolIds \subseteq PoolSeqs
    BY DEF PushPool, IInv, TypeOK, PoolIds, PoolSeqs, DistributorAssumption
<1>2. new \in Pool /\ new.state = "NOT_START" /\ new.lastBlockNumber = 0
      /\ new.totalPower + new.accumulatedPower = 0 /\ new.rewardIndex = 0
    BY <1>1 DEF NewPool, Pool, PoolState
<1>3. pools' = Append(pools, new) /\ tokenToPoolSeq' = [tokenToPoolSeq EXCEPT ![t] = n]
    BY DEF PushPool
<1> HIDE DEF new
<1>4. /\ pools' \in Seq(Pool) /\ Len(pools') = n /\ pools'[n] = new
      /\ \A q \in PoolIds : pools'[q] = pools[q]
    BY <1>1, <1>2, <1>3 DEF PoolIds
<1>5. /\ PoolIds' = PoolIds \cup {n} /\ n \notin PoolIds /\ n \in PoolSeqs
    BY <1>1, <1>4 DEF PoolIds, PoolSeqs
<1>6. accountRecords' = accountRecords /\ block' = block
    BY DEF PushPool
<1>7. TypeOK'
    <2>1. tokenToPoolSeq' \in [Tokens -> 0 .. MaxPools]
        BY <1>1, <1>3 DEF IInv, TypeOK, DistributorAssumption
    <2>2. QED
        BY <1>1, <1>4, <2>1 DEF IInv, TypeOK, PushPool, schedule, registry
<1>8. PoolsOK'
    <2>1. accountRecords[n] = [a \in Holders |-> NewRecord]
        BY <1>5 DEF IInv, UnusedFresh
    <2>2. \A a \in Holders : /\ accountRecords[n][a].mask = 0
                             /\ accountRecords[n][a].power = 0
        BY <2>1 DEF NewRecord
    <2>3. \A a \in Holders : Covered(accountRecords[n][a], 0)
        BY <2>2 DEF Covered
    <2>4. PowerOf(accountRecords[n]) \in [Holders -> Nat]
          /\ \A a \in Holders : PowerOf(accountRecords[n])[a] = 0
        BY <2>2 DEF PowerOf
    <2>5. Total(PowerOf(accountRecords[n])) = 0
        BY <2>4, TotalZero
    <2>6. PoolOK(new, accountRecords[n], block)
        BY <1>1, <1>2, <2>3, <2>5 DEF PoolOK
    <2>7. QED
        BY <1>4, <1>5, <1>6, <2>6 DEF PoolsOK, IInv
<1>9. UnusedFresh'
    BY <1>5, <1>6 DEF IInv, UnusedFresh, PoolSeqs
<1>10. RegistryOK'
    <2>1. ActiveIds' = ActiveIds
        BY <1>2, <1>4, <1>5 DEF ActiveIds
    <2>2. WeightLedger' = WeightLedger
        BY <1>2, <1>4, <1>5 DEF WeightLedger, ActiveWeight, PoolSeqs
    <2>3. QED
        BY <2>1, <2>2 DEF IInv, RegistryOK, PushPool, registry
<1>11. RewardKept
    BY <1>4, <1>6 DEF RewardKept
<1>12. QED
    BY <1>7, <1>8, <1>9, <1>10, <1>11 DEF IInv, PushPool

\* Every active pool is updated before one of them is closed.
LEMMA ClosePoolStep ==
    ASSUME IInv, NEW s, ClosePoolInternal(s), market' \in [Markets -> MarketState]
    PROVE  IInv' /\ RewardKept
<1>1. /\ pools \in Seq(Pool) /\ Len(pools) \in Nat /\ block \in Nat
      /\ PoolIds \subseteq PoolSeqs /\ ActiveIds \subseteq PoolIds /\ s \in ActiveIds
      /\ \A q \in ActiveIds : CanUpdatePool(pools[q])
    BY DEF ClosePoolInternal, ActiveIds, IInv, TypeOK, PoolIds, PoolSeqs, DistributorAssumption
<1>2. /\ pools' = [q \in PoolIds |->
                        IF q = s THEN [UpdatePool(pools[q]) EXCEPT !.state = "CLOSED"]
                        ELSE IF q \in ActiveIds THEN UpdatePool(pools[q]) ELSE pools[q]]
      /\ Halve(ActiveIds) /\ Credit(ActiveIds)
      /\ activePools' = activePools - 1
      /\ totalWeight' = totalWeight - pools[s].weight
      /\ UNCHANGED <<block, accountRecords, tokenToPoolSeq, mineStartBlock, rdsSupply, custody>>
    BY DEF ClosePoolInternal, ActiveIds
<1>3. ASSUME NEW q \in PoolIds
      PROVE  /\ pools'[q] \in Pool /\ PoolOK(pools'[q], accountRecords[q], block)
             /\ pools'[q].weight = pools[q].weight
             /\ pools'[q].state = IF q = s THEN "CLOSED" ELSE pools[q].state
    <2>1. /\ pools[q] \in Pool /\ PoolOK(pools[q], accountRecords[q], block)
        BY <1>1, PoolTypes DEF IInv, PoolsOK
    <2>2. CASE q \in ActiveIds
        <3> DEFINE P == UpdatePool(pools[q])
                   Q == [P EXCEPT !.state = "CLOSED"]
        <3>1. /\ P \in Pool /\ PoolOK(P, accountRecords[q], block)
              /\ P.state = pools[q].state /\ P.weight = pools[q].weight
            BY <1>1, <2>2, Updated
        <3>2. pools'[q] = IF q = s THEN Q ELSE P
            BY <1>2, <2>2
        <3> HIDE DEF P
        <3>3. /\ Q \in Pool /\ Q.state = "CLOSED" /\ Q.weight = P.weight
              /\ Q.rewardIndex = P.rewardIndex /\ Q.lastBlockNumber = P.lastBlockNumber
              /\ Q.totalPower = P.totalPower /\ Q.accumulatedPower = P.accumulatedPower
            BY <3>1 DEF Pool, PoolState
        <3> HIDE DEF Q
        <3>4. PoolOK(Q, accountRecords[q], block)
            BY <3>1, <3>3 DEF PoolOK
        <3>5. QED
            BY <3>1, <3>2, <3>3, <3>4
    <2>3. CASE q \notin ActiveIds
        BY <1>1, <1>2, <2>1, <2>3
    <2>4. QED
        BY <2>2, <2>3
<1>4. pools' \in Seq(Pool) /\ Len(pools') = Len(pools)
    <2>1. DOMAIN pools' = 1 .. Len(pools)
        BY <1>2 DEF PoolIds
    <2>2. pools' \in [1 .. Len(pools) -> Pool]
        BY <1>2, <1>3, <2>1 DEF PoolIds
    <2>3. QED
        BY <1>1, <2>2
<1>5. RegistryOK' /\ activePools' \in Nat /\ totalWeight' \in Nat
    <2>1. \A q \in PoolIds : pools'[q].weight = pools[q].weight
        BY <1>3
    <2>2. \A q \in PoolIds \ {s} : pools'[q].state = pools[q].state
        BY <1>3
    <2>3. pools'[s].state = "CLOSED"
        BY <1>1, <1>3
    <2>4. TypeOK /\ RegistryOK
        BY DEF IInv
    <2>5. QED
        BY <1>1, <1>2, <1>4, <2>1, <2>2, <2>3, <2>4, RegistryCloses
<1>6. PoolIds' = PoolIds
    BY <1>4 DEF PoolIds
<1>7. PoolsOK' /\ UnusedFresh'
    BY <1>2, <1>3, <1>6 DEF PoolsOK, UnusedFresh, IInv
<1>8. TypeOK'
    <2>1. /\ rewardsPerBlock' \in Nat /\ nextHalvingBlock' \in Nat
          /\ mined' \in [PoolSeqs -> Nat]
        BY <1>1, <1>2, Mining
    <2>2. QED
        BY <1>2, <1>4, <1>5, <2>1 DEF IInv, TypeOK
<1>9. RewardKept
    <2>1. ASSUME NEW q \in PoolIds, NEW a \in Holders
          PROVE  Received(accountRecords'[q][a], pools'[q].rewardIndex)
                   = Received(accountRecords[q][a], pools'[q].rewardIndex)
        BY <1>2
    <2>2. QED
        BY <2>1 DEF RewardKept
<1>10. QED
    BY <1>2, <1>5, <1>7, <1>8, <1>9 DEF IInv

\* The life cycle of a market, but for closing, leaves the Distributor alone.
LEMMA MoveMarketStep ==
    ASSUME IInv, NEW m \in Markets, NEW from, NEW to \in MarketState,
           MoveMarket(m, from, to), UNCHANGED <<block, distributorVars>>
    PROVE  IInv' /\ RewardKept
<1>1. market' \in [Markets -> MarketState]
    BY DEF MoveMarket, IInv, TypeOK
<1>2. UNCHANGED <<block, pools, accountRecords, tokenToPoolSeq, schedule, registry,
                  rdsSupply, custody, mined>>
    BY DEF distributorVars
<1>3. TypeOK'
    BY <1>1, <1>2 DEF IInv, TypeOK, schedule, registry
<1>4. PoolIds' = PoolIds /\ ActiveIds' = ActiveIds /\ WeightLedger' = WeightLedger
    BY <1>2 DEF PoolIds, ActiveIds, WeightLedger, ActiveWeight
<1>5. PoolsOK' /\ UnusedFresh' /\ RegistryOK'
    BY <1>2, <1>4 DEF IInv, PoolsOK, UnusedFresh, RegistryOK, registry
<1>6. RewardKept
    BY <1>2 DEF RewardKept
<1>7. QED
    BY <1>2, <1>3, <1>5, <1>6 DEF IInv

LEMMA NextBlockStep ==
    ASSUME IInv, NextBlock
    PROVE  IInv' /\ RewardKept
<1>1. /\ block' = block + 1 /\ block \in Nat
      /\ UNCHANGED <<market, pools, accountRecords, tokenToPoolSeq, schedule, registry,
                     rdsSupply, custody, mined>>
    BY DEF NextBlock, distributorVars, IInv, TypeOK
<1>2. TypeOK'
    BY <1>1 DEF IInv, TypeOK, schedule, registry
<1>3. PoolIds' = PoolIds /\ ActiveIds' = ActiveIds /\ WeightLedger' = WeightLedger
    BY <1>1 DEF PoolIds, ActiveIds, WeightLedger, ActiveWeight
<1>4. PoolsOK'
    <2>1. ASSUME NEW q \in PoolIds PROVE PoolOK(pools[q], accountRecords[q], block + 1)
        <3>1. PoolOK(pools[q], accountRecords[q], block) /\ pools[q].lastBlockNumber \in Nat
            BY PoolTypes DEF IInv, PoolsOK, Pool
        <3>2. pools[q].lastBlockNumber <= block + 1
            BY <1>1, <3>1 DEF PoolOK
        <3>3. QED
            BY <3>1, <3>2 DEF PoolOK
    <2>2. QED
        BY <1>1, <1>3, <2>1 DEF PoolsOK
<1>5. UnusedFresh' /\ RegistryOK'
    BY <1>1, <1>3 DEF IInv, UnusedFresh, RegistryOK, registry
<1>6. RewardKept
    BY <1>1 DEF RewardKept
<1>7. QED
    BY <1>1, <1>2, <1>4, <1>5, <1>6 DEF IInv

-----------------------------------------------------------------------------
(***************************************************************************)
(* The invariant is inductive.                                             *)
(***************************************************************************)
LEMMA InitInvariant ==
    ASSUME Init
    PROVE  IInv
<1>1. Len(pools) = 0 /\ PoolIds = {} /\ pools \in Seq(Pool)
    BY DEF Init, PoolIds
<1>2. TypeOK
    BY <1>1 DEF Init, TypeOK, AccountRecord, NewRecord, MarketState, DistributorAssumption
<1>3. UnusedFresh /\ PoolsOK
    BY <1>1 DEF Init, UnusedFresh, PoolsOK
<1>4. RegistryOK
    <2>1. \A q \in PoolSeqs : WeightLedger[q] = 0
        BY <1>1 DEF WeightLedger, ActiveWeight
    <2>2. Total(WeightLedger) = 0
        <3>1. WeightLedger \in [PoolSeqs -> Nat]
            BY <1>2, WeightLedgerType
        <3>2. QED
            BY <2>1, <3>1, TotalZero
    <2>3. ActiveIds = {} /\ Cardinality({}) = 0
        BY <1>1, FS_EmptySet DEF ActiveIds
    <2>4. QED
        BY <2>2, <2>3 DEF Init, RegistryOK
<1>5. QED
    BY <1>2, <1>3, <1>4 DEF Init, IInv, DistributorAssumption

LEMMA NextInvariant ==
    ASSUME IInv, Next
    PROVE  IInv' /\ RewardKept
<1>1. CASE NextBlock
    BY <1>1, NextBlockStep
<1>2. ASSUME NEW m \in Markets, SupportMarket(m) \/ LiquidateMarket(m) \/ RemoveMarket(m)
      PROVE  IInv' /\ RewardKept
    BY <1>2, MoveMarketStep DEF SupportMarket, LiquidateMarket, RemoveMarket, MarketState
<1>3. ASSUME NEW m \in Markets, CloseMarket(m)
      PROVE  IInv' /\ RewardKept
    <2>1. market' \in [Markets -> MarketState]
        BY <1>3 DEF CloseMarket, MoveMarket, IInv, TypeOK, MarketState
    <2>2. QED
        BY <1>3, <2>1, ClosePoolStep DEF CloseMarket
<1>4. ASSUME NEW m \in Markets, NEW w \in Weights, NEW d \in Delays, CreateLendingPool(m, w, d)
      PROVE  IInv' /\ RewardKept
    <2>1. m \in Tokens /\ w \in Nat /\ d \in Nat /\ "LENDING" \in PoolType
        BY DEF Tokens, PoolType, DistributorAssumption
    <2>2. PushPool(m, "LENDING", w, d) /\ UNCHANGED market
        BY <1>4 DEF CreateLendingPool, PushPool
    <2>3. QED
        BY <2>1, <2>2, PushPoolStep
<1>5. ASSUME NEW m \in Markets, NEW a \in Accounts, NEW p \in Powers, UpdateLendingPower(m, a, p)
      PROVE  IInv' /\ RewardKept
    BY <1>5, UpdateLendingPowerStep DEF DistributorAssumption
<1>6. ASSUME NEW t \in LpTokens, NEW w \in Weights, NEW d \in Delays, CreateExchangingPool(t, w, d)
      PROVE  IInv' /\ RewardKept
    <2>1. t \in Tokens /\ w \in Nat /\ d \in Nat /\ "EXCHANGING" \in PoolType
        BY DEF Tokens, PoolType, DistributorAssumption
    <2>2. PushPool(t, "EXCHANGING", w, d) /\ UNCHANGED market
        BY <1>6 DEF CreateExchangingPool, PushPool
    <2>3. QED
        BY <2>1, <2>2, PushPoolStep
<1>7. ASSUME NEW s \in PoolIds, OpenPool(s)
      PROVE  IInv' /\ RewardKept
    BY <1>7, OpenPoolStep
<1>8. ASSUME NEW s \in PoolIds, ClosePool(s)
      PROVE  IInv' /\ RewardKept
    <2>1. ClosePoolInternal(s) /\ market' \in [Markets -> MarketState]
        BY <1>8 DEF ClosePool, IInv, TypeOK
    <2>2. QED
        BY <2>1, ClosePoolStep
<1>9. ASSUME NEW s \in PoolIds, NEW a \in Accounts, Claim(s, a) \/ ExitExchangingPool(s, a)
      PROVE  IInv' /\ RewardKept
    BY <1>9, ClaimStep, ExitExchangingPoolStep
<1>10. ASSUME NEW s \in PoolIds, NEW a \in Accounts, NEW n \in Powers, NEW p \in Powers,
              \/ MintExchangingPool(s, a, n, p)
              \/ MintLendingPool(s, a, n, p)
              \/ ExitLendingPool(s, a, p)
       PROVE  IInv' /\ RewardKept
    <2>1. n \in Nat /\ p \in Nat
        BY DEF DistributorAssumption
    <2>2. QED
        BY <1>10, <2>1, MintExchangingPoolStep, MintLendingPoolStep, ExitLendingPoolStep
<1>11. QED
    BY <1>1, <1>2, <1>3, <1>4, <1>5, <1>6, <1>7, <1>8, <1>9, <1>10 DEF Next

\* A stuttering step changes neither the invariant nor a reward.
LEMMA StutterInvariant ==
    ASSUME IInv, UNCHANGED vars
    PROVE  IInv'
<1>1. UNCHANGED <<block, market, pools, accountRecords, tokenToPoolSeq, schedule, registry,
                  rdsSupply, custody, mined>>
    BY DEF vars
<1>2. TypeOK'
    BY <1>1 DEF IInv, TypeOK, schedule, registry
<1>3. PoolIds' = PoolIds /\ ActiveIds' = ActiveIds /\ WeightLedger' = WeightLedger
    BY <1>1 DEF PoolIds, ActiveIds, WeightLedger, ActiveWeight
<1>4. PoolsOK' /\ UnusedFresh' /\ RegistryOK'
    BY <1>1, <1>3 DEF IInv, PoolsOK, UnusedFresh, RegistryOK, registry
<1>5. QED
    BY <1>1, <1>2, <1>4 DEF IInv

\* IInv holds in every reachable state.
THEOREM Invariant == Spec => []IInv
<1>1. Init => IInv
    BY InitInvariant
<1>2. IInv /\ [Next]_vars => IInv'
    BY NextInvariant, StutterInvariant
<1>3. QED
    BY <1>1, <1>2, PTL DEF Spec

-----------------------------------------------------------------------------
\* Every variable keeps its type; a settlement and a mask are never negative,
\* so that no checked subtraction of the Distributor reverts.
THEOREM TypeCorrect == Spec => []TypeOK
<1>1. IInv => TypeOK
    BY DEF IInv
<1>2. QED
    BY <1>1, Invariant, PTL

\* The power of every pool is the sum of the powers of its accounts.
THEOREM PowerConserved == Spec => []PowerConservation
<1>1. IInv => PowerConservation
    BY DEF IInv, PoolsOK, PoolOK, PowerConservation, PowerOf, PowerLedger
<1>2. QED
    BY <1>1, Invariant, PTL

\* The mask of every record is covered by the index of its pool.
THEOREM MasksAreCovered == Spec => []MasksCovered
<1>1. IInv => MasksCovered
    BY DEF IInv, PoolsOK, PoolOK, MasksCovered, Covered
<1>2. QED
    BY <1>1, Invariant, PTL

\* totalWeight and activePools are those of the active pools.
THEOREM RegistryIsExact == Spec => []RegistryMatchesPools
<1>1. IInv => RegistryMatchesPools
    BY DEF IInv, RegistryOK, RegistryMatchesPools, WeightLedger, ActiveIds
<1>2. QED
    BY <1>1, Invariant, PTL

\* A step but for a closing leaves the total weight alone or raises it, and a
\* closing brings every active pool up to date (closePoolInternal).
LEMMA ClosingSettles ==
    ASSUME IInv, Next
    PROVE  OldSharesSettled
<1>1. totalWeight \in Nat /\ \A s \in PoolIds : pools[s] \in Pool /\ pools[s].weight \in Nat
    BY PoolTypes DEF IInv, TypeOK, Pool
<1>2. CASE totalWeight' = totalWeight
    BY <1>1, <1>2 DEF OldSharesSettled
<1>3. ASSUME NEW s \in PoolIds, OpenRegistry(pools[s])
      PROVE  OldSharesSettled
    BY <1>1, <1>3 DEF OpenRegistry, OldSharesSettled
<1>4. ASSUME NEW s, ClosePoolInternal(s)
      PROVE  OldSharesSettled
    <2>1. pools' = [q \in PoolIds |->
                        IF q = s THEN [UpdatePool(pools[q]) EXCEPT !.state = "CLOSED"]
                        ELSE IF pools[q].state = "ACTIVE" THEN UpdatePool(pools[q]) ELSE pools[q]]
        BY <1>4 DEF ClosePoolInternal
    <2>2. ASSUME NEW q \in PoolIds, pools'[q].state = "ACTIVE"
          PROVE  pools'[q].lastBlockNumber = block
        <3>1. [UpdatePool(pools[q]) EXCEPT !.state = "CLOSED"].state = "CLOSED"
            BY <1>1 DEF UpdatePool, Pool
        <3>2. q # s /\ pools[q].state = "ACTIVE" /\ pools'[q] = UpdatePool(pools[q])
            BY <2>1, <2>2, <3>1
        <3>3. QED
            BY <1>1, <3>2 DEF UpdatePool, Stale, Pool
    <2>3. QED
        BY <2>2 DEF OldSharesSettled
<1>5. ASSUME NEW s \in PoolIds, Enter(s)
      PROVE  OldSharesSettled
    BY <1>2, <1>3, <1>5 DEF Enter, registry
<1>6. ASSUME NEW m \in Markets,
             \/ SupportMarket(m) \/ CloseMarket(m) \/ LiquidateMarket(m) \/ RemoveMarket(m)
             \/ \E w \in Weights, d \in Delays : CreateLendingPool(m, w, d)
             \/ \E a \in Accounts, p \in Powers : UpdateLendingPower(m, a, p)
      PROVE  OldSharesSettled
    BY <1>2, <1>4, <1>6
    DEF SupportMarket, CloseMarket, LiquidateMarket, RemoveMarket, CreateLendingPool, PushPool,
        UpdateLendingPower, registry, distributorVars
<1>7. ASSUME NEW s \in PoolIds, NEW a \in Accounts,
             \/ Claim(s, a) \/ ExitExchangingPool(s, a)
             \/ \E p \in Powers : ExitLendingPool(s, a, p)
      PROVE  OldSharesSettled
    BY <1>2, <1>7 DEF Claim, ExitExchangingPool, ExitLendingPool, registry
<1>8. ASSUME NEW s \in PoolIds, NEW a \in Accounts, NEW n \in Powers, NEW p \in Powers,
             MintExchangingPool(s, a, n, p) \/ MintLendingPool(s, a, n, p)
      PROVE  OldSharesSettled
    BY <1>5, <1>8 DEF MintExchangingPool, MintLendingPool
<1>9. ASSUME NEW s \in PoolIds, OpenPool(s) \/ ClosePool(s)
      PROVE  OldSharesSettled
    BY <1>3, <1>4, <1>9 DEF OpenPool, ClosePool
<1>10. ASSUME NEW t \in LpTokens, NEW w \in Weights, NEW d \in Delays, CreateExchangingPool(t, w, d)
       PROVE  OldSharesSettled
    BY <1>2, <1>10 DEF CreateExchangingPool, PushPool, registry
<1>11. CASE NextBlock
    BY <1>2, <1>11 DEF NextBlock, distributorVars, registry
<1>12. QED
    BY <1>6, <1>7, <1>8, <1>9, <1>10, <1>11 DEF Next

\* No step earns or loses a reward but through the index of the pool, and no
\* block already over is shared out at the total weight that a closing leaves.
THEOREM RewardsAreKept == Spec => NoRetroactiveReward
<1>1. IInv /\ [Next]_vars => [RewardKept /\ OldSharesSettled]_vars
    BY NextInvariant, ClosingSettles
<1>2. QED
    BY <1>1, Invariant, PTL DEF Spec, NoRetroactiveReward
-----------------------------------------------------------------------------
(***************************************************************************)
(* A second invariant, on top of the first: a token has one pool, an open  *)
(* lending pool has a listed market, the LP tokens held are the power of   *)
(* their pool, and what a pool owes is covered by what was mined for it.   *)
(***************************************************************************)
PoolPower(p) == p.totalPower + p.accumulatedPower

\* What an account has been paid and is owed, in units of 1 / Mantissa
Owes(record, index) ==
    index * record.power - record.mask + Mantissa * (record.settled + record.claimed)

OwedBy(R, index) == [a \in Holders |-> Owes(R[a], index)]

Backed(p, R, credited) ==
    Total(OwedBy(R, p.rewardIndex)) + Mantissa * p.accumulatedTokens <= Mantissa * credited

Catalogued ==
    /\ \A s \in PoolIds : /\ tokenToPoolSeq[pools[s].tokenAddr] = s
                          /\ pools[s].ptype = "LENDING" => pools[s].tokenAddr \in Markets
    /\ \A t \in Tokens : tokenToPoolSeq[t] # 0 =>
            tokenToPoolSeq[t] \in PoolIds /\ pools[tokenToPoolSeq[t]].tokenAddr = t

LocksHeld ==
    /\ \A s \in PoolIds :
        pools[s].tokenAddr \in LpTokens => custody[pools[s].tokenAddr] = PoolPower(pools[s])
    /\ \A t \in LpTokens : tokenToPoolSeq[t] = 0 => custody[t] = 0

AllBacked == \A s \in PoolIds : Backed(pools[s], accountRecords[s], mined[s])

LedgerOK == Catalogued /\ OpenPoolListed /\ LocksHeld /\ AllBacked

\* A record that is settled under an index is not owed more than before.
Settles(record, new, index) ==
    /\ new \in AccountRecord /\ Covered(new, index)
    /\ Owes(new, index) <= Owes(record, index)

LEMMA OwesType ==
    ASSUME NEW r \in AccountRecord, NEW index \in Nat, Covered(r, index)
    PROVE  Owes(r, index) \in Nat
<1>1. r.power \in Nat /\ r.mask \in Nat /\ r.settled + r.claimed \in Nat
    BY DEF AccountRecord
<1>2. index * r.power - r.mask \in Nat
    BY <1>1, ProductType DEF Covered
<1>3. Mantissa * (r.settled + r.claimed) \in Nat
    BY <1>1, ProductType DEF DistributorAssumption
<1>4. QED
    BY <1>2, <1>3 DEF Owes

\* A settlement rounds down.
LEMMA EarnedBound ==
    ASSUME NEW r \in AccountRecord, NEW index \in Nat, Covered(r, index)
    PROVE  Mantissa * Earned(r, index) <= index * r.power - r.mask
<1>1. r.power \in Nat /\ r.mask \in Nat
    BY DEF AccountRecord
<1>2. PICK due \in Nat : due = index * r.power - r.mask
    BY <1>1, ProductType DEF Covered
<1>3. \A m \in Nat \ {0} : m * (due \div m) <= due
    BY <1>2
<1>4. QED
    BY <1>2, <1>3 DEF Earned, DistributorAssumption

LEMMA SetPowerSettles ==
    ASSUME NEW r \in AccountRecord, NEW index \in Nat, NEW power \in Nat, Covered(r, index)
    PROVE  Settles(r, SetPower(r, index, power), index)
<1> DEFINE new == SetPower(r, index, power)
<1>1. /\ r.power \in Nat /\ r.mask \in Nat /\ r.settled \in Nat /\ r.claimed \in Nat
      /\ r = [power |-> r.power, mask |-> r.mask, settled |-> r.settled, claimed |-> r.claimed]
    BY DEF AccountRecord
<1>2. new \in AccountRecord /\ Covered(new, index)
    BY SetPowerRecord
<1>3. index * power \in Nat /\ index * r.power \in Nat
    BY <1>1, ProductType
<1>4. CASE power < r.power
    <2> DEFINE earned == Earned(r, index)
    <2>1. earned \in Nat /\ Mantissa * earned <= index * r.power - r.mask
        BY EarnedType, EarnedBound
    <2>2. /\ new.mask = index * power /\ new.power = power
          /\ new.settled = earned + r.settled /\ new.claimed = r.claimed
        BY <1>1, <1>4 DEF SetPower
    <2> HIDE DEF new, earned
    <2>3. Mantissa * (new.settled + new.claimed)
            = Mantissa * earned + Mantissa * (r.settled + r.claimed)
        BY <1>1, <2>1, <2>2, ProductDistributes DEF DistributorAssumption
    <2>4. /\ Mantissa * earned \in Nat /\ Mantissa * (r.settled + r.claimed) \in Nat
        BY <1>1, <2>1, ProductType DEF DistributorAssumption
    <2>5. index * new.power - new.mask = 0
        BY <1>3, <2>2
    <2> DEFINE kept == Mantissa * (r.settled + r.claimed)
               paid == Mantissa * earned
    <2>6. Owes(new, index) = 0 + (paid + kept) /\ Owes(r, index) = (index * r.power - r.mask) + kept
        BY <2>3, <2>5 DEF Owes
    <2>7. kept \in Nat /\ paid \in Nat /\ paid <= index * r.power - r.mask
        BY <2>1, <2>4
    <2> HIDE DEF kept, paid
    <2>8. Owes(new, index) <= Owes(r, index)
        BY <1>1, <1>3, <2>6, <2>7
    <2>9. QED
        BY <1>2, <2>8 DEF Settles, new
<1>5. CASE ~(power < r.power)
    <2>1. /\ new.mask = r.mask + index * (power - r.power) /\ new.power = power
          /\ new.settled = r.settled /\ new.claimed = r.claimed
        BY <1>1, <1>5 DEF SetPower
    <2>2. power - r.power \in Nat /\ power = r.power + (power - r.power)
        BY <1>1, <1>5
    <2>3. /\ index * (power - r.power) \in Nat
          /\ index * power = index * r.power + index * (power - r.power)
        BY <1>1, <2>2, ProductType, ProductDistributes
    <2> HIDE DEF new
    <2>4. index * new.power - new.mask = index * r.power - r.mask
        BY <1>1, <1>3, <2>1, <2>3
    <2>5. Owes(new, index) = Owes(r, index)
        BY <2>1, <2>4 DEF Owes
    <2>6. Owes(r, index) \in Nat
        BY OwesType
    <2>7. QED
        BY <1>2, <2>5, <2>6 DEF Settles, new
<1>6. QED
    BY <1>4, <1>5

LEMMA ClaimSettles ==
    ASSUME NEW r \in AccountRecord, NEW index \in Nat, Covered(r, index)
    PROVE  Settles(r, ClaimRecord(r, index), index)
<1> DEFINE new == ClaimRecord(r, index)
           earned == Earned(r, index)
           kept == Mantissa * (r.settled + r.claimed)
           paid == Mantissa * earned
<1>1. /\ r.power \in Nat /\ r.mask \in Nat /\ r.settled \in Nat /\ r.claimed \in Nat
      /\ r = [power |-> r.power, mask |-> r.mask, settled |-> r.settled, claimed |-> r.claimed]
    BY DEF AccountRecord
<1>2. new \in AccountRecord /\ Covered(new, index)
    BY ClaimRecordRecord
<1>3. earned \in Nat /\ paid <= index * r.power - r.mask
    BY EarnedType, EarnedBound
<1>4. /\ new.mask = index * r.power /\ new.power = r.power
      /\ new.settled = 0 /\ new.claimed = r.claimed + (earned + r.settled)
    BY <1>1 DEF ClaimRecord, Claimable
<1> HIDE DEF new, earned
<1>5. new.settled + new.claimed = earned + (r.settled + r.claimed)
    BY <1>1, <1>3, <1>4
<1>6. Mantissa * (new.settled + new.claimed) = paid + kept
    BY <1>1, <1>3, <1>5, ProductDistributes DEF DistributorAssumption
<1>7. index * r.power \in Nat /\ kept \in Nat /\ paid \in Nat
    BY <1>1, <1>3, ProductType DEF DistributorAssumption
<1>8. index * new.power - new.mask = 0
    BY <1>4, <1>7
<1>9. Owes(new, index) = 0 + (paid + kept) /\ Owes(r, index) = (index * r.power - r.mask) + kept
    BY <1>6, <1>8 DEF Owes
<1> HIDE DEF kept, paid
<1>10. Owes(new, index) <= Owes(r, index)
    BY <1>1, <1>3, <1>7, <1>9
<1>11. QED
    BY <1>2, <1>10 DEF Settles, new

LEMMA SettlesTrans ==
    ASSUME NEW r \in AccountRecord, NEW n, NEW o, NEW index \in Nat, Covered(r, index),
           Settles(r, n, index), Settles(n, o, index)
    PROVE  Settles(r, o, index)
<1>1. Owes(r, index) \in Nat /\ Owes(n, index) \in Nat /\ Owes(o, index) \in Nat
    BY OwesType DEF Settles
<1>2. QED
    BY <1>1 DEF Settles

\* The records of one pool, settled under an index
Settled(R, S, index) ==
    /\ S \in [Holders -> AccountRecord]
    /\ \A a \in Holders : Covered(S[a], index) /\ Owes(S[a], index) <= Owes(R[a], index)

LEMMA SettledRecords ==
    ASSUME NEW R \in [Holders -> AccountRecord], NEW S \in [Holders -> AccountRecord],
           NEW index \in Nat, \A a \in Holders : Covered(R[a], index),
           \A a \in Holders : S[a] = R[a] \/ Settles(R[a], S[a], index)
    PROVE  Settled(R, S, index)
<1>1. \A a \in Holders : Owes(R[a], index) \in Nat
    BY OwesType
<1>2. ASSUME NEW a \in Holders
      PROVE  Covered(S[a], index) /\ Owes(S[a], index) <= Owes(R[a], index)
    BY <1>1 DEF Settles
<1>3. QED
    BY <1>2 DEF Settled

LEMMA OwedByType ==
    ASSUME NEW R \in [Holders -> AccountRecord], NEW index \in Nat,
           \A a \in Holders : Covered(R[a], index)
    PROVE  OwedBy(R, index) \in [Holders -> Nat] /\ Total(OwedBy(R, index)) \in Nat
<1>1. OwedBy(R, index) \in [Holders -> Nat]
    BY OwesType DEF OwedBy
<1>2. QED
    BY <1>1, HoldersFinite, TotalType

\* A settlement does not raise what the pool owes.
LEMMA SettledOwed ==
    ASSUME NEW R \in [Holders -> AccountRecord], NEW S, NEW index \in Nat,
           \A a \in Holders : Covered(R[a], index), Settled(R, S, index)
    PROVE  Total(OwedBy(S, index)) <= Total(OwedBy(R, index)) /\ Total(OwedBy(S, index)) \in Nat
<1>1. OwedBy(R, index) \in [Holders -> Nat] /\ OwedBy(S, index) \in [Holders -> Nat]
      /\ Total(OwedBy(S, index)) \in Nat
    BY OwedByType DEF Settled
<1>2. \A a \in Holders : OwedBy(S, index)[a] <= OwedBy(R, index)[a]
    BY DEF Settled, OwedBy
<1>3. QED
    BY <1>1, <1>2, HoldersFinite, TotalMonotone

\* When the index grows, the pool owes the growth for every unit of power.
LEMMA OwedGrows ==
    ASSUME NEW R \in [Holders -> AccountRecord], NEW index \in Nat, NEW growth \in Nat,
           \A a \in Holders : Covered(R[a], index)
    PROVE  Total(OwedBy(R, index + growth))
             <= Total(OwedBy(R, index)) + growth * Total(PowerOf(R))
<1> DEFINE share == [a \in Holders |-> growth * R[a].power]
           before == OwedBy(R, index)
           after == OwedBy(R, index + growth)
<1>1. \A a \in Holders : R[a].power \in Nat /\ R[a].mask \in Nat
    BY DEF AccountRecord
<1>2. share \in [Holders -> Nat] /\ PowerOf(R) \in [Holders -> Nat]
      /\ \A a \in Holders : share[a] = growth * PowerOf(R)[a]
    BY <1>1, ProductType DEF PowerOf
<1>3. \A a \in Holders : Covered(R[a], index + growth)
    <2>1. index + growth \in Nat /\ index <= index + growth
        OBVIOUS
    <2>2. QED
        BY <2>1, CoveredGrows
<1>4. before \in [Holders -> Nat] /\ after \in [Holders -> Nat]
    BY <1>3, OwedByType
<1>5. ASSUME NEW a \in Holders
      PROVE  after[a] = before[a] + share[a]
    <2> DEFINE kept == Mantissa * (R[a].settled + R[a].claimed)
               power == R[a].power
    <2>1. (index + growth) * power = index * power + growth * power
        BY <1>1
    <2>2. /\ index * power \in Nat /\ growth * power \in Nat /\ R[a].mask \in Nat
          /\ kept \in Nat
        BY <1>1, ProductType DEF AccountRecord, DistributorAssumption
    <2>3. /\ after[a] = (index + growth) * power - R[a].mask + kept
          /\ before[a] = index * power - R[a].mask + kept
          /\ share[a] = growth * power
        BY DEF OwedBy, Owes
    <2> HIDE DEF kept, power, after, before, share
    <2>4. QED
        BY <2>1, <2>2, <2>3
<1> HIDE DEF share, before, after
<1>6. Total(after) <= Total(before) + Total(share)
    BY <1>2, <1>4, <1>5, HoldersFinite, TotalPlus
<1>7. Total(share) <= growth * Total(PowerOf(R))
    BY <1>2, HoldersFinite, TotalTimes
<1>8. /\ Total(after) \in Nat /\ Total(before) \in Nat /\ Total(share) \in Nat
      /\ growth * Total(PowerOf(R)) \in Nat
    BY <1>2, <1>4, HoldersFinite, TotalType, ProductType
<1>9. QED
    BY <1>6, <1>7, <1>8 DEF after, before

\* updatePool hands out no more than was mined and set aside.
LEMMA UpdatedBacked ==
    ASSUME IInv, NEW s \in PoolIds, CanUpdatePool(pools[s]),
           Backed(pools[s], accountRecords[s], mined[s])
    PROVE  /\ PoolPower(UpdatePool(pools[s])) = PoolPower(pools[s])
           /\ Backed(UpdatePool(pools[s]), accountRecords[s],
                     mined[s] + TokenMinedWithin(pools[s]))
<1> DEFINE p == pools[s]
           R == accountRecords[s]
           P == UpdatePool(p)
           fresh == TokenMinedWithin(p)
<1>1. /\ p \in Pool /\ R \in [Holders -> AccountRecord]
      /\ PoolOK(p, R, block) /\ ScheduleType /\ block \in Nat /\ mined[s] \in Nat
    BY PoolTypes DEF IInv, PoolsOK, ScheduleType, TypeOK
<1>2. p.lastBlockNumber <= block
    BY <1>1 DEF PoolOK
<1>3. PoolPower(P) = PoolPower(p) /\ fresh \in Nat
    BY <1>1, <1>2, UpdatePoolPool DEF PoolPower
<1>4. /\ p.rewardIndex \in Nat /\ p.accumulatedTokens \in Nat /\ PoolPower(p) \in Int
    BY <1>1 DEF Pool, PoolPower
<1>5. CASE ~Stale(p)
    <2>1. P = p /\ fresh = 0
        BY <1>5 DEF UpdatePool, TokenMinedWithin
    <2>2. mined[s] + fresh = mined[s]
        BY <1>1, <2>1
    <2>3. QED
        BY <1>3, <2>1, <2>2
<1>6. CASE Stale(p)
    <2> DEFINE power == PoolPower(p)
               tokens == p.accumulatedTokens + fresh
               growth == IF power = 0 THEN 0 ELSE (tokens * Mantissa) \div power
               aside == IF power = 0 THEN tokens ELSE 0
    <2>1. power \in Nat
        BY <1>4, <1>6 DEF CanUpdatePool, PoolPower
    <2>2. tokens \in Nat /\ tokens * Mantissa \in Nat
        BY <1>3, <1>4, ProductType DEF DistributorAssumption
    <2>3. growth \in Nat /\ aside \in Nat /\ growth * power + Mantissa * aside <= Mantissa * tokens
        <3>1. CASE power = 0
            <4>1. growth = 0 /\ aside = tokens
                BY <3>1
            <4>2. Mantissa * tokens \in Nat
                BY <2>2, ProductType DEF DistributorAssumption
            <4> HIDE DEF growth, aside, power, tokens
            <4>3. growth * power = 0
                BY <3>1, <4>1
            <4>4. QED
                BY <2>2, <4>1, <4>2, <4>3
        <3>2. CASE power # 0
            <4>1. PICK sum \in Nat : sum = tokens * Mantissa
                BY <2>2
            <4>2. growth = sum \div power /\ aside = 0 /\ power \in Nat \ {0}
                BY <2>1, <3>2, <4>1
            <4> HIDE DEF growth, aside, power
            <4>3. growth \in Nat
                BY <4>2, QuotientType
            <4>4. growth * power <= sum
                BY <4>2
            <4>5. Mantissa * aside = 0 /\ Mantissa * tokens = sum /\ growth * power \in Nat
                BY <2>2, <4>1, <4>2, <4>3, ProductType DEF DistributorAssumption
            <4>6. QED
                BY <4>2, <4>3, <4>4, <4>5
        <3>3. QED
            BY <3>1, <3>2
    <2>4. P.rewardIndex = p.rewardIndex + growth /\ P.accumulatedTokens = aside
        <3> DEFINE index == IF power = 0 THEN p.rewardIndex
                            ELSE p.rewardIndex + (tokens * Mantissa) \div power
        <3>1. P = [p EXCEPT !.totalPower = power, !.accumulatedPower = 0, !.rewardIndex = index,
                            !.accumulatedTokens = aside, !.lastBlockNumber = block]
            BY <1>6 DEF UpdatePool, PoolPower
        <3>2. index = p.rewardIndex + growth
            BY <1>4
        <3> HIDE DEF p, P, index, aside, power, growth
        <3>3. P.rewardIndex = index /\ P.accumulatedTokens = aside
            BY <1>1, <3>1 DEF Pool
        <3>4. QED
            BY <3>2, <3>3
    <2> DEFINE owed == Total(OwedBy(R, p.rewardIndex))
               then == Total(OwedBy(R, p.rewardIndex + growth))
    <2>5. /\ \A a \in Holders : Covered(R[a], p.rewardIndex)
          /\ Total(PowerOf(R)) = power
        BY <1>1 DEF PoolOK, PoolPower
    <2>6. owed \in Nat /\ then <= owed + growth * power
        <3> HIDE DEF growth, power, p, R
        <3>1. QED
            BY <1>1, <1>4, <2>3, <2>5, OwedGrows, OwedByType
    <2>7. then \in Nat
        <3> HIDE DEF growth, power, p, R
        <3>1. p.rewardIndex + growth \in Nat /\ p.rewardIndex <= p.rewardIndex + growth
            BY <1>4, <2>3
        <3>2. \A a \in Holders : Covered(R[a], p.rewardIndex + growth)
            BY <1>1, <1>4, <2>5, <3>1, CoveredGrows
        <3>3. QED
            BY <1>1, <3>1, <3>2, OwedByType
    <2>8. owed + Mantissa * p.accumulatedTokens <= Mantissa * mined[s]
        BY DEF Backed
    <2> HIDE DEF growth, power, owed, then, aside
    <2>9. /\ Mantissa * tokens = Mantissa * p.accumulatedTokens + Mantissa * fresh
          /\ Mantissa * (mined[s] + fresh) = Mantissa * mined[s] + Mantissa * fresh
        BY <1>1, <1>3, <1>4, ProductDistributes DEF DistributorAssumption
    <2>10. /\ Mantissa * p.accumulatedTokens \in Nat /\ Mantissa * fresh \in Nat
           /\ Mantissa * mined[s] \in Nat /\ Mantissa * aside \in Nat /\ growth * power \in Nat
        BY <1>1, <1>3, <1>4, <2>1, <2>3, ProductType DEF DistributorAssumption
    <2> HIDE DEF fresh, tokens, p, P, R
    <2>11. then + Mantissa * aside <= Mantissa * (mined[s] + fresh)
        BY <2>3, <2>6, <2>7, <2>8, <2>9, <2>10
    <2>12. Backed(P, R, mined[s] + fresh)
        BY <2>4, <2>11 DEF Backed, then
    <2>13. QED
        BY <1>3, <2>12 DEF p, P, R, fresh
<1>7. QED
    BY <1>5, <1>6

-----------------------------------------------------------------------------
(***************************************************************************)
(* A step on one pool: the pool is brought up to date or opened, which     *)
(* gives a base; then the records are settled under its index and the      *)
(* power of the pool moves.                                                *)
(***************************************************************************)
SameToken(p, q) == q.tokenAddr = p.tokenAddr /\ q.ptype = p.ptype

Base(s, B) ==
    /\ B \in Pool /\ PoolOK(B, accountRecords[s], block)
    /\ SameToken(pools[s], B)
    /\ pools[s].state = "CLOSED" => B.state = "CLOSED"
    /\ PoolPower(B) = PoolPower(pools[s])
    /\ Backed(B, accountRecords[s], mined'[s])
    /\ mined'[s] \in Nat
    /\ \A q \in PoolIds \ {s} : mined'[q] = mined[q]

LEMMA UpdatedBase ==
    ASSUME IInv, AllBacked, NEW s \in PoolIds, CanUpdatePool(pools[s]), Credit({s})
    PROVE  Base(s, UpdatePool(pools[s]))
<1> DEFINE P == UpdatePool(pools[s])
<1>1. /\ P \in Pool /\ PoolOK(P, accountRecords[s], block) /\ P.state = pools[s].state
      /\ SameToken(pools[s], P)
    BY Updated DEF SameToken
<1>2. /\ PoolPower(P) = PoolPower(pools[s])
      /\ Backed(P, accountRecords[s], mined[s] + TokenMinedWithin(pools[s]))
    BY UpdatedBacked DEF AllBacked
<1>3. TokenMinedWithin(pools[s]) \in Nat
    BY PoolTypes, UpdatePoolPool DEF IInv, PoolsOK, PoolOK
<1> HIDE DEF P
<1>4. PoolIds \subseteq PoolSeqs /\ \A q \in PoolSeqs : mined[q] \in Nat
    BY PoolTypes DEF IInv, TypeOK
<1>5. /\ mined'[s] = mined[s] + TokenMinedWithin(pools[s])
      /\ mined'[s] \in Nat
      /\ \A q \in PoolIds \ {s} : mined'[q] = mined[q]
    BY <1>3, <1>4 DEF Credit
<1>6. QED
    BY <1>1, <1>2, <1>5 DEF Base, P

LEMMA OpenedBase ==
    ASSUME IInv, AllBacked, NEW s \in PoolIds, CanOpen(pools[s]), UNCHANGED mined
    PROVE  Base(s, OpenedPool(pools[s]))
<1> DEFINE P == OpenedPool(pools[s])
<1>1. /\ P \in Pool /\ PoolOK(P, accountRecords[s], block)
      /\ SameToken(pools[s], P)
    BY Opened DEF SameToken
<1>2. pools[s] \in Pool
    BY PoolTypes DEF IInv
<1>3. /\ P.rewardIndex = pools[s].rewardIndex /\ P.accumulatedTokens = pools[s].accumulatedTokens
      /\ P.totalPower = pools[s].totalPower /\ P.accumulatedPower = pools[s].accumulatedPower
    BY <1>2 DEF OpenedPool, Pool
<1>4. pools[s].state # "CLOSED" /\ mined[s] \in Nat
    BY PoolTypes DEF CanOpen, IInv, TypeOK
<1> HIDE DEF P
<1>5. Backed(P, accountRecords[s], mined[s]) /\ PoolPower(P) = PoolPower(pools[s])
    BY <1>3 DEF AllBacked, Backed, PoolPower
<1>6. QED
    BY <1>1, <1>4, <1>5 DEF Base, P

LEMMA EnteredBase ==
    ASSUME IInv, AllBacked, NEW s \in PoolIds, Enter(s)
    PROVE  Base(s, Entered(s))
<1>1. CASE Opening(s)
    <2>1. CanOpen(pools[s]) /\ UNCHANGED mined /\ Entered(s) = OpenedPool(pools[s])
        BY <1>1 DEF Enter, Entered
    <2>2. QED
        BY <2>1, OpenedBase
<1>2. CASE ~Opening(s)
    <2>1. CanUpdatePool(pools[s]) /\ Credit({s}) /\ Entered(s) = UpdatePool(pools[s])
        BY <1>2 DEF Enter, Entered
    <2>2. QED
        BY <2>1, UpdatedBase
<1>3. QED
    BY <1>1, <1>2

\* What a step on one pool has to show: the LP tokens held move with its power.
LocksMove(s, added) ==
    /\ pools[s].tokenAddr \in LpTokens =>
            custody'[pools[s].tokenAddr] = custody[pools[s].tokenAddr] + added
    /\ \A t \in LpTokens \ {pools[s].tokenAddr} : custody'[t] = custody[t]

LEMMA OnePoolStep ==
    ASSUME IInv, LedgerOK, NEW s \in PoolIds, NEW B, Base(s, B),
           NEW added \in Int, NEW R, Settled(accountRecords[s], R, B.rewardIndex),
           pools' = [pools EXCEPT ![s] = AddPower(B, added)],
           accountRecords' = [accountRecords EXCEPT ![s] = R],
           LocksMove(s, added),
           UNCHANGED <<market, tokenToPoolSeq>>
    PROVE  LedgerOK'
<1> DEFINE Q == AddPower(B, added)
<1>1. /\ B \in Pool /\ B.rewardIndex \in Nat /\ PoolPower(B) \in Int
      /\ \A a \in Holders : Covered(accountRecords[s][a], B.rewardIndex)
      /\ B.accumulatedTokens \in Nat
    BY DEF Base, PoolOK, Pool, PoolPower
<1>2. /\ Q.tokenAddr = B.tokenAddr /\ Q.ptype = B.ptype /\ Q.state = B.state
      /\ Q.rewardIndex = B.rewardIndex /\ Q.accumulatedTokens = B.accumulatedTokens
      /\ Q.totalPower + Q.accumulatedPower = B.totalPower + B.accumulatedPower + added
    BY <1>1 DEF AddPower, Pool
<1> HIDE DEF Q
<1>3. /\ SameToken(pools[s], Q)
      /\ pools[s].state = "CLOSED" => Q.state = "CLOSED"
      /\ PoolPower(Q) = PoolPower(pools[s]) + added
    BY <1>2 DEF Base, SameToken, PoolPower
<1>4. /\ pools \in Seq(Pool) /\ PoolIds \subseteq PoolSeqs
      /\ accountRecords \in [PoolSeqs -> [Holders -> AccountRecord]]
      /\ custody \in [Tokens -> Nat] /\ mined \in [PoolSeqs -> Nat]
    BY PoolTypes DEF IInv, TypeOK
<1>5. /\ PoolIds' = PoolIds /\ pools'[s] = Q /\ accountRecords'[s] = R
      /\ \A q \in PoolIds \ {s} :
            pools'[q] = pools[q] /\ accountRecords'[q] = accountRecords[q] /\ mined'[q] = mined[q]
    BY <1>4 DEF PoolIds, Q, Base
<1>6. \A q \in PoolIds : /\ SameToken(pools[q], pools'[q])
                         /\ pools[q].state = "CLOSED" => pools'[q].state = "CLOSED"
    BY <1>3, <1>5 DEF SameToken
<1>7. Catalogued'
    BY <1>5, <1>6 DEF LedgerOK, Catalogued, SameToken
<1>8. OpenPoolListed'
    BY <1>5, <1>6 DEF LedgerOK, OpenPoolListed, IsListedMarket, SameToken
<1>9. LocksHeld'
    <2>1. ASSUME NEW q \in PoolIds, pools[q].tokenAddr \in LpTokens
          PROVE  custody'[pools[q].tokenAddr] = PoolPower(pools'[q])
        <3>1. custody[pools[q].tokenAddr] = PoolPower(pools[q])
            BY <2>1 DEF LedgerOK, LocksHeld
        <3>2. CASE q = s
            BY <1>3, <1>5, <2>1, <3>1, <3>2 DEF LocksMove
        <3>3. CASE q # s
            <4>1. pools[q].tokenAddr # pools[s].tokenAddr
                BY <3>3 DEF LedgerOK, Catalogued
            <4>2. QED
                BY <1>5, <2>1, <3>1, <3>3, <4>1 DEF LocksMove
        <3>4. QED
            BY <3>2, <3>3
    <2>2. ASSUME NEW t \in LpTokens, tokenToPoolSeq[t] = 0
          PROVE  custody'[t] = 0
        <3>1. t # pools[s].tokenAddr /\ custody[t] = 0
            BY <2>2 DEF LedgerOK, Catalogued, LocksHeld, PoolIds
        <3>2. QED
            BY <3>1 DEF LocksMove
    <2>3. QED
        BY <1>5, <1>6, <2>1, <2>2 DEF LocksHeld, SameToken
<1>10. AllBacked'
    <2>1. Backed(Q, R, mined'[s])
        <3>1. Total(OwedBy(R, B.rewardIndex)) <= Total(OwedBy(accountRecords[s], B.rewardIndex))
              /\ Total(OwedBy(R, B.rewardIndex)) \in Nat
            BY <1>1, <1>4, SettledOwed
        <3>2. Total(OwedBy(accountRecords[s], B.rewardIndex)) \in Nat
            BY <1>1, <1>4, OwedByType
        <3>3. Total(OwedBy(accountRecords[s], B.rewardIndex)) + Mantissa * B.accumulatedTokens
                <= Mantissa * mined'[s]
            BY DEF Base, Backed
        <3>4. Mantissa * mined'[s] \in Nat
            BY ProductType DEF Base, DistributorAssumption
        <3>5. Mantissa * B.accumulatedTokens \in Nat
            BY <1>1, ProductType DEF DistributorAssumption
        <3>6. Total(OwedBy(R, B.rewardIndex)) + Mantissa * B.accumulatedTokens
                <= Total(OwedBy(accountRecords[s], B.rewardIndex)) + Mantissa * B.accumulatedTokens
            BY <3>1, <3>2, <3>5
        <3>7. QED
            BY <1>2, <3>1, <3>2, <3>3, <3>4, <3>5, <3>6 DEF Backed
    <2>2. QED
        BY <1>5, <2>1 DEF LedgerOK, AllBacked
<1>11. QED
    BY <1>7, <1>8, <1>9, <1>10 DEF LedgerOK

LEMMA AddNoPower ==
    ASSUME NEW p \in Pool
    PROVE  AddPower(p, 0) = p
<1>1. p.accumulatedPower + 0 = p.accumulatedPower
    BY DEF Pool
<1>2. QED
    BY <1>1 DEF AddPower, Pool

LEMMA BaseRecords ==
    ASSUME IInv, NEW s \in PoolIds, NEW B, Base(s, B)
    PROVE  /\ B \in Pool /\ B.rewardIndex \in Nat
           /\ accountRecords[s] \in [Holders -> AccountRecord]
           /\ \A a \in Holders : Covered(accountRecords[s][a], B.rewardIndex)
BY PoolTypes DEF IInv, Base, PoolOK, Pool

\* The records are settled when one of them is.
LEMMA OneRecord ==
    ASSUME IInv, NEW s \in PoolIds, NEW B, Base(s, B), NEW a \in Holders, NEW new,
           Settles(accountRecords[s][a], new, B.rewardIndex)
    PROVE  Settled(accountRecords[s], [accountRecords[s] EXCEPT ![a] = new], B.rewardIndex)
<1> DEFINE R == accountRecords[s]
           S == [R EXCEPT ![a] = new]
<1>1. /\ B.rewardIndex \in Nat /\ R \in [Holders -> AccountRecord]
      /\ \A b \in Holders : Covered(R[b], B.rewardIndex)
    BY BaseRecords
<1>2. new \in AccountRecord
    BY DEF Settles
<1>3. /\ S \in [Holders -> AccountRecord] /\ S[a] = new
      /\ \A b \in Holders \ {a} : S[b] = R[b]
    BY <1>1, <1>2
<1> HIDE DEF S
<1>4. \A b \in Holders : S[b] = R[b] \/ Settles(R[b], S[b], B.rewardIndex)
    BY <1>3
<1> HIDE DEF R
<1>5. Settled(R, S, B.rewardIndex)
    BY <1>1, <1>3, <1>4, SettledRecords
<1>6. QED
    BY <1>5 DEF R, S

\* ... or two.
LEMMA TwoRecords ==
    ASSUME IInv, NEW s \in PoolIds, NEW B, Base(s, B),
           NEW a \in Holders, NEW new, Settles(accountRecords[s][a], new, B.rewardIndex),
           NEW b \in Holders, NEW other, Settles(accountRecords[s][b], other, B.rewardIndex),
           a # b
    PROVE  Settled(accountRecords[s], [accountRecords[s] EXCEPT ![a] = new, ![b] = other],
                   B.rewardIndex)
<1> DEFINE R == accountRecords[s]
           S == [R EXCEPT ![a] = new, ![b] = other]
<1>1. /\ B.rewardIndex \in Nat /\ R \in [Holders -> AccountRecord]
      /\ \A c \in Holders : Covered(R[c], B.rewardIndex)
    BY BaseRecords
<1>2. new \in AccountRecord /\ other \in AccountRecord
    BY DEF Settles
<1>3. /\ S \in [Holders -> AccountRecord] /\ S[a] = new /\ S[b] = other
      /\ \A c \in Holders \ {a, b} : S[c] = R[c]
    BY <1>1, <1>2
<1> HIDE DEF S
<1>4. \A c \in Holders : S[c] = R[c] \/ Settles(R[c], S[c], B.rewardIndex)
    BY <1>3
<1> HIDE DEF R
<1>5. Settled(R, S, B.rewardIndex)
    BY <1>1, <1>3, <1>4, SettledRecords
<1>6. QED
    BY <1>5 DEF R, S

\* A step on the pool of a market touches no LP token.
LEMMA MarketLocks ==
    ASSUME NEW s, NEW added, pools[s].tokenAddr \in Markets,
           \A t \in Tokens \ {pools[s].tokenAddr} : custody'[t] = custody[t]
    PROVE  LocksMove(s, added)
BY DEF LocksMove, Tokens, DistributorAssumption

LEMMA OpenPoolLedger ==
    ASSUME IInv, LedgerOK, NEW s \in PoolIds, OpenPool(s)
    PROVE  LedgerOK'
<1> DEFINE B == OpenedPool(pools[s])
           R == accountRecords[s]
<1>1. Base(s, B)
    BY OpenedBase DEF OpenPool, LedgerOK
<1>2. B \in Pool /\ R \in [Holders -> AccountRecord] /\ B.rewardIndex \in Nat
      /\ \A a \in Holders : Covered(R[a], B.rewardIndex)
    BY <1>1, BaseRecords
<1>3. pools' = [pools EXCEPT ![s] = AddPower(B, 0)]
    BY <1>2, AddNoPower DEF OpenPool
<1>4. accountRecords' = [accountRecords EXCEPT ![s] = R] /\ UNCHANGED <<market, tokenToPoolSeq>>
    BY DEF OpenPool, IInv, TypeOK
<1>5. LocksMove(s, 0)
    BY DEF LocksMove, OpenPool, IInv, TypeOK, Tokens
<1> HIDE DEF B, R
<1>6. Settled(R, R, B.rewardIndex)
    BY <1>2, SettledRecords
<1>7. PICK none \in Int : none = 0
    OBVIOUS
<1>8. pools' = [pools EXCEPT ![s] = AddPower(B, none)] /\ LocksMove(s, none)
    BY <1>3, <1>5, <1>7
<1>9. QED
    BY <1>1, <1>4, <1>6, <1>8, OnePoolStep DEF R

LEMMA UpdateLendingPowerLedger ==
    ASSUME IInv, LedgerOK, NEW m \in Markets, NEW a \in Accounts, NEW power \in Nat,
           UpdateLendingPower(m, a, power)
    PROVE  LedgerOK'
<1> DEFINE s == tokenToPoolSeq[m]
           B == UpdatePool(pools[s])
           R == accountRecords[s]
           new == SetPower(R[a], B.rewardIndex, power)
           S == [R EXCEPT ![a] = new]
           added == power - R[a].power
<1>1. s \in PoolIds /\ CanUpdatePool(pools[s]) /\ Credit({s}) /\ a \in Holders
    BY DEF UpdateLendingPower, IsPoolActive, Holders
<1>2. Base(s, B)
    BY <1>1, UpdatedBase DEF LedgerOK
<1>3. /\ R \in [Holders -> AccountRecord] /\ B.rewardIndex \in Nat
      /\ \A b \in Holders : Covered(R[b], B.rewardIndex)
    BY <1>1, <1>2, BaseRecords
<1>4. R[a] \in AccountRecord /\ added \in Int
    BY <1>1, <1>3 DEF AccountRecord
<1>5. Settles(R[a], new, B.rewardIndex)
    BY <1>1, <1>3, <1>4, SetPowerSettles
<1>6. /\ pools' = [pools EXCEPT ![s] = AddPower(B, added)]
      /\ accountRecords' = [accountRecords EXCEPT ![s] = S]
      /\ UNCHANGED <<market, tokenToPoolSeq, custody>>
    BY DEF UpdateLendingPower
<1>7. pools[s].tokenAddr \in Markets
    BY <1>1 DEF LedgerOK, Catalogued, Tokens, PoolIds
<1> HIDE DEF s, B, R, new, added
<1>8. Settled(R, S, B.rewardIndex)
    BY <1>1, <1>2, <1>5, OneRecord DEF R
<1>9. LocksMove(s, added)
    BY <1>6, <1>7, MarketLocks
<1> HIDE DEF S
<1>10. QED
    BY <1>1, <1>2, <1>4, <1>6, <1>8, <1>9, OnePoolStep DEF R

LEMMA MintExchangingPoolLedger ==
    ASSUME IInv, LedgerOK, NEW s \in PoolIds, NEW a \in Accounts,
           NEW amount \in Nat, NEW received \in Nat, MintExchangingPool(s, a, amount, received)
    PROVE  LedgerOK'
<1> DEFINE B == Entered(s)
           R == accountRecords[s]
           new == SetPower(R[a], B.rewardIndex, received + R[a].power)
           S == [R EXCEPT ![a] = new]
<1>1. Enter(s) /\ a \in Holders
    BY DEF MintExchangingPool, Holders
<1>2. Base(s, B)
    BY <1>1, EnteredBase DEF LedgerOK
<1>3. /\ R \in [Holders -> AccountRecord] /\ B.rewardIndex \in Nat
      /\ \A b \in Holders : Covered(R[b], B.rewardIndex)
    BY <1>2, BaseRecords
<1>4. R[a] \in AccountRecord /\ received + R[a].power \in Nat
    BY <1>1, <1>3 DEF AccountRecord
<1>5. Settles(R[a], new, B.rewardIndex)
    BY <1>1, <1>3, <1>4, SetPowerSettles
<1>6. /\ pools' = [pools EXCEPT ![s] = AddPower(B, received)]
      /\ accountRecords' = [accountRecords EXCEPT ![s] = S]
      /\ custody' = [custody EXCEPT ![pools[s].tokenAddr] = @ + received]
      /\ UNCHANGED <<market, tokenToPoolSeq>>
    BY DEF MintExchangingPool, Credited
<1>7. LocksMove(s, received)
    BY <1>6 DEF LocksMove, IInv, TypeOK, Tokens
<1> HIDE DEF B, R, new
<1>8. Settled(R, S, B.rewardIndex)
    BY <1>1, <1>2, <1>5, OneRecord DEF R
<1> HIDE DEF S
<1>9. received \in Int
    OBVIOUS
<1>10. QED
    BY <1>2, <1>6, <1>7, <1>8, <1>9, OnePoolStep DEF R

LEMMA ClaimLedger ==
    ASSUME IInv, LedgerOK, NEW s \in PoolIds, NEW a \in Accounts, Claim(s, a)
    PROVE  LedgerOK'
<1> DEFINE B == UpdatePool(pools[s])
           R == accountRecords[s]
           new == ClaimRecord(R[a], B.rewardIndex)
           S == [R EXCEPT ![a] = new]
<1>1. CanUpdatePool(pools[s]) /\ Credit({s}) /\ a \in Holders
    BY DEF Claim, ClaimInternal, CanClaim, Holders
<1>2. Base(s, B)
    BY <1>1, UpdatedBase DEF LedgerOK
<1>3. /\ B \in Pool /\ R \in [Holders -> AccountRecord] /\ B.rewardIndex \in Nat
      /\ \A b \in Holders : Covered(R[b], B.rewardIndex)
    BY <1>2, BaseRecords
<1>4. R[a] \in AccountRecord
    BY <1>1, <1>3
<1>5. Settles(R[a], new, B.rewardIndex)
    BY <1>1, <1>3, <1>4, ClaimSettles
<1>6. /\ pools' = [pools EXCEPT ![s] = AddPower(B, 0)]
      /\ accountRecords' = [accountRecords EXCEPT ![s] = S]
      /\ UNCHANGED <<market, tokenToPoolSeq, custody>>
    BY <1>3, AddNoPower DEF Claim
<1>7. LocksMove(s, 0)
    BY <1>6 DEF LocksMove, IInv, TypeOK, Tokens
<1> HIDE DEF B, R, new
<1>8. Settled(R, S, B.rewardIndex)
    BY <1>1, <1>2, <1>5, OneRecord DEF R
<1> HIDE DEF S
<1>9. PICK none \in Int : none = 0
    OBVIOUS
<1>10. pools' = [pools EXCEPT ![s] = AddPower(B, none)] /\ LocksMove(s, none)
    BY <1>6, <1>7, <1>9
<1>11. QED
    BY <1>2, <1>6, <1>8, <1>10, OnePoolStep DEF R

\* claimInternal followed by updatePower(.., 0), on the account's record
LEMMA ExitSettles ==
    ASSUME NEW r \in AccountRecord, NEW index \in Nat, NEW power \in Nat, Covered(r, index)
    PROVE  Settles(r, SetPower(ClaimRecord(r, index), index, power), index)
<1>1. Settles(r, ClaimRecord(r, index), index)
    BY ClaimSettles
<1>2. Settles(ClaimRecord(r, index), SetPower(ClaimRecord(r, index), index, power), index)
    BY <1>1, SetPowerSettles DEF Settles
<1>3. QED
    BY <1>1, <1>2, SettlesTrans

LEMMA ExitExchangingPoolLedger ==
    ASSUME IInv, LedgerOK, NEW s \in PoolIds, NEW a \in Accounts, ExitExchangingPool(s, a)
    PROVE  LedgerOK'
<1> DEFINE B == UpdatePool(pools[s])
           R == accountRecords[s]
           new == SetPower(ClaimRecord(R[a], B.rewardIndex), B.rewardIndex, 0)
           S == [R EXCEPT ![a] = new]
           added == -R[a].power
<1>1. CanUpdatePool(pools[s]) /\ Credit({s}) /\ a \in Holders
    BY DEF ExitExchangingPool, CanExitExchangingPool, ClaimInternal, CanClaim, Holders
<1>2. Base(s, B)
    BY <1>1, UpdatedBase DEF LedgerOK
<1>3. /\ B \in Pool /\ R \in [Holders -> AccountRecord] /\ B.rewardIndex \in Nat
      /\ \A b \in Holders : Covered(R[b], B.rewardIndex)
    BY <1>2, BaseRecords
<1>4. R[a] \in AccountRecord /\ R[a].power \in Nat /\ added \in Int
    BY <1>1, <1>3 DEF AccountRecord
<1>5. Settles(R[a], new, B.rewardIndex)
    BY <1>1, <1>3, <1>4, ExitSettles
<1>6. /\ pools' = [pools EXCEPT ![s] = AddPower(B, added)]
      /\ accountRecords' = [accountRecords EXCEPT ![s] = S]
      /\ custody' = [custody EXCEPT ![pools[s].tokenAddr] = @ - R[a].power]
      /\ UNCHANGED <<market, tokenToPoolSeq>>
    BY DEF ExitExchangingPool, CanExitExchangingPool
<1>7. LocksMove(s, added)
    BY <1>4, <1>6 DEF LocksMove, IInv, TypeOK, Tokens
<1> HIDE DEF B, R, new, added
<1>8. Settled(R, S, B.rewardIndex)
    BY <1>1, <1>2, <1>5, OneRecord DEF R
<1> HIDE DEF S
<1>9. QED
    BY <1>2, <1>4, <1>6, <1>7, <1>8, OnePoolStep DEF R

LEMMA MintLendingPoolLedger ==
    ASSUME IInv, LedgerOK, NEW s \in PoolIds, NEW a \in Accounts,
           NEW amount \in Nat, NEW reported \in Nat, MintLendingPool(s, a, amount, reported)
    PROVE  LedgerOK'
<1> DEFINE B == Entered(s)
           index == B.rewardIndex
           R == accountRecords[s]
           own == TokenPower * (custody[pools[s].tokenAddr] + amount)
           new == SetPower(R[Self], index, own)
           other == SetPower(SetPower(R[a], index, reported), index, amount + reported)
           S == [R EXCEPT ![Self] = new, ![a] = other]
           added == (own - R[Self].power) + ((amount + reported) - R[a].power)
<1>1. Enter(s) /\ a \in Holders /\ Self \in Holders /\ a # Self
    BY DEF MintLendingPool, Holders, DistributorAssumption
<1>2. Base(s, B)
    BY <1>1, EnteredBase DEF LedgerOK
<1>3. /\ R \in [Holders -> AccountRecord] /\ index \in Nat
      /\ \A b \in Holders : Covered(R[b], index)
    BY <1>2, BaseRecords
<1>4. own \in Nat
    <2>1. pools[s].tokenAddr \in Tokens
        BY PoolTypes DEF IInv, Pool
    <2>2. custody[pools[s].tokenAddr] \in Nat
        BY <2>1 DEF IInv, TypeOK
    <2>3. custody[pools[s].tokenAddr] + amount \in Nat
        BY <2>2
    <2>4. QED
        BY <2>3, ProductType DEF DistributorAssumption
<1>5. /\ R[a] \in AccountRecord /\ R[Self] \in AccountRecord
      /\ R[a].power \in Nat /\ R[Self].power \in Nat /\ amount + reported \in Nat
    BY <1>1, <1>3 DEF AccountRecord
<1>6. pools' = [pools EXCEPT ![s] = AddPower(B, added)]
    BY Zenon DEF MintLendingPool
<1>7. accountRecords' = [accountRecords EXCEPT ![s][Self] = SetPower(@, index, own),
            ![s][a] = SetPower(SetPower(@, index, reported), index, amount + reported)]
    BY Zenon DEF MintLendingPool
<1>8. /\ custody' = [custody EXCEPT ![pools[s].tokenAddr] = @ + amount]
      /\ UNCHANGED <<market, tokenToPoolSeq>> /\ pools[s].tokenAddr \in Markets
    BY DEF MintLendingPool
<1>9. s \in PoolSeqs /\ accountRecords \in [PoolSeqs -> [Holders -> AccountRecord]]
      /\ custody \in [Tokens -> Nat]
    BY PoolTypes DEF IInv, TypeOK
<1> HIDE DEF B
<1>10. accountRecords' = [accountRecords EXCEPT ![s] = S]
    BY <1>1, <1>7, <1>9
<1>11. added \in Int
    BY <1>4, <1>5
<1> HIDE DEF own
<1>12. Settles(R[Self], new, index)
    BY <1>1, <1>3, <1>4, <1>5, SetPowerSettles
<1>13. Settles(R[a], other, index)
    <2> DEFINE middle == SetPower(R[a], index, reported)
    <2>1. Settles(R[a], middle, index)
        BY <1>1, <1>3, <1>5, SetPowerSettles
    <2>2. middle \in AccountRecord /\ Covered(middle, index)
        BY <2>1 DEF Settles
    <2> HIDE DEF middle, index
    <2>3. Settles(middle, SetPower(middle, index, amount + reported), index)
        BY <1>3, <1>5, <2>2, SetPowerSettles
    <2>4. Settles(R[a], SetPower(middle, index, amount + reported), index)
        BY <1>1, <1>3, <1>5, <2>1, <2>3, SettlesTrans
    <2>5. QED
        BY <2>4 DEF middle
<1> HIDE DEF R, new, other, added
<1>14. Settled(R, S, index)
    BY <1>1, <1>2, <1>12, <1>13, TwoRecords DEF R
<1>15. LocksMove(s, added)
    <2>1. \A t \in Tokens \ {pools[s].tokenAddr} : custody'[t] = custody[t]
        BY <1>8, <1>9
    <2>2. QED
        BY <1>8, <2>1, MarketLocks
<1> HIDE DEF S
<1>16. QED
    BY <1>2, <1>6, <1>8, <1>10, <1>11, <1>14, <1>15, OnePoolStep DEF R

LEMMA ExitLendingPoolLedger ==
    ASSUME IInv, LedgerOK, NEW s \in PoolIds, NEW a \in Accounts, NEW reported \in Nat,
           ExitLendingPool(s, a, reported)
    PROVE  LedgerOK'
<1> DEFINE B == UpdatePool(pools[s])
           index == B.rewardIndex
           R == accountRecords[s]
           amount == R[a].power
           own == TokenPower * (custody[pools[s].tokenAddr] - amount)
           new == SetPower(R[Self], index, own)
           exited == SetPower(ClaimRecord(R[a], index), index, 0)
           other == SetPower(exited, index, reported)
           S == [R EXCEPT ![Self] = new, ![a] = other]
           T == [R EXCEPT ![a] = exited]
           added == (reported - amount) + (own - R[Self].power)
           left == -amount
<1>1. /\ CanUpdatePool(pools[s]) /\ Credit({s}) /\ a \in Holders /\ Self \in Holders /\ a # Self
      /\ custody[pools[s].tokenAddr] >= amount
    BY DEF ExitLendingPool, ClaimInternal, CanClaim, Holders, DistributorAssumption
<1>2. Base(s, B)
    BY <1>1, UpdatedBase DEF LedgerOK
<1>3. /\ R \in [Holders -> AccountRecord] /\ index \in Nat
      /\ \A b \in Holders : Covered(R[b], index)
    BY <1>2, BaseRecords
<1>4. /\ R[a] \in AccountRecord /\ R[Self] \in AccountRecord
      /\ amount \in Nat /\ R[Self].power \in Nat
    BY <1>1, <1>3 DEF AccountRecord
<1>5. own \in Nat
    <2>1. custody[pools[s].tokenAddr] \in Nat
        BY PoolTypes DEF IInv, TypeOK, Pool
    <2>2. custody[pools[s].tokenAddr] - amount \in Nat
        BY <1>1, <1>4, <2>1
    <2>3. QED
        BY <2>2, ProductType DEF DistributorAssumption
<1>6. \/ /\ pools' = [pools EXCEPT ![s] = AddPower(B, added)]
         /\ accountRecords' = [accountRecords EXCEPT ![s][Self] = SetPower(@, index, own),
                                                     ![s][a] = other]
      \/ /\ pools' = [pools EXCEPT ![s] = AddPower(B, left)]
         /\ accountRecords' = [accountRecords EXCEPT ![s][a] = exited]
    BY DEF ExitLendingPool
<1>7. /\ custody' = [custody EXCEPT ![pools[s].tokenAddr] = @ - amount]
      /\ UNCHANGED <<market, tokenToPoolSeq>> /\ pools[s].tokenAddr \in Markets
    BY DEF ExitLendingPool
<1>8. s \in PoolSeqs /\ accountRecords \in [PoolSeqs -> [Holders -> AccountRecord]]
      /\ custody \in [Tokens -> Nat]
    BY PoolTypes DEF IInv, TypeOK
<1>9. added \in Int /\ left \in Int
    BY <1>4, <1>5
<1> HIDE DEF B, own, index
<1>10. Settles(R[Self], new, index)
    BY <1>1, <1>3, <1>4, <1>5, SetPowerSettles
<1>11. Settles(R[a], exited, index)
    BY <1>1, <1>3, <1>4, ExitSettles
<1> HIDE DEF exited
<1>12. Settles(R[a], other, index)
    <2>1. exited \in AccountRecord /\ Covered(exited, index)
        BY <1>11 DEF Settles
    <2>2. Settles(exited, other, index)
        BY <1>3, <2>1, SetPowerSettles
    <2>3. QED
        BY <1>1, <1>3, <1>4, <1>11, <2>2, SettlesTrans
<1>13. \/ /\ pools' = [pools EXCEPT ![s] = AddPower(B, added)]
          /\ accountRecords' = [accountRecords EXCEPT ![s] = S]
       \/ /\ pools' = [pools EXCEPT ![s] = AddPower(B, left)]
          /\ accountRecords' = [accountRecords EXCEPT ![s] = T]
    <2> HIDE DEF other, added, left
    <2>1. QED
        BY <1>1, <1>6, <1>8
<1>14. \A t \in Tokens \ {pools[s].tokenAddr} : custody'[t] = custody[t]
    BY <1>7, <1>8
<1> HIDE DEF R, new, other, added, left, amount
<1>15. Settled(R, S, index) /\ Settled(R, T, index)
    BY <1>1, <1>2, <1>10, <1>11, <1>12, OneRecord, TwoRecords DEF R, index
<1>16. LocksMove(s, added) /\ LocksMove(s, left)
    BY <1>7, <1>14, MarketLocks
<1> HIDE DEF S, T
<1>17. CASE /\ pools' = [pools EXCEPT ![s] = AddPower(B, added)]
            /\ accountRecords' = [accountRecords EXCEPT ![s] = S]
    BY <1>2, <1>7, <1>9, <1>15, <1>16, <1>17, OnePoolStep DEF R, index
<1>18. CASE /\ pools' = [pools EXCEPT ![s] = AddPower(B, left)]
            /\ accountRecords' = [accountRecords EXCEPT ![s] = T]
    BY <1>2, <1>7, <1>9, <1>15, <1>16, <1>18, OnePoolStep DEF R, index
<1>19. QED
    BY <1>13, <1>17, <1>18

\* A new pool owes nothing, and nothing of its token is held yet.
LEMMA PushPoolLedger ==
    ASSUME IInv, LedgerOK, NEW t \in Tokens, NEW type \in PoolType,
           NEW weight \in Nat, NEW delay \in Nat, PushPool(t, type, weight, delay),
           UNCHANGED market, type = "LENDING" => t \in Markets /\ IsListedMarket(t)
    PROVE  LedgerOK'
<1> DEFINE n == Len(pools) + 1
           new == NewPool(t, type, weight, delay)
<1>1. /\ pools \in Seq(Pool) /\ Len(pools) \in Nat /\ n <= MaxPools /\ block \in Nat
      /\ PoolIds \subseteq PoolSeqs
    BY DEF PushPool, IInv, TypeOK, PoolIds, PoolSeqs, DistributorAssumption
<1>2. new \in Pool /\ new.tokenAddr = t /\ new.ptype = type
      /\ new.totalPower = 0 /\ new.accumulatedPower = 0
      /\ new.rewardIndex = 0 /\ new.accumulatedTokens = 0
    BY <1>1 DEF NewPool, Pool, PoolState
<1>3. /\ pools' = Append(pools, new) /\ tokenToPoolSeq' = [tokenToPoolSeq EXCEPT ![t] = n]
      /\ tokenToPoolSeq[t] = 0
      /\ UNCHANGED <<market, accountRecords, custody, mined>>
    BY DEF PushPool
<1> HIDE DEF new
<1>4. /\ pools' \in Seq(Pool) /\ Len(pools') = n /\ pools'[n] = new
      /\ \A q \in PoolIds : pools'[q] = pools[q]
    BY <1>1, <1>2, <1>3 DEF PoolIds
<1>5. /\ PoolIds' = PoolIds \cup {n} /\ n \notin PoolIds /\ n \in PoolSeqs /\ n # 0
    BY <1>1, <1>4 DEF PoolIds, PoolSeqs
<1>6. \A q \in PoolIds : pools[q].tokenAddr \in Tokens /\ q # 0
    BY PoolTypes DEF IInv, Pool, PoolIds
<1>7. tokenToPoolSeq'[t] = n /\ \A u \in Tokens \ {t} : tokenToPoolSeq'[u] = tokenToPoolSeq[u]
    BY <1>3 DEF IInv, TypeOK
<1>8. \A q \in PoolIds : pools[q].tokenAddr # t
    BY <1>3, <1>6 DEF LedgerOK, Catalogued
<1>9. Catalogued'
    BY <1>2, <1>4, <1>5, <1>6, <1>7, <1>8 DEF LedgerOK, Catalogued
<1>10. OpenPoolListed'
    BY <1>2, <1>3, <1>4, <1>5 DEF LedgerOK, OpenPoolListed, IsListedMarket
<1>11. LocksHeld'
    <2>1. t \in LpTokens => custody[t] = PoolPower(new)
        BY <1>2, <1>3 DEF LedgerOK, LocksHeld, PoolPower
    <2>2. \A u \in LpTokens : tokenToPoolSeq'[u] = 0 => custody[u] = 0
        BY <1>5, <1>7 DEF LedgerOK, LocksHeld, Tokens
    <2>3. QED
        BY <1>2, <1>3, <1>4, <1>5, <2>1, <2>2 DEF LedgerOK, LocksHeld
<1>12. AllBacked'
    <2>1. accountRecords[n] = [a \in Holders |-> NewRecord] /\ mined[n] \in Nat
        BY <1>5 DEF IInv, UnusedFresh, TypeOK
    <2>2. ASSUME NEW a \in Holders
          PROVE  OwedBy(accountRecords[n], 0)[a] = 0
        <3>1. Owes(accountRecords[n][a], 0) = 0 * 0 - 0 + Mantissa * (0 + 0)
            BY <2>1 DEF NewRecord, Owes
        <3>2. QED
            BY <3>1 DEF OwedBy, DistributorAssumption
    <2>3. OwedBy(accountRecords[n], 0) \in [Holders -> Nat]
        BY <2>2 DEF OwedBy
    <2>4. Total(OwedBy(accountRecords[n], 0)) = 0
        BY <2>2, <2>3, TotalZero
    <2>5. Mantissa * 0 = 0 /\ Mantissa * mined[n] \in Nat
        BY <2>1, ProductType DEF DistributorAssumption
    <2>6. Backed(new, accountRecords[n], mined[n])
        BY <1>2, <2>4, <2>5 DEF Backed
    <2>7. QED
        BY <1>3, <1>4, <1>5, <2>6 DEF LedgerOK, AllBacked
<1>13. QED
    BY <1>9, <1>10, <1>11, <1>12 DEF LedgerOK

\* Every active pool is updated; only the market of the one closed may be delisted.
LEMMA ClosePoolLedger ==
    ASSUME IInv, IInv', LedgerOK, NEW s, ClosePoolInternal(s),
           \A m \in Markets : IsListedMarket(m) /\ tokenToPoolSeq[m] # s => market'[m] = "Listed"
    PROVE  LedgerOK'
<1>1. /\ pools \in Seq(Pool) /\ PoolIds \subseteq PoolSeqs
      /\ ActiveIds \subseteq PoolIds /\ s \in ActiveIds
      /\ \A q \in ActiveIds : CanUpdatePool(pools[q])
      /\ \A q \in PoolSeqs : mined[q] \in Nat
    BY PoolTypes DEF ClosePoolInternal, ActiveIds, IInv, TypeOK
<1>2. /\ pools' = [q \in PoolIds |->
                        IF q = s THEN [UpdatePool(pools[q]) EXCEPT !.state = "CLOSED"]
                        ELSE IF q \in ActiveIds THEN UpdatePool(pools[q]) ELSE pools[q]]
      /\ Credit(ActiveIds)
      /\ UNCHANGED <<accountRecords, tokenToPoolSeq, custody>>
    BY DEF ClosePoolInternal, ActiveIds
<1>3. Len(pools') = Len(pools)
    <2>1. DOMAIN pools' = 1 .. Len(pools) /\ Len(pools) \in Nat
        BY <1>1, <1>2 DEF PoolIds
    <2>2. pools' \in Seq(Pool)
        BY DEF IInv, TypeOK
    <2>3. QED
        BY <2>1, <2>2
<1>4. PoolIds' = PoolIds
    BY <1>3 DEF PoolIds
<1>5. ASSUME NEW q \in PoolIds
      PROVE  /\ SameToken(pools[q], pools'[q])
             /\ PoolPower(pools'[q]) = PoolPower(pools[q])
             /\ Backed(pools'[q], accountRecords[q], mined'[q])
             /\ pools'[q].state = IF q = s THEN "CLOSED" ELSE pools[q].state
    <2>1. Backed(pools[q], accountRecords[q], mined[q])
        BY DEF LedgerOK, AllBacked
    <2>2. CASE q \in ActiveIds
        <3> DEFINE P == UpdatePool(pools[q])
                   Q == [P EXCEPT !.state = "CLOSED"]
        <3>1. /\ P \in Pool /\ P.state = pools[q].state /\ SameToken(pools[q], P)
            BY <1>1, <2>2, Updated DEF SameToken
        <3>2. /\ PoolPower(P) = PoolPower(pools[q])
              /\ Backed(P, accountRecords[q], mined[q] + TokenMinedWithin(pools[q]))
            BY <1>1, <2>1, <2>2, UpdatedBacked
        <3>3. pools'[q] = IF q = s THEN Q ELSE P
            BY <1>2, <2>2
        <3> HIDE DEF P
        <3>4. /\ Q.state = "CLOSED" /\ SameToken(P, Q) /\ Q.rewardIndex = P.rewardIndex
              /\ Q.accumulatedTokens = P.accumulatedTokens
              /\ Q.totalPower = P.totalPower /\ Q.accumulatedPower = P.accumulatedPower
            BY <3>1 DEF Pool, PoolState, SameToken
        <3> HIDE DEF Q
        <3>5. mined'[q] = mined[q] + TokenMinedWithin(pools[q])
            BY <1>1, <1>2, <2>2 DEF Credit
        <3>6. QED
            BY <3>1, <3>2, <3>3, <3>4, <3>5 DEF SameToken, PoolPower, Backed
    <2>3. CASE q \notin ActiveIds
        <3>1. pools'[q] = pools[q] /\ q # s
            BY <1>1, <1>2, <2>3
        <3>2. mined'[q] = mined[q]
            BY <1>1, <1>2, <2>3 DEF Credit
        <3>3. QED
            BY <2>1, <3>1, <3>2 DEF SameToken
    <2>4. QED
        BY <2>2, <2>3
<1>6. \A q \in PoolIds : SameToken(pools[q], pools'[q])
    BY <1>5
<1>7. Catalogued'
    BY <1>2, <1>4, <1>6 DEF LedgerOK, Catalogued, SameToken
<1>8. OpenPoolListed'
    <2>1. ASSUME NEW q \in PoolIds, pools'[q].ptype = "LENDING", pools'[q].state # "CLOSED"
          PROVE  market'[pools'[q].tokenAddr] = "Listed"
        <3>1. /\ q # s /\ pools[q].ptype = "LENDING" /\ pools[q].state # "CLOSED"
              /\ pools'[q].tokenAddr = pools[q].tokenAddr
            BY <1>5, <2>1 DEF SameToken
        <3>2. IsListedMarket(pools[q].tokenAddr) /\ tokenToPoolSeq[pools[q].tokenAddr] # s
            BY <3>1 DEF LedgerOK, OpenPoolListed, Catalogued
        <3>3. pools[q].tokenAddr \in Markets
            BY <3>1 DEF LedgerOK, Catalogued
        <3>4. QED
            BY <3>1, <3>2, <3>3
    <2>2. QED
        BY <1>4, <2>1 DEF OpenPoolListed, IsListedMarket
<1>9. LocksHeld'
    BY <1>2, <1>4, <1>5 DEF LedgerOK, LocksHeld, SameToken
<1>10. AllBacked'
    BY <1>2, <1>4, <1>5 DEF AllBacked
<1>11. QED
    BY <1>7, <1>8, <1>9, <1>10 DEF LedgerOK

\* A market that is not listed changes its state.
LEMMA MoveMarketLedger ==
    ASSUME IInv, LedgerOK, NEW m \in Markets, NEW from, NEW to, from # "Listed",
           MoveMarket(m, from, to), UNCHANGED <<block, distributorVars>>
    PROVE  LedgerOK'
<1>1. UNCHANGED <<pools, accountRecords, tokenToPoolSeq, custody, mined>> /\ PoolIds' = PoolIds
    BY DEF distributorVars, PoolIds
<1>2. Catalogued' /\ LocksHeld' /\ AllBacked'
    BY <1>1 DEF LedgerOK, Catalogued, LocksHeld, AllBacked
<1>3. \A n \in Markets : IsListedMarket(n) => market'[n] = "Listed"
    BY DEF MoveMarket, IsListedMarket, IInv, TypeOK
<1>4. OpenPoolListed'
    BY <1>1, <1>3 DEF LedgerOK, Catalogued, OpenPoolListed, IsListedMarket
<1>5. QED
    BY <1>2, <1>4 DEF LedgerOK

\* A step that leaves the pools, the markets and what is held alone.
LEMMA SameLedger ==
    ASSUME LedgerOK, UNCHANGED <<market, pools, accountRecords, tokenToPoolSeq, custody, mined>>
    PROVE  LedgerOK'
<1>1. PoolIds' = PoolIds
    BY DEF PoolIds
<1>2. Catalogued' /\ OpenPoolListed' /\ LocksHeld' /\ AllBacked'
    BY <1>1 DEF LedgerOK, Catalogued, OpenPoolListed, IsListedMarket, LocksHeld, AllBacked
<1>3. QED
    BY <1>2 DEF LedgerOK

LEMMA InitLedger ==
    ASSUME Init
    PROVE  LedgerOK
<1>1. PoolIds = {}
    BY DEF Init, PoolIds
<1>2. QED
    BY <1>1 DEF Init, LedgerOK, Catalogued, OpenPoolListed, LocksHeld, AllBacked, Tokens

LEMMA NextLedger ==
    ASSUME IInv, IInv', LedgerOK, Next
    PROVE  LedgerOK'
<1>1. CASE NextBlock
    BY <1>1, SameLedger DEF NextBlock, distributorVars
<1>2. ASSUME NEW m \in Markets, SupportMarket(m) \/ LiquidateMarket(m) \/ RemoveMarket(m)
      PROVE  LedgerOK'
    BY <1>2, MoveMarketLedger DEF SupportMarket, LiquidateMarket, RemoveMarket
<1>3. ASSUME NEW m \in Markets, CloseMarket(m)
      PROVE  LedgerOK'
    <2>1. ClosePoolInternal(tokenToPoolSeq[m]) /\ market' = [market EXCEPT ![m] = "Closing"]
        BY <1>3 DEF CloseMarket, MoveMarket
    <2>2. \A n \in Markets :
            IsListedMarket(n) /\ tokenToPoolSeq[n] # tokenToPoolSeq[m] => market'[n] = "Listed"
        BY <2>1 DEF IsListedMarket, IInv, TypeOK
    <2>3. QED
        BY <2>1, <2>2, ClosePoolLedger
<1>4. ASSUME NEW m \in Markets, NEW w \in Weights, NEW d \in Delays, CreateLendingPool(m, w, d)
      PROVE  LedgerOK'
    <2>1. m \in Tokens /\ w \in Nat /\ d \in Nat /\ "LENDING" \in PoolType
        BY DEF Tokens, PoolType, DistributorAssumption
    <2>2. PushPool(m, "LENDING", w, d) /\ UNCHANGED market /\ IsListedMarket(m)
        BY <1>4 DEF CreateLendingPool, PushPool
    <2>3. QED
        BY <2>1, <2>2, PushPoolLedger
<1>5. ASSUME NEW m \in Markets, NEW a \in Accounts, NEW p \in Powers, UpdateLendingPower(m, a, p)
      PROVE  LedgerOK'
    BY <1>5, UpdateLendingPowerLedger DEF DistributorAssumption
<1>6. ASSUME NEW t \in LpTokens, NEW w \in Weights, NEW d \in Delays, CreateExchangingPool(t, w, d)
      PROVE  LedgerOK'
    <2>1. t \in Tokens /\ w \in Nat /\ d \in Nat /\ "EXCHANGING" \in PoolType
        BY DEF Tokens, PoolType, DistributorAssumption
    <2>2. PushPool(t, "EXCHANGING", w, d) /\ UNCHANGED market /\ "EXCHANGING" # "LENDING"
        BY <1>6 DEF CreateExchangingPool, PushPool
    <2>3. QED
        BY <2>1, <2>2, PushPoolLedger
<1>7. ASSUME NEW s \in PoolIds, OpenPool(s)
      PROVE  LedgerOK'
    BY <1>7, OpenPoolLedger
<1>8. ASSUME NEW s \in PoolIds, ClosePool(s)
      PROVE  LedgerOK'
    BY <1>8, ClosePoolLedger DEF ClosePool, IsListedMarket
<1>9. ASSUME NEW s \in PoolIds, NEW a \in Accounts, Claim(s, a) \/ ExitExchangingPool(s, a)
      PROVE  LedgerOK'
    BY <1>9, ClaimLedger, ExitExchangingPoolLedger
<1>10. ASSUME NEW s \in PoolIds, NEW a \in Accounts, NEW n \in Powers, NEW p \in Powers,
              \/ MintExchangingPool(s, a, n, p)
              \/ MintLendingPool(s, a, n, p)
              \/ ExitLendingPool(s, a, p)
       PROVE  LedgerOK'
    <2>1. n \in Nat /\ p \in Nat
        BY DEF DistributorAssumption
    <2>2. QED
        BY <1>10, <2>1, MintExchangingPoolLedger, MintLendingPoolLedger, ExitLendingPoolLedger
<1>11. QED
    BY <1>1, <1>2, <1>3, <1>4, <1>5, <1>6, <1>7, <1>8, <1>9, <1>10 DEF Next

\* LedgerOK holds in every reachable state.
THEOREM LedgerInvariant == Spec => []LedgerOK
<1>1. Init => LedgerOK
    BY InitLedger
<1>2. IInv /\ IInv' /\ LedgerOK /\ [Next]_vars => LedgerOK'
    BY NextLedger, SameLedger DEF vars
<1>3. QED
    BY <1>1, <1>2, Invariant, PTL DEF Spec

-----------------------------------------------------------------------------
\* What a pool has paid, owes and keeps aside was mined for it: no sequence of
\* deposits, claims, exits, openings and closings pays an RDS twice.
THEOREM RewardsAreBacked == Spec => []RewardsBacked
<1>1. LedgerOK => RewardsBacked
    BY DEF LedgerOK, AllBacked, Backed, RewardsBacked, OwedBy, Owes, RewardLedger
<1>2. QED
    BY <1>1, LedgerInvariant, PTL

\* The Distributor holds the LP tokens its accounts have locked.
THEOREM LocksAreCovered == Spec => []LocksCovered
<1>1. ASSUME IInv, LedgerOK
      PROVE  LocksCovered
    <2>1. ASSUME NEW s \in PoolIds
          PROVE  PoolPower(pools[s]) = Total(PowerLedger(s))
        BY <1>1 DEF IInv, PoolsOK, PoolOK, PoolPower, PowerOf, PowerLedger
    <2>2. QED
        BY <1>1, <2>1 DEF LedgerOK, LocksHeld, LocksCovered
<1>2. QED
    BY <1>1, Invariant, LedgerInvariant, PTL

\* A lending pool that is not closed belongs to a listed market.
THEOREM OpenPoolsAreListed == Spec => []OpenPoolListed
<1>1. LedgerOK => OpenPoolListed
    BY DEF LedgerOK
<1>2. QED
    BY <1>1, LedgerInvariant, PTL

-----------------------------------------------------------------------------
(***************************************************************************)
(* Nobody is locked in, but for the two obstacles that ExitObstacles names.*)
(***************************************************************************)
\* A record's entry is no more than the whole.
LEMMA EntryOfTotal ==
    ASSUME NEW S, IsFiniteSet(S), NEW ledger \in [S -> Nat], NEW x \in S
    PROVE  Total(ledger) \in Nat /\ ledger[x] <= Total(ledger)
<1>1. Cardinality(Others(ledger, x)) \in Nat /\ Total(ledger) = ledger[x] + Cardinality(Others(ledger, x))
    BY TotalSplit
<1>2. QED
    BY <1>1

\* exitExchangingPool does all it does when nothing in it reverts: what it
\* requires is all it waits for.
LEMMA ExitIsPossible ==
    ASSUME NEW s, NEW a, CanExitExchangingPool(s, a),
           LET pool == UpdatePool(pools[s])
               amount == accountRecords[s][a].power
           IN  /\ pools' = [pools EXCEPT ![s] = AddPower(pool, -amount)]
               /\ accountRecords' = [accountRecords EXCEPT
                       ![s][a] = SetPower(ClaimRecord(@, pool.rewardIndex), pool.rewardIndex, 0)]
               /\ custody' = [custody EXCEPT ![pools[s].tokenAddr] = @ - amount]
               /\ rdsSupply' = rdsSupply + Claimable(accountRecords[s][a], pool.rewardIndex),
           Halve({s}), Credit({s}),
           UNCHANGED <<block, market, tokenToPoolSeq, mineStartBlock, registry>>
    PROVE  ExitExchangingPool(s, a)
BY DEF ExitExchangingPool, CanExitExchangingPool, ClaimInternal

\* totalWeight is zero exactly when no active pool has a weight.
LEMMA WeightInTotal ==
    ASSUME IInv
    PROVE  totalWeight # 0 <=> \E q \in PoolIds : ActiveWeight(q) > 0
<1>1. IsFiniteSet(PoolSeqs) /\ WeightLedger \in [PoolSeqs -> Nat]
    BY WeightLedgerType DEF IInv
<1>2. totalWeight = Total(WeightLedger) /\ \A q \in PoolIds : q \in PoolSeqs
    BY PoolTypes DEF IInv, RegistryOK
<1>3. \A q \in PoolSeqs : WeightLedger[q] = ActiveWeight(q) /\ ActiveWeight(q) \in Nat
    BY <1>1 DEF WeightLedger
<1>4. ASSUME NEW q \in PoolIds, ActiveWeight(q) > 0
      PROVE  totalWeight # 0
    <2>1. Total(WeightLedger) \in Nat /\ WeightLedger[q] <= Total(WeightLedger)
        BY <1>1, <1>2, <1>4, EntryOfTotal
    <2>2. QED
        BY <1>2, <1>3, <1>4, <2>1
<1>5. ASSUME \A q \in PoolIds : ~(ActiveWeight(q) > 0)
      PROVE  totalWeight = 0
    <2>1. \A q \in PoolSeqs : WeightLedger[q] = 0
        <3>1. ASSUME NEW q \in PoolSeqs PROVE WeightLedger[q] = 0
            <4>1. CASE q \in PoolIds
                BY <1>3, <1>5, <4>1
            <4>2. CASE q \notin PoolIds
                BY <1>3, <4>2 DEF ActiveWeight
            <4>3. QED
                BY <4>1, <4>2
        <3>2. QED
            BY <3>1
    <2>2. WeightLedger = [q \in PoolSeqs |-> 0]
        BY <1>1, <2>1
    <2>3. QED
        BY <1>2, <2>2, TotalZero
<1>6. QED
    BY <1>4, <1>5

\* An account can take its LP tokens back from a pool, active or closed,
\* whatever other accounts and governance have done, but for two obstacles: no
\* active pool has a weight, or its reward passes the cap of RDS.  The pool's
\* power covers the account's and the Distributor holds the tokens
\* (exitExchangingPool, updatePool, claimInternal).
THEOREM ExitsStayOpen == Spec => []ExitObstacles
<1>1. IInv /\ LedgerOK => ExitObstacles
    <2> SUFFICES ASSUME IInv, LedgerOK, NEW s \in PoolIds, NEW a \in Accounts,
                        Started(s), pools[s].tokenAddr \in LpTokens,
                        accountRecords[s][a].power > 0
                 PROVE  CanExitExchangingPool(s, a) <=> ~NoWeight(s) /\ ~OverCap(s, a)
        BY DEF ExitObstacles
    <2>1. /\ s \in PoolSeqs /\ pools[s] \in Pool /\ a \in Holders
          /\ accountRecords[s] \in [Holders -> AccountRecord]
        BY PoolTypes DEF IInv, Holders
    <2>2. totalWeight # 0 <=> ~ \A q \in PoolIds : ActiveWeight(q) = 0
        <3>1. \A q \in PoolIds : ActiveWeight(q) \in Nat
            BY PoolTypes DEF IInv, ActiveWeight, Pool
        <3>2. QED
            BY <3>1, WeightInTotal
    <2> DEFINE R == accountRecords[s]
               pool == UpdatePool(pools[s])
    <2>3. /\ Total(PowerOf(R)) \in Nat /\ R[a].power <= Total(PowerOf(R))
        <3>1. PowerOf(R) \in [Holders -> Nat] /\ PowerOf(R)[a] = R[a].power
            BY <2>1 DEF PowerOf, AccountRecord
        <3>2. QED
            BY <2>1, <3>1, HoldersFinite, EntryOfTotal
    <2>4. PoolPower(pools[s]) = Total(PowerOf(R))
        BY DEF IInv, PoolsOK, PoolOK, PoolPower
    <2>5. custody[pools[s].tokenAddr] = PoolPower(pools[s])
        BY DEF LedgerOK, LocksHeld
    <2>6. CanUpdatePool(pools[s]) <=> ~NoWeight(s)
        BY <2>2, <2>3, <2>4 DEF CanUpdatePool, PoolPower, NoWeight
    <2>7. R[a].power # 0 /\ custody[pools[s].tokenAddr] >= R[a].power
        BY <2>1, <2>3, <2>4, <2>5 DEF AccountRecord
    <2>8. CanExitExchangingPool(s, a) <=> CanClaim(s, a, pool)
        BY <2>7 DEF CanExitExchangingPool
    <2>9. QED
        BY <2>6, <2>8 DEF CanClaim, OverCap
<1>2. QED
    BY <1>1, Invariant, LedgerInvariant, PTL
=============================================================================
