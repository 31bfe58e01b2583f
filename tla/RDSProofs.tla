----------------------------- MODULE RDSProofs -----------------------------
(***************************************************************************)
(* What the operations of the DOL and RDS tokens do to their books; then   *)
(* the conservation of the votes of the RDS token, its implementation of   *)
(* the register of votes, and what the search in it finds, for any         *)
(* accounts, amounts and number of blocks.                                 *)
(***************************************************************************)
EXTENDS RDS, DataTheorems, SequenceTheorems

(***************************************************************************)
(* The books of a token.                                                   *)
(***************************************************************************)

Sound == TokenTypeOK /\ TokensConserved

\* A spent allowance is smaller, and nothing else about allowances changes.
LEMMA SpentAllowance ==
    ASSUME TokenTypeOK, NEW sender \in Accounts, NEW src \in Accounts, NEW amount \in Nat,
           SpendAllowance(sender, src, amount)
    PROVE  allowances' \in [Accounts -> [Accounts -> 0 .. MaxUint]]
<1>1. MaxUint \in Nat
    BY TokenAssumption
<1>2. CASE sender = src \/ allowances[src][sender] = MaxUint
    BY <1>2 DEF SpendAllowance, TokenTypeOK
<1>3. CASE ~(sender = src \/ allowances[src][sender] = MaxUint)
    <2>1. allowances[src][sender] \in 0 .. MaxUint
        BY DEF TokenTypeOK
    <2>2. allowances[src][sender] - amount \in 0 .. MaxUint
        BY <1>1, <1>3, <2>1 DEF SpendAllowance
    <2>3. QED
        BY <1>3, <2>2 DEF SpendAllowance, TokenTypeOK
<1>4. QED
    BY <1>2, <1>3

\* The balances after a transfer, the transfer to oneself included.
LEMMA MovedBalance ==
    ASSUME TokenTypeOK, NEW src \in Accounts, NEW dst \in Accounts, NEW amount \in Nat,
           MoveBalance(src, dst, amount)
    PROVE  /\ amount <= balances[src]
           /\ balances' \in [Accounts -> Nat]
           /\ src = dst => balances' = balances
           /\ src # dst => /\ balances'[src] = balances[src] - amount
                           /\ balances'[dst] = balances[dst] + amount
           /\ \A a \in Accounts \ {src, dst} : balances'[a] = balances[a]
<1> DEFINE debited == [balances EXCEPT ![src] = @ - amount]
<1>1. balances \in [Accounts -> Nat] /\ balances[src] \in Nat /\ balances[dst] \in Nat
    BY DEF TokenTypeOK
<1>2. balances[src] >= amount /\ balances' = [debited EXCEPT ![dst] = @ + amount]
    BY DEF MoveBalance
<1>3. balances[src] - amount \in Nat
    BY <1>1, <1>2
<1>4. debited \in [Accounts -> Nat]
    BY <1>1, <1>3
<1>5. src = dst => balances' = balances
    BY <1>1, <1>2
<1>6. QED
    BY <1>1, <1>2, <1>3, <1>4, <1>5

\* A transfer leaves the total as it is.
LEMMA TransferSound ==
    ASSUME Sound, NEW sender \in Accounts, NEW src \in Accounts, NEW dst \in Accounts,
           NEW amount \in Nat, TransferFrom(sender, src, dst, amount)
    PROVE  Sound'
<1>1. MoveBalance(src, dst, amount) /\ UNCHANGED <<totalSupply, superior>>
    BY DEF TransferFrom
<1>2. TokenTypeOK'
    BY <1>1, MovedBalance, SpentAllowance DEF TransferFrom, TokenTypeOK, Sound
<1>3. Total(balances') = Total(balances)
    <2>1. IsFiniteSet(Accounts) /\ balances \in [Accounts -> Nat] /\ balances' \in [Accounts -> Nat]
        BY <1>2, TokenAssumption DEF Sound, TokenTypeOK
    <2>2. CASE src = dst
        BY <1>1, <2>2, MovedBalance DEF Sound
    <2>3. CASE src # dst
        <3>1. /\ balances'[src] = balances[src] - amount
              /\ balances'[dst] = balances[dst] + amount
              /\ \A a \in Accounts \ {src, dst} : balances'[a] = balances[a]
            BY <1>1, <2>3, MovedBalance DEF Sound
        <3>2. Total(balances') = Total(balances) - balances[src] + balances'[src]
                                     - balances[dst] + balances'[dst]
            BY <2>1, <2>3, <3>1, TotalUpdate2
        <3>3. Total(balances) \in Nat /\ balances[src] \in Nat /\ balances[dst] \in Nat
            BY <2>1, TotalType
        <3>4. QED
            BY <3>1, <3>2, <3>3
    <2>4. QED
        BY <2>2, <2>3
<1>4. QED
    BY <1>1, <1>2, <1>3 DEF Sound, TokensConserved

\* What is minted enters a balance and the supply.
LEMMA MintSound ==
    ASSUME Sound, NEW sender \in Accounts, NEW src \in Accounts, NEW amount \in Nat,
           Mint(sender, src, amount)
    PROVE  /\ Sound'
           /\ balances'[src] = balances[src] + amount
           /\ \A a \in Accounts \ {src} : balances'[a] = balances[a]
<1>1. /\ balances \in [Accounts -> Nat] /\ balances[src] \in Nat
      /\ totalSupply \in Nat /\ MaxUint \in Nat /\ totalSupply = Total(balances)
    BY TokenAssumption DEF Sound, TokenTypeOK, TokensConserved
<1>2. /\ balances' = [balances EXCEPT ![src] = @ + amount]
      /\ totalSupply' = totalSupply + amount
      /\ totalSupply + amount <= MaxUint
      /\ UNCHANGED <<allowances, superior>>
    BY DEF Mint
<1>3. /\ balances' \in [Accounts -> Nat]
      /\ balances'[src] = balances[src] + amount
      /\ \A a \in Accounts \ {src} : balances'[a] = balances[a]
    BY <1>1, <1>2
<1>4. Total(balances') = Total(balances) - balances[src] + balances'[src]
    BY <1>1, <1>3, TokenAssumption, TotalUpdate
<1>5. Total(balances') = totalSupply'
    BY <1>1, <1>2, <1>3, <1>4
<1>6. totalSupply' \in 0 .. MaxUint
    BY <1>1, <1>2
<1>7. QED
    BY <1>2, <1>3, <1>5, <1>6 DEF Sound, TokenTypeOK, TokensConserved

\* What is burnt leaves a balance and the supply.
LEMMA BurnSound ==
    ASSUME Sound, NEW sender \in Accounts, NEW src \in Accounts, NEW amount \in Nat,
           Burn(sender, src, amount)
    PROVE  /\ Sound'
           /\ amount <= balances[src]
           /\ balances'[src] = balances[src] - amount
           /\ \A a \in Accounts \ {src} : balances'[a] = balances[a]
<1>1. /\ balances \in [Accounts -> Nat] /\ balances[src] \in Nat
      /\ totalSupply \in Nat /\ totalSupply <= MaxUint /\ MaxUint \in Nat
      /\ totalSupply = Total(balances)
    BY TokenAssumption DEF Sound, TokenTypeOK, TokensConserved
<1>2. /\ balances' = [balances EXCEPT ![src] = @ - amount]
      /\ balances[src] >= amount
      /\ totalSupply >= amount
      /\ totalSupply' = totalSupply - amount
      /\ UNCHANGED superior
    BY DEF Burn
<1>3. balances[src] - amount \in Nat
    BY <1>1, <1>2
<1>4. /\ balances' \in [Accounts -> Nat]
      /\ balances'[src] = balances[src] - amount
      /\ \A a \in Accounts \ {src} : balances'[a] = balances[a]
    BY <1>1, <1>2, <1>3
<1>5. Total(balances') = Total(balances) - balances[src] + balances'[src]
    BY <1>1, <1>4, TokenAssumption, TotalUpdate
<1>6. Total(balances') = totalSupply'
    BY <1>1, <1>2, <1>4, <1>5
<1>7. totalSupply' \in 0 .. MaxUint
    BY <1>1, <1>2
<1>8. allowances' \in [Accounts -> [Accounts -> 0 .. MaxUint]]
    BY SpentAllowance DEF Burn, Sound
<1>9. QED
    BY <1>1, <1>2, <1>4, <1>6, <1>7, <1>8 DEF Sound, TokenTypeOK, TokensConserved

\* Approvals and a new superior leave the books alone.
LEMMA AdministrationSound ==
    ASSUME Sound,
           \/ \E owner, spender \in Accounts, amount \in Approvals : Approve(owner, spender, amount)
           \/ \E contract \in Superiors : SetSuperior(contract)
    PROVE  Sound' /\ UNCHANGED books
<1>1. CASE \E owner, spender \in Accounts, amount \in Approvals : Approve(owner, spender, amount)
    <2>1. PICK owner \in Accounts, spender \in Accounts, amount \in Approvals :
              Approve(owner, spender, amount)
        BY <1>1
    <2>2. amount \in 0 .. MaxUint
        BY TokenAssumption
    <2>3. QED
        BY <2>1, <2>2 DEF Approve, Sound, TokenTypeOK, TokensConserved, books
<1>2. CASE \E contract \in Superiors : SetSuperior(contract)
    BY <1>2 DEF SetSuperior, Sound, TokenTypeOK, TokensConserved, books
<1>3. QED
    BY <1>1, <1>2

\* DOL.sol: the supply of the token is always the sum of its balances.
THEOREM TokenConservation == TokenSpec => []TokensConserved
<1>1. TokenInit => Sound
    <2>1. Total([a \in Accounts |-> 0]) = 0
        BY TotalZero
    <2>2. MaxUint \in Nat
        BY TokenAssumption
    <2>3. QED
        BY <2>1, <2>2 DEF TokenInit, Sound, TokenTypeOK, TokensConserved
<1>2. Sound /\ [TokenNext]_tokenVars => Sound'
    <2> SUFFICES ASSUME Sound, [TokenNext]_tokenVars PROVE Sound'
        OBVIOUS
    <2>1. \A amount \in Amounts : amount \in Nat
        BY TokenAssumption
    <2>2. ASSUME NEW sender \in Accounts, NEW src \in Accounts, NEW dst \in Accounts,
                 NEW amount \in Amounts, TransferFrom(sender, src, dst, amount)
          PROVE  Sound'
        BY <2>1, <2>2, TransferSound
    <2>3. ASSUME NEW sender \in Accounts, NEW src \in Accounts, NEW amount \in Amounts,
                 Mint(sender, src, amount) \/ Burn(sender, src, amount)
          PROVE  Sound'
        BY <2>1, <2>3, MintSound, BurnSound
    <2>4. CASE UNCHANGED tokenVars
        BY <2>4 DEF tokenVars, books, Sound, TokenTypeOK, TokensConserved
    <2>5. QED
        BY <2>2, <2>3, <2>4, AdministrationSound DEF TokenNext
<1>3. Sound => TokensConserved
    BY DEF Sound
<1>4. QED
    BY <1>1, <1>2, <1>3, PTL DEF TokenSpec

-----------------------------------------------------------------------------

Reps == Accounts \cup {Zero}
Blocks == Nat

(***************************************************************************)
(* Checkpoints.                                                            *)
(***************************************************************************)

\* The checkpoints of an account are in the order of their blocks, at most one
\* a block, none in the future; and up to each block there is a last one.
WellFormed(cps, now) ==
    /\ cps \in [Accounts -> Seq(Checkpoint)]
    /\ \A a \in Accounts : \A i, j \in 1 .. Len(cps[a]) :
           i < j => cps[a][i].fromBlock < cps[a][j].fromBlock
    /\ \A a \in Accounts : \A i \in 1 .. Len(cps[a]) : cps[a][i].fromBlock <= now
    /\ \A a \in Accounts, b \in Blocks :
           EntriesUntil(cps, a, b) # {} => \E i \in Nat : IsLast(i, EntriesUntil(cps, a, b))

\* Nothing is different for the blocks that are over.
PastKept(old, new, now) ==
    \A a \in Accounts, b \in Blocks :
        b < now => RecordedVotes(new, a, b) = RecordedVotes(old, a, b)

\* The votes recorded up to a last checkpoint are those of that checkpoint.
LEMMA RecordedLast ==
    ASSUME NEW cps, NEW a, NEW b, EntriesUntil(cps, a, b) \subseteq Nat,
           NEW i, IsLast(i, EntriesUntil(cps, a, b))
    PROVE  RecordedVotes(cps, a, b) = cps[a][i].votes
<1> DEFINE entries == EntriesUntil(cps, a, b)
           chosen == CHOOSE j \in entries : IsLast(j, entries)
<1>1. i \in entries /\ IsLast(i, entries)
    BY DEF IsLast
<1>2. chosen \in entries /\ IsLast(chosen, entries)
    BY <1>1, Zenon
<1>3. chosen = i
    BY <1>1, <1>2 DEF IsLast
<1>4. entries # {}
    BY <1>1
<1>5. QED
    BY <1>3, <1>4 DEF RecordedVotes

\* Entries of one account that agree before `now` record the same past.
LEMMA SameEntries ==
    ASSUME NEW old, NEW new, NEW a \in Accounts, NEW b \in Blocks,
           EntriesUntil(new, a, b) = EntriesUntil(old, a, b),
           EntriesUntil(old, a, b) \subseteq Nat,
           EntriesUntil(old, a, b) # {} => \E i \in Nat : IsLast(i, EntriesUntil(old, a, b)),
           \A i \in EntriesUntil(old, a, b) : new[a][i] = old[a][i]
    PROVE  RecordedVotes(new, a, b) = RecordedVotes(old, a, b)
<1>1. CASE EntriesUntil(old, a, b) = {}
    BY <1>1 DEF RecordedVotes
<1>2. CASE EntriesUntil(old, a, b) # {}
    <2>1. PICK i \in Nat : IsLast(i, EntriesUntil(old, a, b))
        BY <1>2
    <2>2. i \in EntriesUntil(old, a, b)
        BY <2>1 DEF IsLast
    <2>3. RecordedVotes(old, a, b) = old[a][i].votes
        BY <2>1, RecordedLast
    <2>4. RecordedVotes(new, a, b) = new[a][i].votes
        BY <2>1, RecordedLast
    <2>5. QED
        BY <2>2, <2>3, <2>4
<1>3. QED
    BY <1>1, <1>2

\* From the present block on, the last checkpoint is the newest one.
LEMMA NewestIsLast ==
    ASSUME NEW cps, NEW a, NEW b \in Blocks, NEW now \in Nat, now <= b,
           cps[a] \in Seq(Checkpoint), cps[a] # <<>>,
           \A i \in 1 .. Len(cps[a]) : cps[a][i].fromBlock <= now
    PROVE  /\ Len(cps[a]) \in Nat
           /\ EntriesUntil(cps, a, b) = 1 .. Len(cps[a])
           /\ IsLast(Len(cps[a]), EntriesUntil(cps, a, b))
<1>1. Len(cps[a]) \in Nat /\ Len(cps[a]) > 0
    BY EmptySeq, LenProperties
<1>2. \A i \in 1 .. Len(cps[a]) : cps[a][i].fromBlock \in Nat
    <2>1. \A i \in 1 .. Len(cps[a]) : cps[a][i] \in Checkpoint
        BY ElementOfSeq
    <2>2. QED
        BY <2>1 DEF Checkpoint
<1>3. \A i \in 1 .. Len(cps[a]) : cps[a][i].fromBlock <= b
    BY <1>1, <1>2 DEF Blocks
<1>4. EntriesUntil(cps, a, b) = 1 .. Len(cps[a])
    BY <1>3 DEF EntriesUntil
<1>5. QED
    BY <1>1, <1>4 DEF IsLast

\* What is recorded for the present block are the current votes.
LEMMA RecordedNow ==
    ASSUME NEW cps, NEW now \in Nat, WellFormed(cps, now), NEW a \in Accounts
    PROVE  RecordedVotes(cps, a, now) = Votes(cps, a)
<1>1. cps[a] \in Seq(Checkpoint)
    BY DEF WellFormed
<1>2. CASE cps[a] = <<>>
    <2>1. EntriesUntil(cps, a, now) = {}
        BY <1>2, EmptySeq DEF EntriesUntil
    <2>2. QED
        BY <1>2, <2>1 DEF RecordedVotes, Votes
<1>3. CASE cps[a] # <<>>
    <2>1. /\ Len(cps[a]) \in Nat
          /\ EntriesUntil(cps, a, now) = 1 .. Len(cps[a])
          /\ IsLast(Len(cps[a]), EntriesUntil(cps, a, now))
        BY <1>1, <1>3, NewestIsLast DEF WellFormed, Blocks
    <2>2. RecordedVotes(cps, a, now) = cps[a][Len(cps[a])].votes
        BY <2>1, RecordedLast
    <2>3. QED
        BY <1>3, <2>2 DEF Votes
<1>4. QED
    BY <1>2, <1>3

\* The entries of `a` after a write: those before the present block stay, and
\* the newest is of the present block and holds the new votes.
Written(old, new, a, votes) ==
    /\ new \in [Accounts -> Seq(Checkpoint)]
    /\ \A r \in Accounts \ {a} : new[r] = old[r]
    /\ Len(new[a]) \in Nat \ {0}
    /\ Len(old[a]) \in Nat
    /\ Len(new[a]) \in {Len(old[a]), Len(old[a]) + 1}
    /\ new[a][Len(new[a])] = [fromBlock |-> block, votes |-> votes]
    /\ \A i \in 1 .. Len(new[a]) - 1 : /\ new[a][i] = old[a][i]
                                       /\ new[a][i].fromBlock \in Nat
                                       /\ new[a][i].fromBlock < block
    /\ \A i \in 1 .. Len(old[a]) : i \notin 1 .. Len(new[a]) - 1 => old[a][i].fromBlock = block

LEMMA WrittenEntries ==
    ASSUME NEW cps, WellFormed(cps, block), block \in Nat, NEW a \in Accounts, NEW votes \in Nat
    PROVE  Written(cps, WriteCheckpoint(cps, a, votes), a, votes)
<1> DEFINE new == WriteCheckpoint(cps, a, votes)
           old == cps[a]
           m == Len(old)
           entry == [fromBlock |-> block, votes |-> votes]
<1>1. old \in Seq(Checkpoint) /\ m \in Nat /\ entry \in Checkpoint
    BY LenProperties DEF WellFormed, Checkpoint
<1>2. cps \in [Accounts -> Seq(Checkpoint)]
    BY DEF WellFormed
<1>3. \A i \in 1 .. m : old[i].fromBlock \in Nat /\ old[i].fromBlock <= block
    <2>1. \A i \in 1 .. m : old[i] \in Checkpoint
        BY <1>1, ElementOfSeq
    <2>2. QED
        BY <2>1 DEF WellFormed, Checkpoint
<1>4. \A i, j \in 1 .. m : i < j => old[i].fromBlock < old[j].fromBlock
    BY DEF WellFormed
<1>5. CASE m > 0 /\ old[m].fromBlock = block
    <2>1. new = [cps EXCEPT ![a] = [old EXCEPT ![m] = entry]]
        BY <1>2, <1>5 DEF WriteCheckpoint
    <2>2. /\ [old EXCEPT ![m] = entry] \in Seq(Checkpoint)
          /\ Len([old EXCEPT ![m] = entry]) = m
          /\ \A i \in 1 .. m : [old EXCEPT ![m] = entry][i] = IF i = m THEN entry ELSE old[i]
        BY <1>1, <1>5, ExceptSeq
    <2>3. new[a] = [old EXCEPT ![m] = entry] /\ \A r \in Accounts \ {a} : new[r] = cps[r]
        BY <1>2, <2>1
    <2>4. new \in [Accounts -> Seq(Checkpoint)]
        BY <1>2, <2>1, <2>2
    <2>5. \A i \in 1 .. m - 1 : i \in 1 .. m /\ old[i].fromBlock \in Nat /\ old[i].fromBlock < block
        BY <1>1, <1>3, <1>4, <1>5
    <2> HIDE DEF new
    <2>6. Written(cps, new, a, votes)
        BY <1>1, <1>5, <2>2, <2>3, <2>4, <2>5 DEF Written
    <2>7. QED
        BY <2>6 DEF new
<1>6. CASE ~(m > 0 /\ old[m].fromBlock = block)
    <2>1. new = [cps EXCEPT ![a] = Append(old, entry)]
        BY <1>2, <1>6 DEF WriteCheckpoint
    <2>2. /\ Append(old, entry) \in Seq(Checkpoint)
          /\ Len(Append(old, entry)) = m + 1
          /\ \A i \in 1 .. m : Append(old, entry)[i] = old[i]
          /\ Append(old, entry)[m + 1] = entry
        BY <1>1, AppendProperties
    <2>3. new[a] = Append(old, entry) /\ \A r \in Accounts \ {a} : new[r] = cps[r]
        BY <1>2, <2>1
    <2>4. new \in [Accounts -> Seq(Checkpoint)]
        BY <1>2, <2>1, <2>2
    <2>5. \A i \in 1 .. m : old[i].fromBlock \in Nat /\ old[i].fromBlock < block
        BY <1>1, <1>3, <1>4, <1>6
    <2> HIDE DEF new
    <2>6. Written(cps, new, a, votes)
        BY <1>1, <2>2, <2>3, <2>4, <2>5 DEF Written
    <2>7. QED
        BY <2>6 DEF new
<1>7. QED
    BY <1>5, <1>6

\* A write keeps the checkpoints in order and the past as it is, and sets the
\* votes of the account it is for.
Updated(old, new, a, votes) ==
    /\ WellFormed(new, block)
    /\ PastKept(old, new, block)
    /\ Votes(new, a) = votes
    /\ \A r \in Accounts \ {a} : Votes(new, r) = Votes(old, r)

LEMMA WriteUpdates ==
    ASSUME NEW cps, WellFormed(cps, block), block \in Nat, NEW a \in Accounts, NEW votes \in Nat
    PROVE  Updated(cps, WriteCheckpoint(cps, a, votes), a, votes)
<1> DEFINE new == WriteCheckpoint(cps, a, votes)
           n == Len(new[a])
<1>1. Written(cps, new, a, votes)
    BY WrittenEntries
<1> HIDE DEF new
<1>2. n \in Nat \ {0} /\ new \in [Accounts -> Seq(Checkpoint)]
    BY <1>1 DEF Written
<1>3. \A i \in 1 .. n : /\ new[a][i].fromBlock \in Nat
                        /\ new[a][i].fromBlock <= block
                        /\ i < n => new[a][i].fromBlock < block
    BY <1>1, <1>2 DEF Written
<1>4. new[a][n].fromBlock = block /\ new[a][n].votes = votes
    BY <1>1 DEF Written
<1>5. ASSUME NEW b \in Blocks, b < block
      PROVE  /\ EntriesUntil(new, a, b) = EntriesUntil(cps, a, b)
             /\ EntriesUntil(new, a, b) \subseteq 1 .. n - 1
    <2>1. \A i \in EntriesUntil(new, a, b) : i \in 1 .. n /\ i # n
        BY <1>2, <1>4, <1>5 DEF EntriesUntil, Blocks
    <2>2. EntriesUntil(new, a, b) \subseteq 1 .. n - 1
        BY <1>2, <2>1
    <2>3. EntriesUntil(cps, a, b) \subseteq 1 .. n - 1
        BY <1>1, <1>5 DEF EntriesUntil, Written, Blocks
    <2>4. \A i \in 1 .. n - 1 : i \in 1 .. n /\ i \in 1 .. Len(cps[a]) /\ new[a][i] = cps[a][i]
        BY <1>1, <1>2 DEF Written
    <2>5. QED
        BY <2>2, <2>3, <2>4 DEF EntriesUntil
<1>6. ASSUME NEW r \in Accounts \ {a}
      PROVE  /\ \A b \in Blocks : /\ EntriesUntil(new, r, b) = EntriesUntil(cps, r, b)
                                  /\ RecordedVotes(new, r, b) = RecordedVotes(cps, r, b)
             /\ Votes(new, r) = Votes(cps, r)
    <2>1. new[r] = cps[r]
        BY <1>1 DEF Written
    <2>2. QED
        BY <2>1 DEF EntriesUntil, RecordedVotes, Votes
<1>7. PastKept(cps, new, block)
    <2> SUFFICES ASSUME NEW r \in Accounts, NEW b \in Blocks, b < block
                 PROVE  RecordedVotes(new, r, b) = RecordedVotes(cps, r, b)
        BY DEF PastKept
    <2>1. CASE r # a
        BY <1>6, <2>1
    <2>2. CASE r = a
        <3>1. /\ EntriesUntil(new, a, b) = EntriesUntil(cps, a, b)
              /\ EntriesUntil(cps, a, b) \subseteq 1 .. n - 1
            BY <1>5
        <3>2. \A i \in EntriesUntil(cps, a, b) : new[a][i] = cps[a][i]
            BY <1>1, <3>1 DEF Written
        <3>3. EntriesUntil(cps, a, b) # {} => \E i \in Nat : IsLast(i, EntriesUntil(cps, a, b))
            BY DEF WellFormed
        <3>4. EntriesUntil(cps, a, b) \subseteq Nat
            BY <1>2, <3>1
        <3>5. QED
            BY <2>2, <3>1, <3>2, <3>3, <3>4, SameEntries
    <2>3. QED
        BY <2>1, <2>2
<1>8. \A r \in Accounts : \A i, j \in 1 .. Len(new[r]) :
          i < j => new[r][i].fromBlock < new[r][j].fromBlock
    <2> SUFFICES ASSUME NEW r \in Accounts, NEW i \in 1 .. Len(new[r]), NEW j \in 1 .. Len(new[r]),
                        i < j
                 PROVE  new[r][i].fromBlock < new[r][j].fromBlock
        OBVIOUS
    <2>1. CASE r # a
        BY <1>1, <2>1 DEF Written, WellFormed
    <2>2. CASE r = a /\ j = n
        BY <1>2, <1>3, <1>4, <2>2
    <2>3. CASE r = a /\ j # n
        <3>1. i \in 1 .. n - 1 /\ j \in 1 .. n - 1 /\ i \in 1 .. Len(cps[a]) /\ j \in 1 .. Len(cps[a])
            BY <1>1, <1>2, <2>3 DEF Written
        <3>2. new[a][i] = cps[a][i] /\ new[a][j] = cps[a][j]
            BY <1>1, <3>1 DEF Written
        <3>3. cps[a][i].fromBlock < cps[a][j].fromBlock
            BY <3>1 DEF WellFormed
        <3>4. QED
            BY <2>3, <3>2, <3>3
    <2>4. QED
        BY <2>1, <2>2, <2>3
<1>9. \A r \in Accounts : \A i \in 1 .. Len(new[r]) : new[r][i].fromBlock <= block
    BY <1>1, <1>3 DEF Written, WellFormed
<1>10. ASSUME NEW r \in Accounts, NEW b \in Blocks, EntriesUntil(new, r, b) # {}
       PROVE  \E i \in Nat : IsLast(i, EntriesUntil(new, r, b))
    <2>1. CASE r # a
        BY <1>6, <1>10, <2>1 DEF WellFormed
    <2>2. CASE r = a /\ b < block
        BY <1>5, <1>10, <2>2 DEF WellFormed
    <2>3. CASE r = a /\ ~(b < block)
        <3>1. new[a] \in Seq(Checkpoint) /\ new[a] # <<>>
            BY <1>2, EmptySeq
        <3>2. block <= b
            BY <2>3 DEF Blocks
        <3>3. n \in Nat /\ IsLast(n, EntriesUntil(new, a, b))
            BY <1>9, <3>1, <3>2, NewestIsLast
        <3>4. QED
            BY <2>3, <3>3
    <2>4. QED
        BY <2>1, <2>2, <2>3
<1>11. WellFormed(new, block)
    BY <1>2, <1>8, <1>9, <1>10 DEF WellFormed
<1>12. Votes(new, a) = votes
    <2>1. new[a] # <<>>
        BY <1>2, EmptySeq
    <2>2. QED
        BY <1>4, <2>1 DEF Votes
<1>13. QED
    BY <1>6, <1>7, <1>11, <1>12 DEF Updated, new

(***************************************************************************)
(* Moving votes.                                                           *)
(***************************************************************************)

\* What `amount` votes moved from srcRep to dstRep make of the votes of `r`.
Moved(votes, r, srcRep, dstRep, amount) ==
    IF srcRep = dstRep THEN votes
    ELSE IF r = srcRep THEN votes - amount
    ELSE IF r = dstRep THEN votes + amount
    ELSE votes

\* Current votes are natural numbers.
LEMMA VotesType ==
    ASSUME NEW cps, NEW now, WellFormed(cps, now), NEW a \in Accounts
    PROVE  Votes(cps, a) \in Nat
<1>1. cps[a] \in Seq(Checkpoint)
    BY DEF WellFormed
<1>2. CASE cps[a] = <<>>
    BY <1>2 DEF Votes
<1>3. CASE cps[a] # <<>>
    <2>1. Len(cps[a]) \in 1 .. Len(cps[a])
        BY <1>1, <1>3, EmptySeq, LenProperties
    <2>2. cps[a][Len(cps[a])] \in Checkpoint
        BY <1>1, <2>1, ElementOfSeq
    <2>3. QED
        BY <1>3, <2>2 DEF Votes, Checkpoint
<1>4. QED
    BY <1>2, <1>3

\* A debit and a credit, each with the other accounts as they were.
LEMMA DebitUpdates ==
    ASSUME WellFormed(checkpoints, block), block \in Nat, NEW srcRep \in Reps, NEW amount \in Nat,
           srcRep # Zero => amount <= Votes(checkpoints, srcRep)
    PROVE  /\ WellFormed(Debited(srcRep, amount), block)
           /\ PastKept(checkpoints, Debited(srcRep, amount), block)
           /\ \A r \in Accounts : Votes(Debited(srcRep, amount), r) =
                  IF r = srcRep THEN Votes(checkpoints, r) - amount ELSE Votes(checkpoints, r)
<1>1. CASE srcRep = Zero
    BY <1>1, TokenAssumption DEF Debited, PastKept
<1>2. CASE srcRep # Zero
    <2>1. srcRep \in Accounts
        BY <1>2 DEF Reps
    <2>2. Votes(checkpoints, srcRep) - amount \in Nat
        BY <1>2, <2>1, VotesType
    <2>3. Updated(checkpoints, Debited(srcRep, amount), srcRep, Votes(checkpoints, srcRep) - amount)
        BY <1>2, <2>1, <2>2, WriteUpdates DEF Debited
    <2>4. QED
        BY <2>1, <2>3 DEF Updated
<1>3. QED
    BY <1>1, <1>2

LEMMA CreditUpdates ==
    ASSUME NEW cps, WellFormed(cps, block), block \in Nat, NEW dstRep \in Reps, NEW amount \in Nat
    PROVE  /\ WellFormed(Credited(cps, dstRep, amount), block)
           /\ PastKept(cps, Credited(cps, dstRep, amount), block)
           /\ \A r \in Accounts : Votes(Credited(cps, dstRep, amount), r) =
                  IF r = dstRep THEN Votes(cps, r) + amount ELSE Votes(cps, r)
<1>1. CASE dstRep = Zero
    BY <1>1, TokenAssumption DEF Credited, PastKept
<1>2. CASE dstRep # Zero
    <2>1. dstRep \in Accounts
        BY <1>2 DEF Reps
    <2>2. Votes(cps, dstRep) + amount \in Nat
        BY <2>1, VotesType
    <2>3. Updated(cps, Credited(cps, dstRep, amount), dstRep, Votes(cps, dstRep) + amount)
        BY <1>2, <2>1, <2>2, WriteUpdates DEF Credited
    <2>4. QED
        BY <2>1, <2>3 DEF Updated
<1>3. QED
    BY <1>1, <1>2

\* _moveDelegates: the votes move, whatever was written in this block before.
LEMMA VotesMove ==
    ASSUME WellFormed(checkpoints, block), block \in Nat,
           NEW srcRep \in Reps, NEW dstRep \in Reps, NEW amount \in Nat,
           MoveDelegates(srcRep, dstRep, amount)
    PROVE  /\ WellFormed(checkpoints', block)
           /\ PastKept(checkpoints, checkpoints', block)
           /\ \A r \in Accounts :
                  Votes(checkpoints', r) = Moved(Votes(checkpoints, r), r, srcRep, dstRep, amount)
<1>1. CASE srcRep # dstRep /\ amount > 0
    <2> DEFINE mid == Debited(srcRep, amount)
    <2>1. /\ checkpoints' = Credited(mid, dstRep, amount)
          /\ srcRep # Zero => amount <= Votes(checkpoints, srcRep)
        BY <1>1 DEF MoveDelegates, MoveAllowed
    <2>2. /\ WellFormed(mid, block)
          /\ PastKept(checkpoints, mid, block)
          /\ \A r \in Accounts : Votes(mid, r) =
                 IF r = srcRep THEN Votes(checkpoints, r) - amount ELSE Votes(checkpoints, r)
        BY <2>1, DebitUpdates
    <2> HIDE DEF mid
    <2>3. /\ WellFormed(checkpoints', block)
          /\ PastKept(mid, checkpoints', block)
          /\ \A r \in Accounts : Votes(checkpoints', r) =
                 IF r = dstRep THEN Votes(mid, r) + amount ELSE Votes(mid, r)
        BY <2>1, <2>2, CreditUpdates
    <2>4. PastKept(checkpoints, checkpoints', block)
        BY <2>2, <2>3 DEF PastKept
    <2>5. QED
        BY <1>1, <2>2, <2>3, <2>4 DEF Moved
<1>2. CASE ~(srcRep # dstRep /\ amount > 0)
    <2>1. checkpoints' = checkpoints
        BY <1>2 DEF MoveDelegates
    <2>2. \A r \in Accounts : Votes(checkpoints, r) \in Nat
        BY VotesType
    <2>3. \A r \in Accounts :
              Moved(Votes(checkpoints, r), r, srcRep, dstRep, amount) = Votes(checkpoints, r)
        BY <1>2, <2>2 DEF Moved
    <2>4. QED
        BY <2>1, <2>3 DEF PastKept
<1>3. QED
    BY <1>1, <1>2

(***************************************************************************)
(* The votes of a representative are a ledger of its delegators.           *)
(***************************************************************************)
Ledger(bal, del, r) == [h \in Accounts |-> IF del[h] = r THEN bal[h] ELSE 0]

LEMMA LedgerType ==
    ASSUME NEW bal \in [Accounts -> Nat], NEW del, NEW r
    PROVE  Ledger(bal, del, r) \in [Accounts -> Nat] /\ Total(Ledger(bal, del, r)) \in Nat
<1>1. Ledger(bal, del, r) \in [Accounts -> Nat]
    BY DEF Ledger
<1>2. QED
    BY <1>1, TotalType, TokenAssumption

LEMMA RegisterVotes ==
    ASSUME NEW r
    PROVE  /\ Register!VotesOf(r) = Total(Ledger(balances, delegates, r))
           /\ Register!VotesOf(r)' = Total(Ledger(balances', delegates', r))
BY DEF Register!VotesOf, Register!DelegatedTo, Ledger,
       Register!Total, Register!Units, Register!UnitsOf, Register!Cardinality,
       Total, Units, UnitsOf, Cardinality

\* A ledger that changes at one holder.
LEMMA LedgerOne ==
    ASSUME NEW bal \in [Accounts -> Nat], NEW del, NEW bal2 \in [Accounts -> Nat], NEW del2,
           NEW h \in Accounts, NEW r,
           \A a \in Accounts \ {h} : bal2[a] = bal[a] /\ del2[a] = del[a]
    PROVE  Total(Ledger(bal2, del2, r)) = Total(Ledger(bal, del, r))
               - (IF del[h] = r THEN bal[h] ELSE 0) + (IF del2[h] = r THEN bal2[h] ELSE 0)
<1> DEFINE before == Ledger(bal, del, r)
           after == Ledger(bal2, del2, r)
<1>1. before \in [Accounts -> Nat] /\ after \in [Accounts -> Nat]
    BY LedgerType
<1>2. /\ before[h] = IF del[h] = r THEN bal[h] ELSE 0
      /\ after[h] = IF del2[h] = r THEN bal2[h] ELSE 0
      /\ \A a \in Accounts \ {h} : after[a] = before[a]
    BY DEF Ledger
<1> HIDE DEF before, after
<1>3. Total(after) = Total(before) - before[h] + after[h]
    BY <1>1, <1>2, TotalUpdate, TokenAssumption
<1>4. QED
    BY <1>2, <1>3 DEF before, after

\* A credit, a debit, a delegation and a transfer move the total of a
\* representative's ledger as _moveDelegates moves its votes.
LEMMA CreditLedger ==
    ASSUME NEW bal \in [Accounts -> Nat], NEW del \in [Accounts -> Reps],
           NEW bal2 \in [Accounts -> Nat], NEW h \in Accounts, NEW amount \in Nat,
           bal2[h] = bal[h] + amount, \A a \in Accounts \ {h} : bal2[a] = bal[a],
           NEW r \in Accounts
    PROVE  Total(Ledger(bal2, del, r)) = Moved(Total(Ledger(bal, del, r)), r, Zero, del[h], amount)
<1>1. Total(Ledger(bal2, del, r)) = Total(Ledger(bal, del, r))
          - (IF del[h] = r THEN bal[h] ELSE 0) + (IF del[h] = r THEN bal2[h] ELSE 0)
    BY LedgerOne
<1>2. r # Zero
    BY TokenAssumption
<1>3. Total(Ledger(bal, del, r)) \in Nat /\ bal[h] \in Nat
    BY LedgerType
<1>4. QED
    BY <1>1, <1>2, <1>3 DEF Moved

LEMMA DebitLedger ==
    ASSUME NEW bal \in [Accounts -> Nat], NEW del \in [Accounts -> Reps],
           NEW bal2 \in [Accounts -> Nat], NEW h \in Accounts, NEW amount \in Nat,
           amount <= bal[h],
           bal2[h] = bal[h] - amount, \A a \in Accounts \ {h} : bal2[a] = bal[a],
           NEW r \in Accounts
    PROVE  Total(Ledger(bal2, del, r)) = Moved(Total(Ledger(bal, del, r)), r, del[h], Zero, amount)
<1>1. Total(Ledger(bal2, del, r)) = Total(Ledger(bal, del, r))
          - (IF del[h] = r THEN bal[h] ELSE 0) + (IF del[h] = r THEN bal2[h] ELSE 0)
    BY LedgerOne
<1>2. r # Zero
    BY TokenAssumption
<1>3. Total(Ledger(bal, del, r)) \in Nat /\ bal[h] \in Nat
    BY LedgerType
<1>4. QED
    BY <1>1, <1>2, <1>3 DEF Moved

LEMMA DelegationLedger ==
    ASSUME NEW bal \in [Accounts -> Nat], NEW del \in [Accounts -> Reps],
           NEW h \in Accounts, NEW rep \in Reps, NEW r \in Accounts
    PROVE  Total(Ledger(bal, [del EXCEPT ![h] = rep], r))
               = Moved(Total(Ledger(bal, del, r)), r, del[h], rep, bal[h])
<1> DEFINE del2 == [del EXCEPT ![h] = rep]
<1>1. del2[h] = rep /\ \A a \in Accounts \ {h} : del2[a] = del[a]
    OBVIOUS
<1> HIDE DEF del2
<1>2. Total(Ledger(bal, del2, r)) = Total(Ledger(bal, del, r))
          - (IF del[h] = r THEN bal[h] ELSE 0) + (IF del2[h] = r THEN bal[h] ELSE 0)
    BY <1>1, LedgerOne
<1>3. Total(Ledger(bal, del, r)) \in Nat /\ bal[h] \in Nat
    BY LedgerType
<1>4. Total(Ledger(bal, del2, r)) = Moved(Total(Ledger(bal, del, r)), r, del[h], rep, bal[h])
    BY <1>1, <1>2, <1>3 DEF Moved
<1>5. QED
    BY <1>4 DEF del2

Transferred(bal, bal2, src, dst, amount) ==
    /\ amount <= bal[src]
    /\ src = dst => bal2 = bal
    /\ src # dst => bal2[src] = bal[src] - amount /\ bal2[dst] = bal[dst] + amount
    /\ \A a \in Accounts \ {src, dst} : bal2[a] = bal[a]

LEMMA TransferLedger ==
    ASSUME NEW bal \in [Accounts -> Nat], NEW del \in [Accounts -> Reps],
           NEW bal2 \in [Accounts -> Nat], NEW src \in Accounts, NEW dst \in Accounts,
           NEW amount \in Nat, Transferred(bal, bal2, src, dst, amount),
           NEW r \in Accounts
    PROVE  Total(Ledger(bal2, del, r))
               = Moved(Total(Ledger(bal, del, r)), r, del[src], del[dst], amount)
<1>1. CASE src = dst
    BY <1>1 DEF Moved, Transferred
<1>2. CASE src # dst
    <2> DEFINE before == Ledger(bal, del, r)
               after == Ledger(bal2, del, r)
    <2>1. before \in [Accounts -> Nat] /\ after \in [Accounts -> Nat]
        BY LedgerType
    <2>2. /\ before[src] = IF del[src] = r THEN bal[src] ELSE 0
          /\ after[src] = IF del[src] = r THEN bal[src] - amount ELSE 0
          /\ before[dst] = IF del[dst] = r THEN bal[dst] ELSE 0
          /\ after[dst] = IF del[dst] = r THEN bal[dst] + amount ELSE 0
          /\ \A a \in Accounts \ {src, dst} : after[a] = before[a]
        BY <1>2 DEF Ledger, Transferred
    <2> HIDE DEF before, after
    <2>3. Total(after) = Total(before) - before[src] + after[src] - before[dst] + after[dst]
        BY <1>2, <2>1, <2>2, TotalUpdate2, TokenAssumption
    <2>4. Total(before) \in Nat /\ bal[src] \in Nat /\ bal[dst] \in Nat
        BY <2>1, TotalType, TokenAssumption
    <2>5. Total(after) = Moved(Total(before), r, del[src], del[dst], amount)
        BY <2>2, <2>3, <2>4 DEF Moved, Transferred
    <2>6. QED
        BY <2>5 DEF before, after
<1>3. QED
    BY <1>1, <1>2

(***************************************************************************)
(* The inductive invariant: the votes of the newest checkpoints match the  *)
(* balances, and the checkpoints are in order.                             *)
(***************************************************************************)
Consistent ==
    /\ TypeOK
    /\ SupplyCapped
    /\ WellFormed(checkpoints, block)
    /\ VotesMatchBalances

\* What a step within a block does.
Within ==
    /\ Consistent'
    /\ block' = block
    /\ PastKept(checkpoints, checkpoints', block)

LEMMA ConsistentFacts ==
    ASSUME Consistent
    PROVE  /\ Sound
           /\ block \in Nat \ {0}
           /\ balances \in [Accounts -> Nat]
           /\ delegates \in [Accounts -> Reps]
           /\ WellFormed(checkpoints, block)
           /\ \A r \in Accounts :
                  Votes(checkpoints, r) = Total(Ledger(balances, delegates, r))
BY RegisterVotes
   DEF Consistent, TypeOK, SupplyCapped, Sound, VotesMatchBalances, TokenTypeOK, Reps

\* Every operation that moves tokens or delegations moves the votes with them.
LEMMA VotesFollow ==
    ASSUME Consistent, Sound', totalSupply' <= MaxSupply, block' = block,
           delegates' \in [Accounts -> Reps], nonces' \in [Accounts -> Nat],
           applied' \subseteq Signatures,
           NEW srcRep \in Reps, NEW dstRep \in Reps, NEW amount \in Nat,
           MoveDelegates(srcRep, dstRep, amount),
           \A r \in Accounts : Total(Ledger(balances', delegates', r))
               = Moved(Total(Ledger(balances, delegates, r)), r, srcRep, dstRep, amount)
    PROVE  Within
<1>1. /\ WellFormed(checkpoints', block)
      /\ PastKept(checkpoints, checkpoints', block)
      /\ \A r \in Accounts :
             Votes(checkpoints', r) = Moved(Votes(checkpoints, r), r, srcRep, dstRep, amount)
    BY ConsistentFacts, VotesMove
<1>2. \A r \in Accounts : Votes(checkpoints', r) = Total(Ledger(balances', delegates', r))
    BY <1>1, ConsistentFacts
<1>3. VotesMatchBalances'
    BY <1>2, RegisterVotes DEF VotesMatchBalances
<1>4. checkpoints' \in [Accounts -> Seq(Checkpoint)]
    BY <1>1 DEF WellFormed
<1>5. TypeOK'
    BY <1>4, ConsistentFacts DEF TypeOK, Sound, Reps
<1>6. SupplyCapped'
    BY DEF SupplyCapped, Sound
<1>7. WellFormed(checkpoints, block)'
    BY <1>1
<1>8. QED
    BY <1>1, <1>3, <1>5, <1>6, <1>7 DEF Consistent, Within

LEMMA TransferWithin ==
    ASSUME Consistent, NEW sender \in Accounts, NEW src \in Accounts, NEW dst \in Accounts,
           NEW amount \in Nat, Transfer(sender, src, dst, amount)
    PROVE  Within
<1>1. /\ TransferFrom(sender, src, dst, amount)
      /\ MoveDelegates(delegates[src], delegates[dst], amount)
      /\ UNCHANGED <<block, delegates, nonces, applied>>
    BY DEF Transfer
<1>2. Sound' /\ UNCHANGED totalSupply /\ balances' \in [Accounts -> Nat]
    BY <1>1, ConsistentFacts, TransferSound DEF TransferFrom, Sound, TokenTypeOK
<1>3. Transferred(balances, balances', src, dst, amount)
    BY <1>1, ConsistentFacts, MovedBalance DEF TransferFrom, Sound, Transferred
<1>4. \A r \in Accounts : Total(Ledger(balances', delegates', r))
          = Moved(Total(Ledger(balances, delegates, r)), r, delegates[src], delegates[dst], amount)
    <2>1. /\ balances \in [Accounts -> Nat] /\ delegates \in [Accounts -> Reps]
          /\ delegates' = delegates
        BY <1>1, ConsistentFacts
    <2>2. ASSUME NEW r \in Accounts
          PROVE  Total(Ledger(balances', delegates, r))
              = Moved(Total(Ledger(balances, delegates, r)), r, delegates[src], delegates[dst], amount)
        BY <1>2, <1>3, <2>1, TransferLedger
    <2>3. QED
        BY <2>1, <2>2
<1>5. /\ delegates[src] \in Reps /\ delegates[dst] \in Reps
      /\ delegates' \in [Accounts -> Reps] /\ nonces' \in [Accounts -> Nat]
      /\ applied' \subseteq Signatures /\ totalSupply' <= MaxSupply
    BY <1>1, <1>2, ConsistentFacts DEF Consistent, TypeOK, SupplyCapped
<1>6. QED
    BY <1>1, <1>2, <1>4, <1>5, VotesFollow

LEMMA MintWithin ==
    ASSUME Consistent, NEW sender \in Accounts, NEW src \in Accounts,
           NEW amount \in Nat, MintCapped(sender, src, amount)
    PROVE  Within
<1>1. /\ totalSupply + amount <= MaxSupply
      /\ Mint(sender, src, amount)
      /\ MoveDelegates(Zero, delegates[src], amount)
      /\ UNCHANGED <<block, delegates, nonces, applied>>
    BY DEF MintCapped
<1>2. /\ Sound' /\ balances' \in [Accounts -> Nat]
      /\ balances'[src] = balances[src] + amount
      /\ \A a \in Accounts \ {src} : balances'[a] = balances[a]
    BY <1>1, ConsistentFacts, MintSound DEF Sound, TokenTypeOK
<1>3. \A r \in Accounts : Total(Ledger(balances', delegates', r))
          = Moved(Total(Ledger(balances, delegates, r)), r, Zero, delegates[src], amount)
    BY <1>1, <1>2, ConsistentFacts, CreditLedger
<1>4. /\ delegates[src] \in Reps /\ Zero \in Reps
      /\ delegates' \in [Accounts -> Reps] /\ nonces' \in [Accounts -> Nat]
      /\ applied' \subseteq Signatures /\ totalSupply' <= MaxSupply
    BY <1>1, ConsistentFacts DEF Consistent, TypeOK, Mint, Reps
<1>5. QED
    BY <1>1, <1>2, <1>3, <1>4, VotesFollow

LEMMA BurnWithin ==
    ASSUME Consistent, NEW sender \in Accounts, NEW src \in Accounts,
           NEW amount \in Nat, BurnVotes(sender, src, amount)
    PROVE  Within
<1>1. /\ Burn(sender, src, amount)
      /\ MoveDelegates(delegates[src], Zero, amount)
      /\ UNCHANGED <<block, delegates, nonces, applied>>
    BY DEF BurnVotes
<1>2. /\ Sound' /\ balances' \in [Accounts -> Nat]
      /\ amount <= balances[src]
      /\ balances'[src] = balances[src] - amount
      /\ \A a \in Accounts \ {src} : balances'[a] = balances[a]
    BY <1>1, ConsistentFacts, BurnSound DEF Sound, TokenTypeOK
<1>3. \A r \in Accounts : Total(Ledger(balances', delegates', r))
          = Moved(Total(Ledger(balances, delegates, r)), r, delegates[src], Zero, amount)
    BY <1>1, <1>2, ConsistentFacts, DebitLedger
<1>4. totalSupply' <= MaxSupply
    BY <1>1, VotesAssumption, TokenAssumption
       DEF Consistent, TypeOK, TokenTypeOK, SupplyCapped, Burn
<1>5. /\ delegates[src] \in Reps /\ Zero \in Reps
      /\ delegates' \in [Accounts -> Reps] /\ nonces' \in [Accounts -> Nat]
      /\ applied' \subseteq Signatures
    BY <1>1, ConsistentFacts DEF Consistent, TypeOK, Reps
<1>6. QED
    BY <1>1, <1>2, <1>3, <1>4, <1>5, VotesFollow

LEMMA DelegationWithin ==
    ASSUME Consistent, NEW delegator \in Accounts, NEW delegatee \in Reps,
           DelegateVotes(delegator, delegatee),
           nonces' \in [Accounts -> Nat], applied' \subseteq Signatures
    PROVE  Within
<1>1. /\ delegates' = [delegates EXCEPT ![delegator] = delegatee]
      /\ MoveDelegates(delegates[delegator], delegatee, balances[delegator])
      /\ UNCHANGED <<balances, totalSupply, allowances, superior, block>>
    BY DEF DelegateVotes, tokenVars, books
<1>2. Sound' /\ totalSupply' <= MaxSupply
    BY <1>1, ConsistentFacts DEF Sound, TokenTypeOK, TokensConserved, Consistent, SupplyCapped
<1>3. \A r \in Accounts : Total(Ledger(balances', delegates', r))
          = Moved(Total(Ledger(balances, delegates, r)), r,
                  delegates[delegator], delegatee, balances[delegator])
    BY <1>1, ConsistentFacts, DelegationLedger
<1>4. /\ delegates[delegator] \in Reps /\ balances[delegator] \in Nat
      /\ delegates' \in [Accounts -> Reps]
    BY <1>1, ConsistentFacts
<1>5. QED
    BY <1>1, <1>2, <1>3, <1>4, VotesFollow

LEMMA SignedWithin ==
    ASSUME Consistent, NEW sig \in Signatures, DelegateBySig(sig)
    PROVE  Within
<1>1. sig.signatory \in Accounts /\ sig.delegatee \in Reps
    BY VotesAssumption DEF Signature, Reps
<1>2. nonces' \in [Accounts -> Nat] /\ applied' \subseteq Signatures
    BY <1>1 DEF DelegateBySig, Consistent, TypeOK
<1>3. QED
    BY <1>1, <1>2, DelegationWithin DEF DelegateBySig

\* A step that leaves the votes alone.
LEMMA QuietWithin ==
    ASSUME Consistent, Sound', UNCHANGED books,
           UNCHANGED <<block, delegates, checkpoints, nonces, applied>>
    PROVE  Within
<1>1. TypeOK' /\ SupplyCapped'
    BY DEF Consistent, TypeOK, Sound, books, SupplyCapped
<1>2. VotesMatchBalances'
    BY RegisterVotes DEF Consistent, VotesMatchBalances, books
<1>3. WellFormed(checkpoints, block)' /\ PastKept(checkpoints, checkpoints', block)
    BY DEF Consistent, PastKept
<1>4. QED
    BY <1>1, <1>2, <1>3 DEF Consistent, Within

LEMMA NextBlockConsistent ==
    ASSUME Consistent, NextBlock
    PROVE  Consistent'
<1>1. /\ block' = block + 1
      /\ UNCHANGED <<balances, totalSupply, allowances, superior,
                     delegates, checkpoints, nonces, applied>>
    BY DEF NextBlock, tokenVars, books
<1>2. TypeOK' /\ SupplyCapped'
    BY <1>1 DEF Consistent, TypeOK, TokenTypeOK, SupplyCapped, TokensConserved
<1>3. VotesMatchBalances'
    BY <1>1, RegisterVotes DEF Consistent, VotesMatchBalances
<1>4. \A a \in Accounts : \A i \in 1 .. Len(checkpoints[a]) :
          checkpoints[a][i].fromBlock \in Nat
    <2>1. \A a \in Accounts : \A i \in 1 .. Len(checkpoints[a]) : checkpoints[a][i] \in Checkpoint
        BY ElementOfSeq DEF Consistent, WellFormed
    <2>2. QED
        BY <2>1 DEF Checkpoint
<1>5. WellFormed(checkpoints, block + 1)
    BY <1>4 DEF Consistent, TypeOK, WellFormed
<1>6. QED
    BY <1>1, <1>2, <1>3, <1>5 DEF Consistent

\* Every step is one within the block or the end of the block.
LEMMA StepKinds ==
    ASSUME Consistent, [Next]_vars
    PROVE  Within \/ (NextBlock /\ Consistent')
<1>1. \A amount \in Amounts : amount \in Nat
    BY TokenAssumption
<1>2. CASE \E sender, src, dst \in Accounts, amount \in Amounts : Transfer(sender, src, dst, amount)
    BY <1>1, <1>2, TransferWithin
<1>3. CASE \E sender, src \in Accounts, amount \in Amounts : MintCapped(sender, src, amount)
    BY <1>1, <1>3, MintWithin
<1>4. CASE \E sender, src \in Accounts, amount \in Amounts : BurnVotes(sender, src, amount)
    BY <1>1, <1>4, BurnWithin
<1>5. CASE \E sender \in Accounts, delegatee \in Accounts \cup {Zero} : Delegate(sender, delegatee)
    <2>1. PICK sender \in Accounts, delegatee \in Accounts \cup {Zero} : Delegate(sender, delegatee)
        BY <1>5
    <2>2. nonces' \in [Accounts -> Nat] /\ applied' \subseteq Signatures
        BY <2>1 DEF Delegate, Consistent, TypeOK
    <2>3. QED
        BY <2>1, <2>2, DelegationWithin DEF Delegate, Reps
<1>6. CASE \E sig \in Signatures : DelegateBySig(sig)
    BY <1>6, SignedWithin
<1>7. CASE Administer
    <2>1. Sound' /\ UNCHANGED books
        BY <1>7, ConsistentFacts, AdministrationSound DEF Administer
    <2>2. QED
        BY <1>7, <2>1, QuietWithin DEF Administer
<1>8. CASE NextBlock
    BY <1>8, NextBlockConsistent
<1>9. CASE UNCHANGED vars
    <2>1. UNCHANGED books /\ UNCHANGED <<block, delegates, checkpoints, nonces, applied>>
        BY <1>9 DEF vars, tokenVars, books
    <2>2. Sound'
        BY <1>9, ConsistentFacts DEF vars, tokenVars, books, Sound, TokenTypeOK, TokensConserved
    <2>3. QED
        BY <2>1, <2>2, QuietWithin
<1>10. QED
    BY <1>2, <1>3, <1>4, <1>5, <1>6, <1>7, <1>8, <1>9 DEF Next

LEMMA InitConsistent ==
    ASSUME Init
    PROVE  Consistent
<1>1. PICK admin \in Accounts :
          balances = [a \in Accounts |-> IF a = admin THEN InitialSupply ELSE 0]
    BY DEF Init
<1>2. /\ InitialSupply \in Nat /\ MaxSupply \in Nat /\ MaxUint \in Nat
      /\ InitialSupply <= MaxSupply /\ InitialSupply <= MaxUint
    BY VotesAssumption, TokenAssumption
<1>3. balances \in [Accounts -> Nat]
    BY <1>1, <1>2
<1>4. Total(balances) = totalSupply
    <2> DEFINE nothing == [a \in Accounts |-> 0]
    <2>1. nothing \in [Accounts -> Nat] /\ Total(nothing) = 0
        BY TotalZero
    <2>2. /\ nothing[admin] = 0 /\ balances[admin] = InitialSupply
          /\ \A a \in Accounts \ {admin} : balances[a] = nothing[a]
        BY <1>1
    <2> HIDE DEF nothing
    <2>3. Total(balances) = Total(nothing) - nothing[admin] + balances[admin]
        BY <1>3, <2>1, <2>2, TotalUpdate, TokenAssumption
    <2>4. QED
        BY <1>2, <2>1, <2>2, <2>3 DEF Init
<1>5. \A a \in Accounts : checkpoints[a] = <<>> /\ Len(checkpoints[a]) = 0
    BY EmptySeq DEF Init
<1>6. TypeOK /\ SupplyCapped
    BY <1>2, <1>3, <1>4, <1>5 DEF Init, TypeOK, TokenTypeOK, SupplyCapped, TokensConserved
<1>7. WellFormed(checkpoints, block)
    BY <1>5, <1>6 DEF WellFormed, TypeOK, EntriesUntil
<1>8. VotesMatchBalances
    <2> SUFFICES ASSUME NEW r \in Accounts
                 PROVE  Votes(checkpoints, r) = Register!VotesOf(r)
        BY DEF VotesMatchBalances
    <2>1. \A h \in Accounts : Ledger(balances, delegates, r)[h] = 0
        BY TokenAssumption DEF Ledger, Init
    <2>2. Total(Ledger(balances, delegates, r)) = 0
        BY <1>3, <2>1, LedgerType, TotalZero
    <2>3. QED
        BY <1>5, <2>2, RegisterVotes DEF Votes
<1>9. QED
    BY <1>6, <1>7, <1>8 DEF Consistent

\* Reachable states are consistent.
THEOREM VotesInvariant == Spec => []Consistent
<1>1. Consistent /\ [Next]_vars => Consistent'
    BY StepKinds DEF Within
<1>2. QED
    BY <1>1, InitConsistent, PTL DEF Spec

\* RDS.sol: the variables keep their types.
THEOREM TypeCorrect == Spec => []TypeOK
<1>1. Consistent => TypeOK
    BY DEF Consistent
<1>2. QED
    BY <1>1, VotesInvariant, PTL

\* RDS.sol: totalSupply is the sum of the balances and under its cap.
THEOREM SupplyBounded == Spec => []SupplyCapped
<1>1. Consistent => SupplyCapped
    BY DEF Consistent
<1>2. QED
    BY <1>1, VotesInvariant, PTL

\* RDS.sol: the current votes are the balances delegated.
THEOREM VotesConserved == Spec => []VotesMatchBalances
<1>1. Consistent => VotesMatchBalances
    BY DEF Consistent
<1>2. QED
    BY <1>1, VotesInvariant, PTL

\* The votes of a representative and the balance of a holder who has not
\* delegated to it fit into the supply together.
LEMMA VotesFit ==
    ASSUME Consistent, NEW h \in Accounts, NEW r \in Accounts, delegates[h] # r
    PROVE  Votes(checkpoints, r) + balances[h] <= totalSupply
<1> DEFINE mine == Ledger(balances, delegates, r)
           both == [mine EXCEPT ![h] = balances[h]]
<1>1. balances \in [Accounts -> Nat] /\ mine \in [Accounts -> Nat] /\ mine[h] = 0
    BY ConsistentFacts, LedgerType DEF Ledger
<1>2. \A a \in Accounts : mine[a] <= balances[a]
    BY <1>1 DEF Ledger
<1>3. Votes(checkpoints, r) = Total(mine)
    BY ConsistentFacts
<1> HIDE DEF mine
<1>4. /\ both \in [Accounts -> Nat] /\ both[h] = balances[h]
      /\ \A a \in Accounts \ {h} : both[a] = mine[a]
    BY <1>1
<1>5. \A a \in Accounts : both[a] <= balances[a]
    BY <1>1, <1>2
<1> HIDE DEF both
<1>6. Total(both) = Total(mine) - mine[h] + both[h]
    BY <1>1, <1>4, TotalUpdate, TokenAssumption
<1>7. Total(both) <= Total(balances)
    BY <1>1, <1>4, <1>5, TotalMonotone, TokenAssumption
<1>8. Total(mine) \in Nat
    BY <1>1, TotalType, TokenAssumption
<1>9. QED
    BY <1>1, <1>3, <1>4, <1>6, <1>7, <1>8 DEF Consistent, SupplyCapped, TokensConserved

\* RDS.sol: moving votes never reverts the transfer, burn or delegation of
\* what the holder has.
THEOREM NothingStuck == Spec => []HoldingsMovable
<1>1. Consistent => HoldingsMovable
    <2> SUFFICES ASSUME Consistent, NEW h \in Accounts, NEW rep \in Accounts \cup {Zero},
                        NEW amount \in 0 .. MaxSupply, amount <= balances[h],
                        delegates[h] # rep
                 PROVE  /\ delegates[h] # Zero => amount <= Votes(checkpoints, delegates[h])
                        /\ rep # Zero => Votes(checkpoints, rep) + amount <= MaxUint
        BY DEF HoldingsMovable, MoveAllowed
    <2>1. /\ amount \in Nat /\ balances \in [Accounts -> Nat] /\ balances[h] \in Nat
          /\ totalSupply \in Nat /\ totalSupply <= MaxUint /\ MaxUint \in Nat
        BY ConsistentFacts, TokenAssumption, VotesAssumption DEF Sound, TokenTypeOK
    <2>2. ASSUME delegates[h] # Zero
          PROVE  amount <= Votes(checkpoints, delegates[h])
        <3> DEFINE mine == Ledger(balances, delegates, delegates[h])
        <3>1. delegates[h] \in Accounts
            BY <2>2, ConsistentFacts DEF Reps
        <3>2. mine \in [Accounts -> Nat] /\ mine[h] = balances[h] /\ Total(mine) \in Nat
            BY <2>1, LedgerType DEF Ledger
        <3>3. Votes(checkpoints, delegates[h]) = Total(mine)
            BY <3>1, ConsistentFacts
        <3> HIDE DEF mine
        <3>4. mine[h] <= Total(mine)
            BY <3>2, TotalBound, TokenAssumption
        <3>5. QED
            BY <2>1, <3>2, <3>3, <3>4
    <2>3. ASSUME rep # Zero
          PROVE  Votes(checkpoints, rep) + amount <= MaxUint
        <3>1. rep \in Accounts
            BY <2>3
        <3>2. Votes(checkpoints, rep) \in Nat
            BY <3>1, ConsistentFacts, VotesType
        <3>3. Votes(checkpoints, rep) + balances[h] <= totalSupply
            BY <3>1, VotesFit
        <3>4. QED
            BY <2>1, <3>2, <3>3
    <2>4. QED
        BY <2>2, <2>3
<1>2. QED
    BY <1>1, VotesInvariant, PTL

(***************************************************************************)
(* The checkpoints implement the register of votes.                        *)
(***************************************************************************)
\* Within a block nothing is entered.
LEMMA WithinRegister ==
    ASSUME Consistent, Within
    PROVE  Register!WithinBlock
<1>1. block' = block /\ Consistent' /\ PastKept(checkpoints, checkpoints', block)
    BY DEF Within
<1>2. balances' \in [Accounts -> Nat] /\ delegates' \in [Accounts -> Accounts \cup {Zero}]
    BY <1>1 DEF Consistent, TypeOK, TokenTypeOK
<1>3. ASSUME NEW b \in 1 .. block - 1, NEW a \in Accounts
      PROVE  RecordedVotes(checkpoints', a, b) = RecordedVotes(checkpoints, a, b)
    <2>1. b \in Blocks /\ b < block
        BY ConsistentFacts DEF Blocks
    <2>2. QED
        BY <1>1, <2>1 DEF PastKept
<1>4. Past' = Past
    BY <1>1, <1>3 DEF Past
<1>5. QED
    BY <1>1, <1>2, <1>4 DEF Register!WithinBlock

\* At the end of a block the current votes are entered.
LEMMA EndRegister ==
    ASSUME Consistent, NextBlock
    PROVE  Register!EndOfBlock
<1> DEFINE votes == [a \in Accounts |-> Register!VotesOf(a)]
           recorded(b) == [a \in Accounts |-> RecordedVotes(checkpoints, a, b)]
<1>1. block' = block + 1 /\ UNCHANGED <<balances, delegates, checkpoints>>
    BY DEF NextBlock, tokenVars, books
<1>2. block \in Nat \ {0}
    BY ConsistentFacts
<1>3. recorded(block) = votes
    BY <1>2, RecordedNow DEF Consistent, VotesMatchBalances
<1> HIDE DEF votes, recorded
<1>4. Past = [b \in 1 .. block - 1 |-> recorded(b)]
    BY DEF Past, recorded
<1>5. Past' = [b \in 1 .. block |-> recorded(b)]
    BY <1>1, <1>2 DEF Past, recorded
<1>6. Past' = Append(Past, votes)
    <2> DEFINE S == {recorded(b) : b \in 1 .. block} \cup {votes}
    <2>1. Past \in Seq(S) /\ Len(Past) = block - 1 /\ votes \in S
        BY <1>2, <1>4, IsASeq
    <2>2. Past' \in Seq(S) /\ Len(Past') = block
        BY <1>2, <1>5, IsASeq
    <2> HIDE DEF S
    <2>3. /\ Append(Past, votes) \in Seq(S)
          /\ Len(Append(Past, votes)) = block
          /\ \A b \in 1 .. block - 1 : Append(Past, votes)[b] = Past[b]
          /\ Append(Past, votes)[block] = votes
        BY <1>2, <2>1, AppendProperties
    <2>4. ASSUME NEW b \in 1 .. block
          PROVE  Past'[b] = Append(Past, votes)[b]
        <3>1. CASE b = block
            BY <1>2, <1>3, <1>5, <2>3, <3>1
        <3>2. CASE b # block
            <4>1. b \in 1 .. block - 1
                BY <1>2, <3>2
            <4>2. QED
                BY <1>4, <1>5, <2>3, <4>1
        <3>3. QED
            BY <3>1, <3>2
    <2>5. QED
        BY <2>2, <2>3, <2>4, SeqEqual
<1>7. QED
    BY <1>1, <1>6 DEF Register!EndOfBlock, votes

\* RDS.sol: the checkpoints implement the register: what is recorded for a
\* block is what an account had at its end, and it never changes.
THEOREM VotesImplementRegister == Spec => VotesRegistered
<1>1. Init => Register!RegisterInit
    <2> SUFFICES ASSUME Init PROVE Register!RegisterInit
        OBVIOUS
    <2>1. balances \in [Accounts -> Nat]
        BY InitConsistent, ConsistentFacts
    <2>2. Past = <<>>
        <3>1. 1 .. block - 1 = {}
            BY DEF Init
        <3>2. QED
            BY <3>1 DEF Past
    <2>3. QED
        BY <2>1, <2>2 DEF Init, Register!RegisterInit
<1>2. Consistent /\ [Next]_vars =>
          [Register!WithinBlock \/ Register!EndOfBlock]_<<block, balances, delegates, Past>>
    BY StepKinds, WithinRegister, EndRegister
<1>3. QED
    BY <1>1, <1>2, VotesInvariant, PTL DEF Spec, VotesRegistered, Register!RegisterSpec

(***************************************************************************)
(* Signed delegations.                                                     *)
(***************************************************************************)

\* With the types and the finiteness that counting them needs.
SignedInOrder ==
    /\ TypeOK
    /\ SignaturesOnce
    /\ \A a \in Accounts : IsFiniteSet(AppliedBy(a))

LEMMA SignatureApplied ==
    ASSUME SignedInOrder, TypeOK', NEW sig \in Signatures, DelegateBySig(sig)
    PROVE  SignedInOrder'
<1> DEFINE owner == sig.signatory
<1>1. owner \in Accounts /\ sig.nonce \in Nat
    BY VotesAssumption DEF Signature
<1>2. nonces \in [Accounts -> Nat] /\ applied \subseteq Signature
    BY VotesAssumption DEF SignedInOrder, TypeOK
<1>3. /\ sig.nonce = nonces[owner]
      /\ applied' = applied \cup {sig}
      /\ nonces' = [nonces EXCEPT ![owner] = @ + 1]
    BY DEF DelegateBySig
<1>4. nonces'[owner] = nonces[owner] + 1 /\ \A a \in Accounts \ {owner} : nonces'[a] = nonces[a]
    BY <1>1, <1>2, <1>3
<1>5. \A s \in applied : s.signatory \in Accounts /\ s.nonce \in Nat /\ s.nonce < nonces[s.signatory]
    BY <1>2 DEF SignedInOrder, SignaturesOnce, Signature
<1>6. \A s \in applied : ~(s.signatory = owner /\ s.nonce = sig.nonce)
    BY <1>1, <1>2, <1>3, <1>5
<1>7. \A s \in applied' : s.nonce < nonces'[s.signatory]
    BY <1>1, <1>2, <1>3, <1>4, <1>5
<1>8. \A a \in Accounts : AppliedBy(a)' = IF a = owner THEN AppliedBy(a) \cup {sig} ELSE AppliedBy(a)
    BY <1>3 DEF AppliedBy
<1>9. sig \notin AppliedBy(owner)
    BY <1>6 DEF AppliedBy
<1>10. ASSUME NEW a \in Accounts
       PROVE  IsFiniteSet(AppliedBy(a)') /\ Cardinality(AppliedBy(a)') = nonces'[a]
    <2>1. IsFiniteSet(AppliedBy(a)) /\ Cardinality(AppliedBy(a)) = nonces[a]
        BY DEF SignedInOrder, SignaturesOnce
    <2>2. CASE a = owner
        <3>1. /\ IsFiniteSet(AppliedBy(owner) \cup {sig})
              /\ Cardinality(AppliedBy(owner) \cup {sig}) = Cardinality(AppliedBy(owner)) + 1
            BY <1>9, <2>1, <2>2, FS_AddElement
        <3>2. QED
            BY <1>4, <1>8, <2>1, <2>2, <3>1
    <2>3. CASE a # owner
        BY <1>4, <1>8, <2>1, <2>3
    <2>4. QED
        BY <2>2, <2>3
<1>11. \A s, t \in applied' : s.signatory = t.signatory /\ s.nonce = t.nonce => s = t
    BY <1>3, <1>6 DEF SignedInOrder, SignaturesOnce
<1>12. QED
    BY <1>7, <1>10, <1>11 DEF SignedInOrder, SignaturesOnce

\* RDS.sol: no signed delegation takes effect twice, nor before one signed earlier.
THEOREM NothingSignedTwice == Spec => []SignaturesOnce
<1>1. Init => SignedInOrder
    <2> SUFFICES ASSUME Init PROVE SignedInOrder
        OBVIOUS
    <2>1. \A a \in Accounts : AppliedBy(a) = {}
        BY DEF Init, AppliedBy
    <2>2. TypeOK
        BY InitConsistent DEF Consistent
    <2>3. QED
        BY <2>1, <2>2, FS_EmptySet DEF Init, SignedInOrder, SignaturesOnce
<1>2. SignedInOrder /\ TypeOK' /\ [Next]_vars => SignedInOrder'
    <2> SUFFICES ASSUME SignedInOrder, TypeOK', [Next]_vars PROVE SignedInOrder'
        OBVIOUS
    <2>1. CASE \E sig \in Signatures : DelegateBySig(sig)
        BY <2>1, SignatureApplied
    <2>2. CASE UNCHANGED <<nonces, applied>>
        BY <2>2 DEF SignedInOrder, SignaturesOnce, AppliedBy
    <2>3. QED
        BY <2>1, <2>2
           DEF Next, Transfer, MintCapped, BurnVotes, Delegate, Administer, NextBlock, vars
<1>3. SignedInOrder => SignaturesOnce
    BY DEF SignedInOrder
<1>4. QED
    BY <1>1, <1>2, <1>3, TypeCorrect, PTL DEF Spec

(***************************************************************************)
(* The binary search.                                                      *)
(***************************************************************************)

\* What the search compares: checkpoints of one account, in order.
InOrder(cps) ==
    /\ cps \in Seq(Checkpoint)
    /\ \A i, j \in 1 .. Len(cps) : i < j => cps[i].fromBlock < cps[j].fromBlock

LEMMA OrderTypes ==
    ASSUME NEW cps, InOrder(cps)
    PROVE  Len(cps) \in Nat /\ \A k \in 1 .. Len(cps) : cps[k].fromBlock \in Nat
<1>1. Len(cps) \in Nat /\ \A k \in 1 .. Len(cps) : cps[k] \in Checkpoint
    BY ElementOfSeq, LenProperties DEF InOrder
<1>2. QED
    BY <1>1 DEF Checkpoint

\* The last of the checkpoints l to u not after block b, or l if there is none.
Sought(cps, b, l, u, i) ==
    /\ i \in l .. u
    /\ i = l \/ cps[i].fromBlock <= b
    /\ \A j \in i + 1 .. u : cps[j].fromBlock > b

\* There is one, and only one.
LEMMA SoughtExists ==
    ASSUME NEW cps, InOrder(cps), NEW b \in Nat,
           NEW l \in 1 .. Len(cps), NEW u \in l .. Len(cps)
    PROVE  \E i \in l .. u : Sought(cps, b, l, u, i)
<1>1. Len(cps) \in Nat /\ \A j \in 1 .. Len(cps) : cps[j].fromBlock \in Nat
    BY OrderTypes
<1> DEFINE late == {j \in l + 1 .. u + 1 : j = u + 1 \/ cps[j].fromBlock > b}
<1>2. late \subseteq Nat /\ u + 1 \in late
    BY <1>1
<1>3. PICK x \in late : \A y \in late : x <= y
    BY <1>2, LeastNatural
<1>4. x - 1 \in l .. u
    BY <1>1, <1>3
<1>5. \A j \in x .. u : cps[j].fromBlock > b
    <2>1. SUFFICES ASSUME NEW j \in x .. u PROVE cps[j].fromBlock > b
        OBVIOUS
    <2>2. CASE x = u + 1
        BY <1>1, <2>2
    <2>3. CASE cps[x].fromBlock > b
        <3>1. x \in 1 .. Len(cps) /\ j \in 1 .. Len(cps) /\ x <= j
            BY <1>1, <1>3
        <3>2. x = j \/ cps[x].fromBlock < cps[j].fromBlock
            BY <3>1 DEF InOrder
        <3>3. QED
            BY <1>1, <2>3, <3>1, <3>2
    <2>4. QED
        BY <1>3, <2>2, <2>3
<1>6. x - 1 = l \/ cps[x - 1].fromBlock <= b
    <2>1. SUFFICES ASSUME x - 1 # l PROVE cps[x - 1].fromBlock <= b
        OBVIOUS
    <2>2. x - 1 \in l + 1 .. u + 1 /\ x - 1 \notin late
        BY <1>1, <1>2, <1>3, <1>4, <2>1
    <2>3. ~ (cps[x - 1].fromBlock > b) /\ cps[x - 1].fromBlock \in Nat
        BY <1>1, <1>4, <2>2
    <2>4. QED
        BY <2>3
<1>7. Sought(cps, b, l, u, x - 1)
    <2>1. (x - 1) + 1 = x
        BY <1>1, <1>4
    <2>2. QED
        BY <1>4, <1>5, <1>6, <2>1 DEF Sought
<1>8. QED
    BY <1>4, <1>7

LEMMA SoughtUnique ==
    ASSUME NEW cps, InOrder(cps), NEW b \in Nat,
           NEW l \in 1 .. Len(cps), NEW u \in l .. Len(cps), NEW i, NEW j,
           Sought(cps, b, l, u, i), Sought(cps, b, l, u, j)
    PROVE  i = j
<1>1. Len(cps) \in Nat /\ \A k \in 1 .. Len(cps) : cps[k].fromBlock \in Nat
    BY OrderTypes
<1>2. i \in l .. u /\ j \in l .. u
    BY DEF Sought
<1>3. ASSUME NEW p \in l .. u, NEW q \in l .. u, p < q,
             Sought(cps, b, l, u, p), Sought(cps, b, l, u, q)
      PROVE  FALSE
    <2>1. q \in p + 1 .. u /\ q # l /\ q \in 1 .. Len(cps)
        BY <1>1, <1>3
    <2>2. cps[q].fromBlock > b /\ cps[q].fromBlock <= b
        BY <1>3, <2>1 DEF Sought
    <2>3. QED
        BY <1>1, <2>1, <2>2
<1>4. ~(i < j) /\ ~(j < i)
    BY <1>2, <1>3
<1>5. QED
    BY <1>1, <1>2, <1>4

\* One round of the search, with `search` for the rest of it.
Round(cps, b, search, r) ==
    LET lower == r[1]
        upper == r[2]
        center == upper - (upper - lower) \div 2
    IN  IF upper <= lower THEN cps[lower].votes
        ELSE IF cps[center].fromBlock = b THEN cps[center].votes
        ELSE IF cps[center].fromBlock < b THEN search[<<center, upper>>]
        ELSE search[<<lower, center - 1>>]

\* A search that finds what is sought between any two checkpoints.
Finds(cps, b, f, r) ==
    /\ r[2] <= r[1] => f[r] = cps[r[1]].votes
    /\ r[1] <= r[2] => \A i : Sought(cps, b, r[1], r[2], i) => f[r] = cps[i].votes

\* A round finds what is sought if the rest of the search does.
LEMMA RoundFinds ==
    ASSUME NEW cps, InOrder(cps), NEW b \in Nat, NEW f,
           NEW l \in 1 .. Len(cps), NEW u \in 1 .. Len(cps),
           \A p, q \in 1 .. Len(cps) : q - p < u - l /\ p <= q => Finds(cps, b, f, <<p, q>>)
    PROVE  /\ u <= l => Round(cps, b, f, <<l, u>>) = cps[l].votes
           /\ l <= u => \A i : Sought(cps, b, l, u, i)
                                   => Round(cps, b, f, <<l, u>>) = cps[i].votes
<1> DEFINE c == u - (u - l) \div 2
<1>1. Len(cps) \in Nat /\ \A k \in 1 .. Len(cps) : cps[k].fromBlock \in Nat
    BY OrderTypes
<1>2. u <= l => Round(cps, b, f, <<l, u>>) = cps[l].votes
    BY DEF Round
<1>3. ASSUME l <= u, NEW i, Sought(cps, b, l, u, i)
      PROVE  Round(cps, b, f, <<l, u>>) = cps[i].votes
    <2>1. i \in l .. u
        BY <1>3 DEF Sought
    <2>2. CASE l = u
        BY <1>2, <2>1, <2>2
    <2>3. CASE l < u
        <3>1. c \in l + 1 .. u
            BY <1>1, <2>3
        <3>2. c \in 1 .. Len(cps) /\ c - 1 \in l .. u /\ c - 1 \in 1 .. Len(cps)
            BY <1>1, <3>1
        <3>3. \A j \in c + 1 .. u : cps[c].fromBlock < cps[j].fromBlock
            BY <1>1, <3>1, <3>2 DEF InOrder
        <3>4. \A j \in c + 1 .. u : j \in 1 .. Len(cps)
            BY <1>1, <3>1
        <3>5. Round(cps, b, f, <<l, u>>) =
                  IF cps[c].fromBlock = b THEN cps[c].votes
                  ELSE IF cps[c].fromBlock < b THEN f[<<c, u>>]
                  ELSE f[<<l, c - 1>>]
            BY <1>1, <2>3 DEF Round
        <3> HIDE DEF c
        <3>6. CASE cps[c].fromBlock = b
            <4>1. Sought(cps, b, l, u, c)
                BY <1>1, <3>1, <3>2, <3>3, <3>4, <3>6 DEF Sought
            <4>2. i = c
                BY <1>1, <1>3, <2>3, <4>1, SoughtUnique
            <4>3. QED
                BY <3>5, <3>6, <4>2
        <3>7. CASE cps[c].fromBlock < b
            <4>1. PICK k \in c .. u : Sought(cps, b, c, u, k)
                BY <1>1, <3>1, <3>2, SoughtExists
            <4>2. Sought(cps, b, l, u, k)
                <5>1. k \in l .. u
                    BY <1>1, <3>1
                <5>2. cps[k].fromBlock <= b
                    BY <1>1, <3>2, <3>7, <4>1 DEF Sought
                <5>3. QED
                    BY <4>1, <5>1, <5>2 DEF Sought
            <4>3. i = k
                BY <1>1, <1>3, <2>3, <4>2, SoughtUnique
            <4>4. Finds(cps, b, f, <<c, u>>)
                BY <1>1, <3>1, <3>2
            <4>5. f[<<c, u>>] = cps[k].votes
                BY <1>1, <3>1, <4>1, <4>4 DEF Finds
            <4>6. QED
                BY <1>1, <3>2, <3>5, <3>7, <4>3, <4>5
        <3>8. CASE cps[c].fromBlock > b
            <4>1. PICK k \in l .. c - 1 : Sought(cps, b, l, c - 1, k)
                BY <1>1, <3>1, <3>2, SoughtExists
            <4>2. Sought(cps, b, l, u, k)
                <5>1. k \in l .. u
                    BY <1>1, <3>1
                <5>2. ASSUME NEW j \in k + 1 .. u PROVE cps[j].fromBlock > b
                    <6>1. CASE j <= c - 1
                        BY <1>1, <3>1, <4>1, <6>1 DEF Sought
                    <6>2. CASE j = c
                        BY <3>8, <6>2
                    <6>3. CASE j > c
                        <7>1. j \in c + 1 .. u
                            BY <1>1, <3>1, <6>3
                        <7>2. QED
                            BY <1>1, <3>2, <3>3, <3>4, <3>8, <7>1
                    <6>4. QED
                        BY <1>1, <3>1, <6>1, <6>2, <6>3
                <5>3. QED
                    BY <4>1, <5>1, <5>2 DEF Sought
            <4>3. i = k
                BY <1>1, <1>3, <2>3, <4>2, SoughtUnique
            <4>4. Finds(cps, b, f, <<l, c - 1>>)
                BY <1>1, <3>1, <3>2
            <4>5. f[<<l, c - 1>>] = cps[k].votes
                BY <1>1, <3>1, <4>1, <4>4 DEF Finds
            <4>6. QED
                BY <1>1, <3>2, <3>5, <3>8, <4>3, <4>5
        <3>9. QED
            BY <1>1, <3>2, <3>6, <3>7, <3>8
    <2>4. QED
        BY <1>1, <1>3, <2>2, <2>3
<1>4. QED
    BY <1>2, <1>3

\* The search is well defined, and finds what is sought.
Bounds(cps) == (1 .. Len(cps)) \X (1 .. Len(cps))
Search(cps, b) == CHOOSE f : f = [r \in Bounds(cps) |-> Round(cps, b, f, r)]

LEMMA SearchDefined ==
    ASSUME NEW cps, InOrder(cps), NEW b \in Nat
    PROVE  Search(cps, b) = [r \in Bounds(cps) |-> Round(cps, b, Search(cps, b), r)]
<1> DEFINE n == Len(cps)
           Value(r) == IF r[2] <= r[1] THEN cps[r[1]].votes
                       ELSE cps[CHOOSE i : Sought(cps, b, r[1], r[2], i)].votes
           f == [r \in Bounds(cps) |-> Value(r)]
<1>1. n \in Nat
    BY LenProperties DEF InOrder
<1>2. ASSUME NEW p \in 1 .. n, NEW q \in 1 .. n
      PROVE  Finds(cps, b, f, <<p, q>>)
    <2>1. <<p, q>> \in Bounds(cps) /\ <<p, q>>[1] = p /\ <<p, q>>[2] = q
        BY DEF Bounds
    <2>2. f[<<p, q>>] = Value(<<p, q>>)
        BY <2>1
    <2>3. CASE q < p
        BY <1>1, <2>1, <2>2, <2>3 DEF Finds
    <2>4. CASE p = q
        <3>1. f[<<p, q>>] = cps[p].votes
            BY <2>2, <2>4
        <3>2. \A i : Sought(cps, b, p, q, i) => i = p
            BY <1>1, <2>4 DEF Sought
        <3>3. QED
            BY <2>1, <3>1, <3>2 DEF Finds
    <2>5. CASE p < q
        <3> DEFINE s == CHOOSE i : Sought(cps, b, p, q, i)
        <3>1. q \in p .. n
            BY <1>1, <2>5
        <3>2. \E i : Sought(cps, b, p, q, i)
            BY <3>1, SoughtExists
        <3>3. Sought(cps, b, p, q, s)
            BY <3>2
        <3>4. f[<<p, q>>] = cps[s].votes
            BY <1>1, <2>1, <2>2, <2>5
        <3> HIDE DEF s, f
        <3>5. \A i : Sought(cps, b, p, q, i) => i = s
            BY <3>1, <3>3, SoughtUnique
        <3>6. QED
            BY <1>1, <2>1, <2>5, <3>4, <3>5 DEF Finds
    <2>6. QED
        BY <1>1, <2>3, <2>4, <2>5
<1> HIDE DEF f
<1>3. ASSUME NEW r \in Bounds(cps) PROVE f[r] = Round(cps, b, f, r)
    <2>1. PICK p \in 1 .. n, q \in 1 .. n : r = <<p, q>>
        BY DEF Bounds
    <2>2. Finds(cps, b, f, <<p, q>>)
        BY <1>2
    <2>3. /\ q <= p => Round(cps, b, f, <<p, q>>) = cps[p].votes
          /\ p <= q => \A i : Sought(cps, b, p, q, i)
                                  => Round(cps, b, f, <<p, q>>) = cps[i].votes
        BY <1>2, RoundFinds
    <2>4. <<p, q>>[1] = p /\ <<p, q>>[2] = q
        OBVIOUS
    <2>5. CASE q <= p
        BY <2>1, <2>2, <2>3, <2>4, <2>5 DEF Finds
    <2>6. CASE p <= q
        <3>1. q \in p .. n
            BY <1>1, <2>6
        <3>2. PICK i : Sought(cps, b, p, q, i)
            BY <3>1, SoughtExists
        <3>3. QED
            BY <2>1, <2>2, <2>3, <2>4, <2>6, <3>2 DEF Finds
    <2>7. QED
        BY <1>1, <2>5, <2>6
<1>4. f = [r \in Bounds(cps) |-> Round(cps, b, f, r)]
    <2>1. f = [r \in Bounds(cps) |-> f[r]]
        BY DEF f
    <2>2. QED
        BY <1>3, <2>1, Zenon
<1>5. QED
    BY <1>4, Zenon DEF Search

LEMMA SearchStep ==
    ASSUME NEW cps, InOrder(cps), NEW b \in Nat,
           NEW p \in 1 .. Len(cps), NEW q \in 1 .. Len(cps),
           \A v, w \in 1 .. Len(cps) :
               w - v < q - p /\ v <= w => Finds(cps, b, Search(cps, b), <<v, w>>)
    PROVE  Finds(cps, b, Search(cps, b), <<p, q>>)
<1> DEFINE f == Search(cps, b)
<1>1. <<p, q>> \in Bounds(cps) /\ <<p, q>>[1] = p /\ <<p, q>>[2] = q
    BY DEF Bounds
<1>2. f[<<p, q>>] = Round(cps, b, f, <<p, q>>)
    BY <1>1, SearchDefined
<1>3. \A v, w \in 1 .. Len(cps) : w - v < q - p /\ v <= w => Finds(cps, b, f, <<v, w>>)
    OBVIOUS
<1> HIDE DEF f
<1>4. /\ q <= p => Round(cps, b, f, <<p, q>>) = cps[p].votes
      /\ p <= q => \A i : Sought(cps, b, p, q, i)
                              => Round(cps, b, f, <<p, q>>) = cps[i].votes
    BY <1>3, RoundFinds
<1>5. Finds(cps, b, f, <<p, q>>)
    BY <1>1, <1>2, <1>4 DEF Finds
<1>6. QED
    BY <1>5 DEF f

LEMMA SearchFinds ==
    ASSUME NEW cps, InOrder(cps), NEW b \in Nat, NEW l \in 1 .. Len(cps), NEW u \in l .. Len(cps)
    PROVE  Finds(cps, b, Search(cps, b), <<l, u>>)
<1> DEFINE n == Len(cps)
           f == Search(cps, b)
           T == {d \in 0 .. n : \A p, q \in 1 .. n : q - p <= d => Finds(cps, b, f, <<p, q>>)}
<1>1. n \in Nat
    BY LenProperties DEF InOrder
<1>2. ASSUME NEW p \in 1 .. n, NEW q \in 1 .. n,
             \A v, w \in 1 .. n : w - v < q - p /\ v <= w => Finds(cps, b, f, <<v, w>>)
      PROVE  Finds(cps, b, f, <<p, q>>)
    BY <1>2, SearchStep
<1> HIDE DEF f
<1>3. 0 \in T
    <2>1. ASSUME NEW p \in 1 .. n, NEW q \in 1 .. n, q - p <= 0
          PROVE  Finds(cps, b, f, <<p, q>>)
        <3>1. \A v, w \in 1 .. n : ~(w - v < q - p /\ v <= w)
            BY <1>1, <2>1
        <3>2. QED
            BY <1>2, <3>1
    <2>2. QED
        BY <1>1, <2>1
<1>4. ASSUME NEW d \in 1 .. n, d - 1 \in T PROVE d \in T
    <2>1. ASSUME NEW p \in 1 .. n, NEW q \in 1 .. n, q - p <= d
          PROVE  Finds(cps, b, f, <<p, q>>)
        <3>1. \A v, w \in 1 .. n : w - v < q - p => w - v <= d - 1
            BY <1>1, <2>1
        <3>2. \A v, w \in 1 .. n : w - v < q - p => Finds(cps, b, f, <<v, w>>)
            BY <1>4, <3>1
        <3>3. QED
            BY <1>2, <3>2
    <2>2. QED
        BY <1>1, <2>1
<1>5. 0 .. n \subseteq T
    <2> HIDE DEF T
    <2>1. QED
        BY <1>1, <1>3, <1>4, SetInduction
<1>6. u - l <= n /\ n \in T
    BY <1>1, <1>5
<1>7. QED
    BY <1>1, <1>6 DEF f

\* getPriorVotes is the search between the first checkpoint and the last one,
\* unless the block is before the first or not before the last of them.
LEMMA PriorVotesSearch ==
    ASSUME NEW a, NEW b
    PROVE  GetPriorVotes(a, b) =
               LET cps == checkpoints[a]
                   n == Len(cps)
               IN  IF n = 0 THEN 0
                   ELSE IF cps[n].fromBlock <= b THEN cps[n].votes
                   ELSE IF cps[1].fromBlock > b THEN 0
                   ELSE Search(cps, b)[<<1, n>>]
BY Zenon DEF GetPriorVotes, Search, Round, Bounds

\* The checkpoint that is sought among all those of an account is the one the
\* votes of the block are recorded in.
LEMMA PriorVotesExact ==
    ASSUME NEW a \in Accounts, NEW b \in Nat, InOrder(checkpoints[a])
    PROVE  GetPriorVotes(a, b) = RecordedVotes(checkpoints, a, b)
<1> DEFINE cps == checkpoints[a]
           n == Len(cps)
           entries == EntriesUntil(checkpoints, a, b)
<1>1. n \in Nat /\ \A k \in 1 .. n : cps[k].fromBlock \in Nat
    BY OrderTypes
<1>2. entries = {i \in 1 .. n : cps[i].fromBlock <= b} /\ entries \subseteq Nat
    BY <1>1 DEF EntriesUntil
<1>3. GetPriorVotes(a, b) = IF n = 0 THEN 0
                            ELSE IF cps[n].fromBlock <= b THEN cps[n].votes
                            ELSE IF cps[1].fromBlock > b THEN 0
                            ELSE Search(cps, b)[<<1, n>>]
    BY PriorVotesSearch, Zenon
<1>4. ASSUME NEW i, IsLast(i, entries) PROVE RecordedVotes(checkpoints, a, b) = cps[i].votes
    <2>1. EntriesUntil(checkpoints, a, b) \subseteq Nat
        BY <1>2
    <2>2. IsLast(i, EntriesUntil(checkpoints, a, b))
        BY <1>4
    <2>3. QED
        BY <2>1, <2>2, RecordedLast
<1>5. CASE n = 0
    BY <1>2, <1>3, <1>5 DEF RecordedVotes
<1>6. CASE n # 0 /\ cps[n].fromBlock <= b
    <2>1. IsLast(n, entries)
        BY <1>1, <1>2, <1>6 DEF IsLast
    <2>2. QED
        BY <1>3, <1>4, <1>6, <2>1
<1>7. CASE n # 0 /\ cps[1].fromBlock > b
    <2>1. \A i \in 1 .. n : i = 1 \/ cps[1].fromBlock < cps[i].fromBlock
        BY <1>1, <1>7 DEF InOrder
    <2>2. \A i \in 1 .. n : ~ (cps[i].fromBlock <= b)
        BY <1>1, <1>7, <2>1
    <2>3. entries = {} /\ ~ (cps[n].fromBlock <= b)
        BY <1>1, <1>2, <1>7, <2>2
    <2>4. QED
        BY <1>3, <1>7, <2>3 DEF RecordedVotes
<1>8. CASE n # 0 /\ ~(cps[n].fromBlock <= b) /\ ~(cps[1].fromBlock > b)
    <2>1. 1 \in 1 .. n /\ n \in 1 .. n /\ cps[1].fromBlock <= b
        BY <1>1, <1>8
    <2>2. PICK i \in 1 .. n : Sought(cps, b, 1, n, i)
        BY <2>1, SoughtExists
    <2>3. Finds(cps, b, Search(cps, b), <<1, n>>)
        BY <2>1, SearchFinds
    <2>4. Search(cps, b)[<<1, n>>] = cps[i].votes
        BY <1>1, <2>1, <2>2, <2>3 DEF Finds
    <2>5. IsLast(i, entries)
        <3>1. i \in entries
            BY <1>2, <2>1, <2>2 DEF Sought
        <3>2. \A j \in entries : j <= i
            <4>1. SUFFICES ASSUME NEW j \in entries, j > i PROVE FALSE
                BY <1>1, <1>2
            <4>2. j \in i + 1 .. n /\ cps[j].fromBlock <= b
                BY <1>1, <1>2, <2>2, <4>1
            <4>3. cps[j].fromBlock > b
                BY <2>2, <4>2 DEF Sought
            <4>4. QED
                BY <1>1, <1>2, <4>1, <4>2, <4>3
        <3>3. QED
            BY <3>1, <3>2 DEF IsLast
    <2>6. QED
        BY <1>3, <1>4, <1>8, <2>4, <2>5
<1>9. QED
    BY <1>5, <1>6, <1>7, <1>8

\* RDS.sol: the binary search of getPriorVotes finds the votes of a block.
THEOREM SearchIsExact == Spec => []SearchExact
<1>1. Consistent => SearchExact
    <2> SUFFICES ASSUME Consistent, NEW a \in Accounts, NEW b \in 0 .. block - 1
                 PROVE  GetPriorVotes(a, b) = RecordedVotes(checkpoints, a, b)
        BY DEF SearchExact
    <2>1. InOrder(checkpoints[a])
        BY DEF Consistent, WellFormed, InOrder
    <2>2. b \in Nat
        BY DEF Consistent, TypeOK
    <2>3. QED
        BY <2>1, <2>2, PriorVotesExact
<1>2. QED
    BY <1>1, VotesInvariant, PTL
=============================================================================
