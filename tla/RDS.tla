-------------------------------- MODULE RDS --------------------------------
(***************************************************************************)
(* The RDS token (RDS.sol): the token of module DOL with a cap on the      *)
(* supply and with votes.  A holder delegates its balance to a             *)
(* representative, directly or by a signature anyone may hand in; every    *)
(* change of a representative's votes is kept as a checkpoint per block,   *)
(* and getPriorVotes searches the checkpoints for the votes at the end of  *)
(* an earlier block.                                                       *)
(***************************************************************************)
EXTENDS DOL, Sequences

CONSTANTS
    InitialSupply,   \* what the deployer holds at the start
    MaxSupply,       \* the cap of mint
    Signatures,      \* delegations their signatories have signed
    LastBlock        \* bound of the model: last block

Signature == [signatory : Accounts, delegatee : Accounts \cup {Zero},
              nonce : Nat, expiry : Nat]

ASSUME VotesAssumption ==
    /\ InitialSupply \in Nat /\ MaxSupply \in Nat
    /\ InitialSupply <= MaxSupply /\ MaxSupply <= MaxUint
    /\ Signatures \subseteq Signature
    /\ LastBlock \in Nat

VARIABLES
    block,         \* block.number, also the clock of the expiry dates
    delegates,
    checkpoints,   \* checkpoints[a]: a sequence, its length is numCheckpoints[a]
    nonces,
    applied        \* history: the signatures that have taken effect

vars == <<tokenVars, block, delegates, checkpoints, nonces, applied>>

Checkpoint == [fromBlock : Nat, votes : Nat]

TypeOK ==
    /\ TokenTypeOK
    /\ block \in Nat \ {0}
    /\ delegates \in [Accounts -> Accounts \cup {Zero}]
    /\ checkpoints \in [Accounts -> Seq(Checkpoint)]
    /\ nonces \in [Accounts -> Nat]
    /\ applied \subseteq Signatures

Init ==
    /\ \E admin \in Accounts :
           balances = [a \in Accounts |-> IF a = admin THEN InitialSupply ELSE 0]
    /\ totalSupply = InitialSupply
    /\ allowances = [a \in Accounts |-> [s \in Accounts |-> 0]]
    /\ superior = Zero
    /\ block = 1
    /\ delegates = [a \in Accounts |-> Zero]
    /\ checkpoints = [a \in Accounts |-> <<>>]
    /\ nonces = [a \in Accounts |-> 0]
    /\ applied = {}

(***************************************************************************)
(* Checkpoints.                                                            *)
(***************************************************************************)

\* getCurrentVotes over the checkpoints `cps`.
Votes(cps, a) == IF cps[a] = <<>> THEN 0 ELSE cps[a][Len(cps[a])].votes

\* Mutant: the last checkpoint is overwritten whatever its block.
WriteCheckpointLast(cps, a, votes) ==
    LET n == Len(cps[a])
        entry == [fromBlock |-> block, votes |-> votes]
    IN  IF n > 0 THEN [cps EXCEPT ![a] = [@ EXCEPT ![n] = entry]]
        ELSE [cps EXCEPT ![a] = Append(@, entry)]

\* One checkpoint per block: a later change in the block overwrites it.
WriteCheckpoint(cps, a, votes) ==
    LET n == Len(cps[a])
        entry == [fromBlock |-> block, votes |-> votes]
    IN  IF n > 0 /\ cps[a][n].fromBlock = block
        THEN [cps EXCEPT ![a] = [@ EXCEPT ![n] = entry]]
        ELSE [cps EXCEPT ![a] = Append(@, entry)]

\* The source is written first, and the destination on top of it.
Debited(srcRep, amount) ==
    IF srcRep = Zero THEN checkpoints
    ELSE WriteCheckpoint(checkpoints, srcRep, Votes(checkpoints, srcRep) - amount)

Credited(cps, dstRep, amount) ==
    IF dstRep = Zero THEN cps
    ELSE WriteCheckpoint(cps, dstRep, Votes(cps, dstRep) + amount)

\* The subtraction and the addition of _moveDelegates revert on overflow.
MoveAllowed(srcRep, dstRep, amount) ==
    srcRep # dstRep /\ amount > 0 =>
        /\ srcRep # Zero => amount <= Votes(checkpoints, srcRep)
        /\ dstRep # Zero => Votes(checkpoints, dstRep) + amount <= MaxUint

MoveDelegates(srcRep, dstRep, amount) ==
    /\ MoveAllowed(srcRep, dstRep, amount)
    /\ checkpoints' = IF srcRep # dstRep /\ amount > 0
                      THEN Credited(Debited(srcRep, amount), dstRep, amount)
                      ELSE checkpoints

\* Mutant: the account had no votes yet in the block of its first checkpoint.
GetPriorVotesLate(a, blockNumber) ==
    LET cps == checkpoints[a]
        n == Len(cps)
        before == {i \in 1 .. n : cps[i].fromBlock <= blockNumber}
    IN  IF n = 0 THEN 0
        ELSE IF cps[n].fromBlock <= blockNumber THEN cps[n].votes
        ELSE IF cps[1].fromBlock >= blockNumber THEN 0
        ELSE cps[CHOOSE i \in before : \A j \in before : j <= i].votes

\* getPriorVotes, with its binary search; checkpoint i of the code is i + 1.
GetPriorVotes(a, blockNumber) ==
    LET cps == checkpoints[a]
        n == Len(cps)
        search[r \in (1 .. n) \X (1 .. n)] ==
            LET lower == r[1]
                upper == r[2]
                center == upper - (upper - lower) \div 2
            IN  IF upper <= lower THEN cps[lower].votes
                ELSE IF cps[center].fromBlock = blockNumber THEN cps[center].votes
                ELSE IF cps[center].fromBlock < blockNumber THEN search[<<center, upper>>]
                ELSE search[<<lower, center - 1>>]
    IN  IF n = 0 THEN 0
        ELSE IF cps[n].fromBlock <= blockNumber THEN cps[n].votes
        ELSE IF cps[1].fromBlock > blockNumber THEN 0
        ELSE search[<<1, n>>]

(***************************************************************************)
(* Operations.                                                             *)
(***************************************************************************)
Transfer(sender, src, dst, amount) ==
    /\ TransferFrom(sender, src, dst, amount)
    /\ MoveDelegates(delegates[src], delegates[dst], amount)
    /\ UNCHANGED <<block, delegates, nonces, applied>>

MintCapped(sender, src, amount) ==
    /\ totalSupply + amount <= MaxSupply
    /\ Mint(sender, src, amount)
    /\ MoveDelegates(Zero, delegates[src], amount)
    /\ UNCHANGED <<block, delegates, nonces, applied>>

\* Mutant: the votes of what is burnt stay with the delegate.
BurnVotesKept(sender, src, amount) ==
    /\ Burn(sender, src, amount)
    /\ UNCHANGED <<block, delegates, checkpoints, nonces, applied>>


BurnVotes(sender, src, amount) ==
    /\ Burn(sender, src, amount)
    /\ MoveDelegates(delegates[src], Zero, amount)
    /\ UNCHANGED <<block, delegates, nonces, applied>>

\* Mutant: the delegate is read after it was written, so that no votes move.
DelegateVotesAfter(delegator, delegatee) ==
    /\ delegates' = [delegates EXCEPT ![delegator] = delegatee]
    /\ MoveDelegates(delegatee, delegatee, balances[delegator])
    /\ UNCHANGED <<tokenVars, block>>

\* _delegate moves the whole balance; the former delegate is read first.
DelegateVotes(delegator, delegatee) ==
    /\ delegates' = [delegates EXCEPT ![delegator] = delegatee]
    /\ MoveDelegates(delegates[delegator], delegatee, balances[delegator])
    /\ UNCHANGED <<tokenVars, block>>

Delegate(sender, delegatee) ==
    /\ DelegateVotes(sender, delegatee)
    /\ UNCHANGED <<nonces, applied>>

\* Mutant: the nonce is compared and not counted.
DelegateBySigAgain(sig) ==
    /\ sig.nonce = nonces[sig.signatory]
    /\ block <= sig.expiry
    /\ DelegateVotes(sig.signatory, sig.delegatee)
    /\ applied' = applied \cup {sig}
    /\ UNCHANGED nonces

\* Anyone may hand in a signature.  A call that reverts leaves the nonce alone.
DelegateBySig(sig) ==
    /\ sig.nonce = nonces[sig.signatory]
    /\ nonces' = [nonces EXCEPT ![sig.signatory] = @ + 1]
    /\ block <= sig.expiry
    /\ DelegateVotes(sig.signatory, sig.delegatee)
    /\ applied' = applied \cup {sig}

\* Operations of the token that leave the votes alone.
Administer ==
    /\ \/ \E owner, spender \in Accounts, amount \in Approvals : Approve(owner, spender, amount)
       \/ \E contract \in Superiors : SetSuperior(contract)
    /\ UNCHANGED <<block, delegates, checkpoints, nonces, applied>>

\* External: the chain moves on.
NextBlock ==
    /\ block < LastBlock
    /\ block' = block + 1
    /\ UNCHANGED <<tokenVars, delegates, checkpoints, nonces, applied>>

Next ==
    \/ \E sender, src, dst \in Accounts, amount \in Amounts : Transfer(sender, src, dst, amount)
    \/ \E sender, src \in Accounts, amount \in Amounts : MintCapped(sender, src, amount)
    \/ \E sender, src \in Accounts, amount \in Amounts : BurnVotes(sender, src, amount)
    \/ \E sender \in Accounts, delegatee \in Accounts \cup {Zero} : Delegate(sender, delegatee)
    \/ \E sig \in Signatures : DelegateBySig(sig)
    \/ Administer
    \/ NextBlock

Spec == Init /\ [][Next]_vars

(***************************************************************************)
(* Properties.                                                             *)
(***************************************************************************)

\* The last of the checkpoints `cps` of `a` not after block b.
EntriesUntil(cps, a, b) == {i \in 1 .. Len(cps[a]) : cps[a][i].fromBlock <= b}
IsLast(i, entries) == i \in entries /\ \A j \in entries : j <= i

\* The votes recorded for `a` at the end of block b: what the search looks for.
RecordedVotes(cps, a, b) ==
    LET entries == EntriesUntil(cps, a, b)
    IN  IF entries = {} THEN 0
        ELSE cps[a][CHOOSE i \in entries : IsLast(i, entries)].votes

\* What the checkpoints say of the blocks that are over.
Past == [b \in 1 .. block - 1 |-> [a \in Accounts |-> RecordedVotes(checkpoints, a, b)]]

Register == INSTANCE VoteRegister WITH past <- Past

\* The supply stays under its cap (RDS.sol:27) and is what the accounts hold,
\* from the deployer's initial supply on.
SupplyCapped == TokensConserved /\ totalSupply <= MaxSupply

\* getCurrentVotes (RDS.sol:263) answers with the sum of the balances
\* delegated to an account, whatever transfers, mints, burns and delegations
\* shared a block: the votes are kept by differences and never recounted.
VotesMatchBalances ==
    \A a \in Accounts : Votes(checkpoints, a) = Register!VotesOf(a)

\* A holder may always send or burn what it holds, and redelegate it: the
\* subtraction of votes (RDS.sol:325) never reverts the operation.
HoldingsMovable ==
    \A h \in Accounts, rep \in Accounts \cup {Zero}, amount \in 0 .. MaxSupply :
        amount <= balances[h] => MoveAllowed(delegates[h], rep, amount)

\* The checkpoints implement the register: the votes an account has at the
\* end of a block are recorded for that block, and no later operation
\* changes what is recorded for a block that is over (RDS.sol:338).
VotesRegistered == Register!RegisterSpec

\* The binary search of getPriorVotes (RDS.sol:293) finds the last checkpoint
\* not after the block, for every number of checkpoints and every block over.
SearchExact ==
    \A a \in Accounts, b \in 0 .. block - 1 : GetPriorVotes(a, b) = RecordedVotes(checkpoints, a, b)

AppliedBy(a) == {s \in applied : s.signatory = a}

\* The signatures of a signatory that have taken effect have distinct nonces below
\* its counter, as many as the counter: those from 0 on without a gap, at every
\* moment, so that none takes effect twice nor before the ones signed earlier
\* (RDS.sol:253).
SignaturesOnce ==
    /\ \A a \in Accounts : Cardinality(AppliedBy(a)) = nonces[a]
    /\ \A s, t \in applied : s.signatory = t.signatory /\ s.nonce = t.nonce => s = t
    /\ \A s \in applied : s.nonce < nonces[s.signatory]
=============================================================================
