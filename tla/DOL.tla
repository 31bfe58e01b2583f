-------------------------------- MODULE DOL --------------------------------
(***************************************************************************)
(* The DOL token (DOL.sol): balances, allowances, a superior contract that *)
(* mints.  The RDS token is the same code with a cap on the supply and     *)
(* with votes; module RDS is written on top of this one.  Who may call     *)
(* setSuperior is decided by AuthBase, outside this module.                *)
(***************************************************************************)
EXTENDS Integers, TokenSums

CONSTANTS
    Accounts,    \* addresses that hold tokens and send transactions
    Zero,        \* address(0)
    Superiors,   \* contracts the council may make the superior
    Amounts,     \* amounts users choose
    Approvals,   \* allowances users choose
    MaxUint      \* the largest uint256, an allowance without limit

ASSUME TokenAssumption ==
    /\ IsFiniteSet(Accounts) /\ Zero \notin Accounts
    /\ Superiors \subseteq Accounts
    /\ MaxUint \in Nat /\ Amounts \subseteq 0 .. MaxUint /\ Approvals \subseteq 0 .. MaxUint

VARIABLES balances, allowances, totalSupply, superior

books == <<balances, totalSupply>>
tokenVars == <<books, allowances, superior>>

TokenTypeOK ==
    /\ balances \in [Accounts -> Nat]
    /\ allowances \in [Accounts -> [Accounts -> 0 .. MaxUint]]
    /\ totalSupply \in 0 .. MaxUint
    /\ superior \in Superiors \cup {Zero}

TokenInit ==
    /\ balances = [a \in Accounts |-> 0]
    /\ totalSupply = 0
    /\ allowances = [a \in Accounts |-> [s \in Accounts |-> 0]]
    /\ superior = Zero

\* Mutant: the allowance is used up without a check.
SpendUnchecked(sender, src, amount) ==
    allowances' = IF sender = src \/ allowances[src][sender] = MaxUint THEN allowances
                  ELSE [allowances EXCEPT ![src][sender] = @ - amount]

\* The allowance is used up by another's transfer or burn, unless unlimited.
SpendAllowance(sender, src, amount) ==
    IF sender = src \/ allowances[src][sender] = MaxUint
    THEN UNCHANGED allowances
    ELSE /\ allowances[src][sender] >= amount
         /\ allowances' = [allowances EXCEPT ![src][sender] = @ - amount]

\* The sender may be the receiver: the second write reads what the first left.
MoveBalance(src, dst, amount) ==
    LET debited == [balances EXCEPT ![src] = @ - amount]
    IN  /\ balances[src] >= amount
        /\ debited[dst] + amount <= MaxUint
        /\ balances' = [debited EXCEPT ![dst] = @ + amount]

TransferFrom(sender, src, dst, amount) ==
    /\ SpendAllowance(sender, src, amount)
    /\ MoveBalance(src, dst, amount)
    /\ UNCHANGED <<totalSupply, superior>>

Mint(sender, src, amount) ==
    /\ superior = sender
    /\ balances[src] + amount <= MaxUint
    /\ totalSupply + amount <= MaxUint
    /\ balances' = [balances EXCEPT ![src] = @ + amount]
    /\ totalSupply' = totalSupply + amount
    /\ UNCHANGED <<allowances, superior>>

Burn(sender, src, amount) ==
    /\ balances[src] >= amount
    /\ SpendAllowance(sender, src, amount)
    /\ totalSupply >= amount
    /\ balances' = [balances EXCEPT ![src] = @ - amount]
    /\ totalSupply' = totalSupply - amount
    /\ UNCHANGED superior

Approve(owner, spender, amount) ==
    /\ allowances' = [allowances EXCEPT ![owner][spender] = amount]
    /\ UNCHANGED <<books, superior>>

SetSuperior(contract) ==
    /\ superior' = contract
    /\ UNCHANGED <<books, allowances>>

TokenNext ==
    \/ \E sender, src, dst \in Accounts, amount \in Amounts : TransferFrom(sender, src, dst, amount)
    \/ \E sender, src \in Accounts, amount \in Amounts :
           Mint(sender, src, amount) \/ Burn(sender, src, amount)
    \/ \E owner, spender \in Accounts, amount \in Approvals : Approve(owner, spender, amount)
    \/ \E contract \in Superiors : SetSuperior(contract)

TokenSpec == TokenInit /\ [][TokenNext]_tokenVars

(***************************************************************************)
(* Properties                                                              *)
(***************************************************************************)

\* totalSupply (DOL.sol:24, RDS.sol:24) is the sum of the balances: no
\* transfer, in particular none to oneself, creates or loses a token.
TokensConserved == totalSupply = Total(balances)
=============================================================================
