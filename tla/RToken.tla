------------------------------- MODULE RToken ------------------------------
(***************************************************************************)
(* The books of one money market (RToken.sol, RTokenBase.sol and its three *)
(* parts) and the effect of every operation on them.  The operations are   *)
(* operators on the record of the books; Lending.tla guards and composes   *)
(* them.  The underlying token is external: `cash` is what the market      *)
(* holds of it, and it has no transfer fee, so that what is sent arrives.  *)
(***************************************************************************)
EXTENDS InterestRateModel, TokenSums

CONSTANTS
    Users,             \* addresses that use the markets
    System,            \* the address of rDOL as an account of itself
    BorrowRateMax,     \* borrowRateMaxMantissa
    ReserveFactor,     \* reserveFactorMantissa, 10% since initialize
    Infinite           \* uint256(-1), as an allowance

ASSUME RTokenAssumption ==
    /\ IsFiniteSet(Users) /\ System \notin Users
    /\ BorrowRateMax \in Nat
    /\ ReserveFactor \in 0 .. Scale
    /\ Infinite \notin Int

Holders == Users \cup {System}
Allowance == Nat \cup {Infinite}

Books == [cash : Nat, totalSupply : Nat, totalBorrows : Nat, totalReserves : Nat,
          borrowIndex : Nat \ {0}, accrualBlockNumber : Nat,
          accountTokens : [Holders -> Nat],
          principal : [Holders -> Nat], interestIndex : [Holders -> Nat],
          allowances : [Holders -> [Holders -> Allowance]]]

\* initialize
NewBooks(block) ==
    [cash |-> 0, totalSupply |-> 0, totalBorrows |-> 0, totalReserves |-> 0,
     borrowIndex |-> Scale, accrualBlockNumber |-> block,
     accountTokens |-> [a \in Holders |-> 0],
     principal |-> [a \in Holders |-> 0], interestIndex |-> [a \in Holders |-> 0],
     allowances |-> [a \in Holders |-> [s \in Holders |-> 0]]]

-----------------------------------------------------------------------------
\* borrowBalanceStoredInternal
BorrowBalance(t, a) ==
    IF t.principal[a] = 0 THEN 0 ELSE (t.principal[a] * t.borrowIndex) \div t.interestIndex[a]

\* What the suppliers of the market own together.
SupplierAssets(t) == (t.cash + t.totalBorrows) - t.totalReserves

\* exchangeRateStoredInternal
ExchangeRate(t, initialRate) ==
    IF t.totalSupply = 0 THEN initialRate ELSE GetExp(SupplierAssets(t), t.totalSupply)

\* updatePowerInternal: what the market reports to the Distributor
PowerOf(t, a, initialRate) ==
    t.principal[a] + MulScalarTruncate(initialRate, t.accountTokens[a])

-----------------------------------------------------------------------------
(***************************************************************************)
(* accrueInterestInternal: simple interest since the last accrual.         *)
(***************************************************************************)
CanAccrue(t, model, block) ==
    \/ t.accrualBlockNumber = block
    \/ /\ HasUtilization(t.cash, t.totalBorrows, t.totalReserves)
       /\ BorrowRate(model, t.cash, t.totalBorrows, t.totalReserves) <= BorrowRateMax

SimpleInterestFactor(t, model, block) ==
    BorrowRate(model, t.cash, t.totalBorrows, t.totalReserves) * (block - t.accrualBlockNumber)

InterestAccumulated(t, model, block) ==
    MulScalarTruncate(SimpleInterestFactor(t, model, block), t.totalBorrows)

\* Mutant: all the interest, and the reserves' share once more, is kept.
ReservesOfUnchecked(interest) == interest + MulScalarTruncate(ReserveFactor, interest)

\* The share of the interest that the market keeps for itself.
ReservesOf(interest) == MulScalarTruncate(ReserveFactor, interest)

Accrue(t, model, block) ==
    IF t.accrualBlockNumber = block THEN t
    ELSE LET factor == SimpleInterestFactor(t, model, block)
             interest == InterestAccumulated(t, model, block)
         IN  [t EXCEPT !.accrualBlockNumber = block,
                       !.borrowIndex = @ + MulScalarTruncate(factor, @),
                       !.totalBorrows = @ + interest,
                       !.totalReserves = @ + ReservesOf(interest)]

-----------------------------------------------------------------------------
\* The tokens minted for `amount`; rounded down, in favour of the market.
MintTokens(amount, rate) == DivScalarByExpTruncate(amount, rate)

\* mintFresh
MintFresh(t, a, amount, rate) ==
    LET tokens == MintTokens(amount, rate)
    IN  [t EXCEPT !.cash = @ + amount,
                  !.totalSupply = @ + tokens,
                  !.accountTokens[a] = @ + tokens]

\* Mutant: the payout is rounded up.
RedeemAmountUp(tokens, rate) == (tokens * rate + (Scale - 1)) \div Scale

\* What `tokens` redeem for; rounded down.
RedeemAmount(tokens, rate) == MulScalarTruncate(rate, tokens)

\* redeemFresh
RedeemFresh(t, a, tokens, rate) ==
    [t EXCEPT !.cash = @ - RedeemAmount(tokens, rate),
              !.totalSupply = @ - tokens,
              !.accountTokens[a] = @ - tokens]

\* The new debt of an account, snapshotted at the current index.
SetDebt(t, a, debt) ==
    [t EXCEPT !.principal[a] = debt, !.interestIndex[a] = t.borrowIndex]

\* borrowFresh
BorrowFresh(t, a, amount) ==
    [SetDebt(t, a, BorrowBalance(t, a) + amount)
        EXCEPT !.cash = @ - amount, !.totalBorrows = @ + amount]

\* Mutant: only the account's own debt bounds the repayment.
CanRepayOwn(t, a, amount) == amount <= BorrowBalance(t, a)

\* Both subtractions of repayBorrowFresh are checked.
CanRepay(t, a, amount) == amount <= BorrowBalance(t, a) /\ amount <= t.totalBorrows

\* repayBorrowFresh
RepayBorrowFresh(t, a, amount) ==
    [SetDebt(t, a, BorrowBalance(t, a) - amount)
        EXCEPT !.cash = @ + amount, !.totalBorrows = @ - amount]

\* transferTokens, seizeInternal
MoveTokens(t, src, dst, tokens) ==
    [t EXCEPT !.accountTokens[src] = @ - tokens, !.accountTokens[dst] = @ + tokens]

\* The allowance left; the owner's and an infinite one are not used up.
Spend(t, spender, src, tokens) ==
    IF spender = src \/ t.allowances[src][spender] = Infinite THEN t
    ELSE [t EXCEPT !.allowances[src][spender] = @ - tokens]

MaySpend(t, spender, src, tokens) ==
    spender # src /\ t.allowances[src][spender] # Infinite => tokens <= t.allowances[src][spender]

\* increaseSystemSupply, reduceSystemSupply: DOL minted or burnt one to one,
\* whatever the exchange rate.
IncreaseSystem(t, amount) ==
    [t EXCEPT !.cash = @ + amount, !.totalSupply = @ + amount,
              !.accountTokens[System] = @ + amount]

ReduceSystem(t, amount) ==
    [t EXCEPT !.cash = @ - amount, !.totalSupply = @ - amount,
              !.accountTokens[System] = @ - amount]

\* addReserves
AddToReserves(t, amount) == [t EXCEPT !.cash = @ + amount, !.totalReserves = @ + amount]
=============================================================================
