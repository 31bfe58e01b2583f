------------------------------- MODULE Lending -----------------------------
(***************************************************************************)
(* The money markets together: the RTokens, the market controller that     *)
(* guards their operations (MarketController.sol, its library), the price  *)
(* oracle, the interest rate model, and the power that every market        *)
(* reports to the Distributor.  An operation runs in one transaction and   *)
(* reverts as a whole, so that it is one action.                           *)
(*                                                                         *)
(* Interest is accrued in the markets an operation touches and in no       *)
(* other: liquidity is computed from stored indexes and exchange rates.    *)
(***************************************************************************)
EXTENDS RToken

CONSTANTS
    Markets,                \* RTokens
    SystemMarket,           \* rDOL, the market of the protocol's own DOL
    EtherMarkets,           \* rETH, whose underlying is ether
    InitialRate,            \* initialExchangeRateMantissa of every market
    GenesisSupply,          \* DOL supplied by the system at genesis
    Amounts,                \* amounts the users may choose
    Grants,                 \* amounts added to reserves or to the system's supply
    Allowances,             \* allowances they may give
    Prices,                 \* prices the oracle may report for every market
    CollateralFactors,      \* the council may choose
    CloseFactors,
    LiquidationIncentives,
    DefaultCollateralFactor,
    RateModels,             \* interest rate models the council may choose
    MaySuspend,             \* bounds of the model: whether the council may suspend,
    Retirable,              \* markets it may close,
    Suppliers,              \* users who may supply each market,
    Borrowers,              \* users who may borrow from it,
    LateMarkets,            \* markets whose pool opens after genesis,
    Receivers,              \* accounts tokens may be transferred to,
    MaxBlock,               \* last block,
    MaxCash                 \* and largest amount of an underlying in a market

ASSUME LendingAssumption ==
    /\ IsFiniteSet(Markets) /\ SystemMarket \in Markets
    /\ EtherMarkets \subseteq Markets \ {SystemMarket}
    /\ InitialRate \in [Markets -> Nat \ {0}] /\ InitialRate[SystemMarket] = Scale
    /\ GenesisSupply \in Nat /\ Amounts \subseteq Nat /\ Grants \subseteq Nat
    /\ Allowances \subseteq Allowance
    /\ Prices \in [Markets -> SUBSET Nat]
    /\ CollateralFactors \subseteq 0 .. Scale /\ DefaultCollateralFactor \in CollateralFactors
    /\ CloseFactors \subseteq 0 .. Scale
    /\ LiquidationIncentives \subseteq Nat
    /\ RateModels \subseteq Model
    /\ MaySuspend \in BOOLEAN /\ Retirable \subseteq Markets
    /\ Suppliers \in [Markets -> SUBSET Users] /\ Borrowers \in [Markets -> SUBSET Users]
    /\ Receivers \subseteq Holders /\ LateMarkets \subseteq Markets
    /\ MaxBlock \in Nat /\ MaxCash \in Nat

VARIABLES
    block,                  \* block.number
    rToken,                 \* the books of every market
    market,                 \* MarketController: state of every market
    collateralFactor, closeFactor, liquidationIncentive, suspended,
    price,                  \* the oracle's price of every underlying
    rateModel,              \* the interest rate model
    activePools,            \* Distributor: markets with an active pool
    unopened,               \* markets with a pool that has not started, or none yet
    power,                  \* Distributor: power last reported, per market
    earlyPower              \* history: the power when the pool opened, never reported

settings == <<collateralFactor, closeFactor, liquidationIncentive, rateModel>>
pools == <<activePools, unopened, earlyPower>>
control == <<market, suspended, pools, settings>>
books == <<rToken, power>>
vars == <<block, books, control, price>>

MarketState == {"None", "Listed", "Closing", "Liquidating"}

\* The markets after genesis: rDOL holds the system's first supply and all the
\* markets are listed.  A market is in use from then on, whether its pool has
\* been created and opened or not.
Init ==
    /\ block = 1
    /\ rToken = [m \in Markets |->
                    IF m = SystemMarket THEN IncreaseSystem(NewBooks(1), GenesisSupply)
                    ELSE NewBooks(1)]
    /\ market = [m \in Markets |-> "Listed"]
    /\ collateralFactor = [m \in Markets |-> DefaultCollateralFactor]
    /\ closeFactor \in CloseFactors
    /\ liquidationIncentive \in LiquidationIncentives
    /\ suspended = FALSE
    /\ price \in {p \in [Markets -> UNION {Prices[m] : m \in Markets}] :
                    \A m \in Markets : p[m] \in Prices[m]}
    /\ rateModel \in RateModels
    /\ activePools = Markets \ LateMarkets
    /\ unopened = LateMarkets
    /\ power = [m \in Markets |-> [a \in Holders |-> 0]]
    /\ earlyPower = [m \in Markets |-> [a \in Holders |-> 0]]

-----------------------------------------------------------------------------
(***************************************************************************)
(* Liquidity of an account (getHypotheticalAccountLiquidityInternal), from *)
(* the books R.                                                            *)
(***************************************************************************)
Assets == {m \in Markets : market[m] # "None"}

RateIn(R, m) == ExchangeRate(R[m], InitialRate[m])

\* Value of the collateral behind one token of m.
TokensToDenom(R, m) == MulExp3(collateralFactor[m], RateIn(R, m), price[m])

SumCollateral(R, a) ==
    Total([m \in Assets |-> MulScalarTruncate(TokensToDenom(R, m), R[m].accountTokens[a])])

SumBorrow(R, a) ==
    Total([m \in Assets |-> MulScalarTruncate(price[m], BorrowBalance(R[m], a))])

\* The effect of redeeming or borrowing in m.
Effects(R, m, redeemTokens, borrowAmount) ==
    MulScalarTruncate(TokensToDenom(R, m), redeemTokens) + MulScalarTruncate(price[m], borrowAmount)

Shortfall(R, a) == IF SumBorrow(R, a) > SumCollateral(R, a)
                   THEN SumBorrow(R, a) - SumCollateral(R, a) ELSE 0

\* The prices the calculation needs are known.
Holds(R, m, a) == R[m].accountTokens[a] > 0 \/ BorrowBalance(R[m], a) > 0
Priced(R, a) == \A m \in Assets : Holds(R, m, a) => price[m] > 0

\* Mutant: the liquidity before the operation is enough.
CoveredBefore(R, a, m, redeemTokens, borrowAmount) ==
    Priced(R, a) /\ SumBorrow(R, a) <= SumCollateral(R, a)

\* The hypothetical shortfall is zero.
Covered(R, a, m, redeemTokens, borrowAmount) ==
    /\ Priced(R, a) /\ (m \in Assets => price[m] > 0)
    /\ SumBorrow(R, a) + (IF m \in Assets THEN Effects(R, m, redeemTokens, borrowAmount) ELSE 0)
           <= SumCollateral(R, a)

-----------------------------------------------------------------------------
(***************************************************************************)
(* The policy hooks of the market controller.                              *)
(***************************************************************************)
MintAllowed(m) == market[m] = "Listed" /\ ~suspended

\* Mutant: suspension is not checked.
RedeemAllowedAlways(R, m, a, tokens) == market[m] # "None" /\ Covered(R, a, m, tokens, 0)

\* Mutant: redeeming needs a listed market, as minting does.
RedeemAllowedListed(R, m, a, tokens) == MintAllowed(m) /\ Covered(R, a, m, tokens, 0)

\* redeemAllowedInternal, transferAllowed
RedeemAllowed(R, m, a, tokens) ==
    ~suspended /\ market[m] # "None" /\ Covered(R, a, m, tokens, 0)

BorrowAllowed(R, m, a, amount) ==
    ~suspended /\ market[m] = "Listed" /\ Covered(R, a, m, 0, amount)

RepayBorrowAllowed(m) == market[m] # "None" /\ ~suspended

MaxClose(R, m, a) == MulScalarTruncate(closeFactor, BorrowBalance(R[m], a))

IsLiquidating(m) == market[m] = "Liquidating"

\* Only an account in shortfall can be liquidated, and only in part, unless
\* one of the two markets is being wound up.
LiquidateBorrowAllowed(R, borrowed, collateral, borrower, amount) ==
    /\ market[collateral] # "None" /\ market[borrowed] # "None"
    /\ \/ IsLiquidating(borrowed) \/ IsLiquidating(collateral)
       \/ /\ Priced(R, borrower) /\ Shortfall(R, borrower) > 0
          /\ amount <= MaxClose(R, borrowed, borrower)

SeizeAllowed(collateral, borrowed) ==
    ~suspended /\ market[collateral] # "None" /\ market[borrowed] # "None"

\* liquidateCalculateSeizeTokens
SeizeNumerator(borrowed) == MulExp(liquidationIncentive, price[borrowed])
SeizeDenominator(R, collateral) == MulExp(price[collateral], RateIn(R, collateral))

CanCalculateSeize(R, borrowed, collateral) ==
    price[borrowed] > 0 /\ price[collateral] > 0 /\ SeizeDenominator(R, collateral) > 0

\* Mutant: the exchange rate of the collateral is left out.
SeizeTokensAtPar(R, borrowed, collateral, amount) ==
    MulScalarTruncate(GetExp(SeizeNumerator(borrowed), price[collateral]), amount)

SeizeTokens(R, borrowed, collateral, amount) ==
    MulScalarTruncate(GetExp(SeizeNumerator(borrowed), SeizeDenominator(R, collateral)), amount)

-----------------------------------------------------------------------------
(***************************************************************************)
(* Operations of the users.                                                *)
(***************************************************************************)
\* accrueInterestInternal in the markets M
AccruedIn(M) == [m \in Markets |-> IF m \in M THEN Accrue(rToken[m], rateModel, block) ELSE rToken[m]]
CanAccrueIn(M) == \A m \in M : CanAccrue(rToken[m], rateModel, block)

\* Mutant: only the first of the two parties is reported.
PartiesFirst(account, other) == {account}

\* The parties of a market whose power its operations report: an account whose
\* tokens or whose debt was written.
Parties(account, other) == {account, other}

\* updatePowerInternal for the accounts A of m, after the books were written
Reported(P, m, A) ==
    IF m \in activePools
    THEN [P EXCEPT ![m] = [a \in Holders |->
            IF a \in A THEN PowerOf(rToken'[m], a, InitialRate[m]) ELSE @[a]]]
    ELSE P

Write(R, m, A) ==
    /\ rToken' = R
    /\ power' = Reported(power, m, A)
    /\ UNCHANGED <<block, control, price>>

\* An account is named twice where an operation has one party.
Mint(m, a, amount) ==
    LET R == AccruedIn({m})
    IN  /\ CanAccrueIn({m}) /\ MintAllowed(m)
        /\ R[m].cash + amount <= MaxCash
        /\ Write([R EXCEPT ![m] = MintFresh(@, a, amount, RateIn(R, m))], m, Parties(a, a))

\* Nothing that redeem requires, or calls, reverts.
CanRedeem(m, a, tokens) ==
    LET R == AccruedIn({m})
    IN  /\ CanAccrueIn({m})
        /\ tokens <= R[m].accountTokens[a]
        /\ RedeemAllowed(R, m, a, tokens)
        /\ RedeemAmount(tokens, RateIn(R, m)) <= R[m].cash

Redeem(m, a, tokens) ==
    LET R == AccruedIn({m})
    IN  /\ CanRedeem(m, a, tokens)
        /\ Write([R EXCEPT ![m] = RedeemFresh(@, a, tokens, RateIn(R, m))], m, Parties(a, a))

Borrow(m, a, amount) ==
    LET R == AccruedIn({m})
    IN  /\ CanAccrueIn({m})
        /\ amount <= R[m].cash
        /\ BorrowAllowed(R, m, a, amount)
        /\ Write([R EXCEPT ![m] = BorrowFresh(@, a, amount)], m, Parties(a, a))

\* repayBorrow, repayBorrowBehalf: who pays makes no difference to the books.
RepayBorrow(m, a, amount) ==
    LET R == AccruedIn({m})
    IN  /\ CanAccrueIn({m}) /\ RepayBorrowAllowed(m)
        /\ CanRepay(R[m], a, amount)
        /\ R[m].cash + amount <= MaxCash
        /\ Write([R EXCEPT ![m] = RepayBorrowFresh(@, a, amount)], m, Parties(a, a))

\* repayAmount = uint256(-1)
RepayAll(m, a) == RepayBorrow(m, a, BorrowBalance(AccruedIn({m})[m], a))

\* transfer, transferFrom: no interest is accrued.
TransferTokens(m, spender, src, dst, tokens) ==
    /\ src # dst
    /\ MaySpend(rToken[m], spender, src, tokens)
    /\ tokens <= rToken[m].accountTokens[src]
    /\ RedeemAllowed(rToken, m, src, tokens)
    /\ Write([rToken EXCEPT ![m] = MoveTokens(Spend(@, spender, src, tokens), src, dst, tokens)],
             m, Parties(dst, src))

\* Nobody spends an allowance given to oneself: Next leaves those out.
Approve(m, src, spender, allowance) ==
    Write([rToken EXCEPT ![m].allowances[src][spender] = allowance], m, {})

\* What the market controller reads while m handles a payment of `amount`: ether
\* comes with the call, and getCashPrior takes off only the value of the call it
\* is asked by, which is none.
Arriving(R, m, amount) == IF m \in EtherMarkets THEN [R EXCEPT ![m].cash = @ + amount] ELSE R

\* liquidateBorrow: the debt is repaid first; the collateral is then seized at
\* the exchange rate that follows the repayment.
LiquidateBorrow(borrowed, collateral, liquidator, borrower, amount) ==
    LET R == AccruedIn({borrowed, collateral})
        repaid == [R EXCEPT ![borrowed] = RepayBorrowFresh(@, borrower, amount)]
        tokens == SeizeTokens(repaid, borrowed, collateral, amount)
    IN  /\ amount > 0 /\ borrower # liquidator
        /\ CanAccrueIn({borrowed, collateral})
        /\ RepayBorrowAllowed(borrowed) /\ CanRepay(R[borrowed], borrower, amount)
        /\ LiquidateBorrowAllowed(Arriving(R, borrowed, amount), borrowed, collateral, borrower, amount)
        /\ R[borrowed].cash + amount <= MaxCash
        /\ CanCalculateSeize(repaid, borrowed, collateral)
        /\ SeizeAllowed(collateral, borrowed)
        /\ tokens <= repaid[collateral].accountTokens[borrower]
        /\ rToken' = [repaid EXCEPT ![collateral] = MoveTokens(@, borrower, liquidator, tokens)]
        /\ power' = Reported(Reported(power, borrowed, {borrower}),
                             collateral, Parties(liquidator, borrower))
        /\ UNCHANGED <<block, control, price>>

\* Reserves can be added in the ERC-20 markets only (RERC20.sol).
AddReserves(m, amount) ==
    LET R == AccruedIn({m})
    IN  /\ m \notin EtherMarkets /\ CanAccrueIn({m})
        /\ R[m].cash + amount <= MaxCash
        /\ Write([R EXCEPT ![m] = AddToReserves(@, amount)], m, {})

\* ERC-20 tokens sent straight to the market are cash of it as well; ether sent
\* to rETH is a supply.
Donate(m, amount) ==
    /\ m \notin EtherMarkets
    /\ rToken[m].cash + amount <= MaxCash
    /\ Write([rToken EXCEPT ![m].cash = @ + amount], m, {})

AccrueInterest(m) == CanAccrueIn({m}) /\ Write(AccruedIn({m}), m, {})

-----------------------------------------------------------------------------
(***************************************************************************)
(* Governance.  setReserveFactor and reduceReserves revert in every call   *)
(* (RToken's guard against reentrancy is taken twice), and take no step.   *)
(***************************************************************************)
IncreaseSystemSupply(amount) ==
    LET R == AccruedIn({SystemMarket})
    IN  /\ CanAccrueIn({SystemMarket})
        /\ R[SystemMarket].cash + amount <= MaxCash
        /\ Write([R EXCEPT ![SystemMarket] = IncreaseSystem(@, amount)], SystemMarket, {})

ReduceSystemSupply(amount) ==
    LET R == AccruedIn({SystemMarket})
    IN  /\ CanAccrueIn({SystemMarket})
        /\ amount <= R[SystemMarket].accountTokens[System]
        /\ amount <= R[SystemMarket].cash
        /\ Write([R EXCEPT ![SystemMarket] = ReduceSystem(@, amount)], SystemMarket, {})

MoveMarket(m, from, to) == market[m] = from /\ market' = [market EXCEPT ![m] = to]

SupportMarket(m) ==
    /\ MoveMarket(m, "None", "Listed")
    /\ collateralFactor' = [collateralFactor EXCEPT ![m] = DefaultCollateralFactor]
    /\ UNCHANGED <<block, books, price, suspended, pools,
                   closeFactor, liquidationIncentive, rateModel>>

\* closeLendingPool reverts when the pool is not active.
CloseMarket(m) ==
    /\ MoveMarket(m, "Listed", "Closing")
    /\ m \in activePools /\ activePools' = activePools \ {m}
    /\ UNCHANGED <<block, books, price, suspended, unopened, earlyPower, settings>>

LiquidateMarket(m) ==
    /\ MoveMarket(m, "Closing", "Liquidating")
    /\ UNCHANGED <<block, books, price, suspended, pools, settings>>

\* The books of the market are not looked at.
RemoveMarket(m) ==
    /\ MoveMarket(m, "Liquidating", "None")
    /\ collateralFactor' = [collateralFactor EXCEPT ![m] = 0]
    /\ UNCHANGED <<block, books, price, suspended, pools,
                   closeFactor, liquidationIncentive, rateModel>>

ToogleSuspension ==
    /\ MaySuspend
    /\ suspended' = ~suspended
    /\ UNCHANGED <<block, books, price, market, pools, settings>>

SetCollateralFactor(m, factor) ==
    /\ market[m] = "Listed"
    /\ collateralFactor' = [collateralFactor EXCEPT ![m] = factor]
    /\ UNCHANGED <<block, books, price, market, suspended, pools,
                   closeFactor, liquidationIncentive, rateModel>>

SetCloseFactor(factor) ==
    /\ closeFactor' = factor
    /\ UNCHANGED <<block, books, price, market, suspended, pools,
                   collateralFactor, liquidationIncentive, rateModel>>

SetLiquidationIncentive(incentive) ==
    /\ liquidationIncentive' = incentive
    /\ UNCHANGED <<block, books, price, market, suspended, pools,
                   collateralFactor, closeFactor, rateModel>>

\* The markets do not accrue their interest at the old rates first.
UpdateModel(model) ==
    /\ rateModel' = model
    /\ UNCHANGED <<block, books, price, market, suspended, pools,
                   collateralFactor, closeFactor, liquidationIncentive>>

\* Anybody opens a pool that was created and whose time has come, with openPool
\* of the Distributor.  A market reports nothing before that, and nothing of what
\* its accounts hold when it happens.
OpenPool(m) ==
    /\ m \in unopened /\ unopened' = unopened \ {m}
    /\ activePools' = activePools \union {m}
    /\ earlyPower' = [earlyPower EXCEPT ![m] =
                        [a \in Holders |-> PowerOf(rToken[m], a, InitialRate[m])]]
    /\ UNCHANGED <<block, books, price, market, suspended, settings>>

\* The oracle
SetPrice(m, p) == price' = [price EXCEPT ![m] = p] /\ UNCHANGED <<block, books, control>>

NextBlock == block < MaxBlock /\ block' = block + 1 /\ UNCHANGED <<books, control, price>>

Govern ==
    \/ \E n \in Grants : IncreaseSystemSupply(n) \/ ReduceSystemSupply(n)
    \/ \E m \in Retirable : SupportMarket(m) \/ CloseMarket(m) \/ LiquidateMarket(m) \/ RemoveMarket(m)
    \/ \E m \in Markets, f \in CollateralFactors : SetCollateralFactor(m, f)
    \/ ToogleSuspension
    \/ \E f \in CloseFactors : SetCloseFactor(f)
    \/ \E i \in LiquidationIncentives : SetLiquidationIncentive(i)
    \/ \E model \in RateModels : UpdateModel(model)

Use ==
    \E m \in Markets :
        \/ AccrueInterest(m)
        \/ \E n \in Grants : AddReserves(m, n) \/ Donate(m, n)
        \/ \E a \in Users, n \in Amounts :
            \/ a \in Suppliers[m] /\ Mint(m, a, n)
            \/ a \in Borrowers[m] /\ Borrow(m, a, n)
            \/ Redeem(m, a, n) \/ RepayBorrow(m, a, n)
            \/ \E src \in Users, dst \in Receivers : TransferTokens(m, a, src, dst, n)
            \/ \E c \in Markets, b \in Users : LiquidateBorrow(m, c, a, b, n)
        \/ \E a \in Users : RepayAll(m, a)
        \/ \E a \in Users, n \in Allowances : \E s \in Users \ {a} : Approve(m, a, s, n)

Next ==
    \/ NextBlock \/ Use \/ Govern
    \/ \E m \in Markets : OpenPool(m) \/ \E p \in Prices[m] : SetPrice(m, p)

Spec == Init /\ [][Next]_vars

-----------------------------------------------------------------------------
(***************************************************************************)
(* Properties.                                                             *)
(***************************************************************************)
\* Every amount, index and allowance is a natural number: no checked
\* subtraction of the markets (CarefulMath.subUInt) is ever passed a larger
\* subtrahend by a step that goes through.
TypeOK ==
    /\ block \in Nat
    /\ rToken \in [Markets -> Books]
    /\ market \in [Markets -> MarketState]
    /\ collateralFactor \in [Markets -> 0 .. Scale]
    /\ closeFactor \in 0 .. Scale /\ liquidationIncentive \in Nat
    /\ suspended \in BOOLEAN
    /\ price \in [Markets -> Nat]
    /\ rateModel \in Model
    /\ activePools \subseteq Markets /\ unopened \subseteq Markets \ activePools
    /\ power \in [Markets -> [Holders -> Nat]]
    /\ earlyPower \in [Markets -> [Holders -> Nat]]

\* The supply of every RToken is the sum of its accounts' tokens: minting,
\* redeeming, transferring and seizing neither create nor lose tokens.
SupplyConservation == \A m \in Markets : rToken[m].totalSupply = Total(rToken[m].accountTokens)

\* Every RToken is worth at least its initial exchange rate: what the market
\* holds and is owed, less its reserves, covers its whole supply at that rate,
\* whatever the rounding (exchangeRateStoredInternal, mintFresh, redeemFresh).
SupplyBacked ==
    \A m \in Markets :
        rToken[m].totalSupply * InitialRate[m] <= SupplierAssets(rToken[m]) * Scale

\* The Distributor knows the power of every account of an active pool, for each
\* operation that writes tokens or a principal reports it (updatePowerInternal),
\* with one exception: what an account supplied or borrowed before the pool opened
\* was skipped (the pool is not active then) and counts for nothing, until an
\* operation on the account changes it.  A pool not yet open knows of no power.
Known(m, a) ==
    LET now == PowerOf(rToken[m], a, InitialRate[m])
    IN  power[m][a] = now \/ (power[m][a] = 0 /\ now = earlyPower[m][a])

PowersReported ==
    /\ \A m \in activePools, a \in Users : Known(m, a)
    /\ \A m \in unopened, a \in Users : power[m][a] = 0

\* The stored exchange rate of a market never falls while it has suppliers:
\* no operation of a user and no accrual takes from those who stay.  Only the
\* system's own supply, minted one to one, may dilute it (increaseSystemSupply).
SystemDilutes(m) ==
    LET minted == rToken'[m].totalSupply - rToken[m].totalSupply
    IN  minted > 0 /\ minted = rToken'[m].accountTokens[System] - rToken[m].accountTokens[System]

RateKept ==
    \A m \in Markets :
        rToken[m].totalSupply > 0 /\ rToken'[m].totalSupply > 0 /\ ~SystemDilutes(m)
            => RateIn(rToken', m) >= RateIn(rToken, m)

RateNeverFalls == [][RateKept]_vars

\* While the protocol is suspended no user's tokens nor debt move, by any of
\* the paths that lead to them (generalCheck, seizeAllowed).
Frozen ==
    \A m \in Markets, a \in Users :
        /\ rToken'[m].accountTokens[a] = rToken[m].accountTokens[a]
        /\ rToken'[m].principal[a] = rToken[m].principal[a]

SuspensionFreezes == [][suspended => Frozen]_vars

\* No account gets into shortfall by what it or another one does with tokens and
\* debts: when prices, settings and interest stay as they are and the system does
\* not dilute the supply, no step raises its shortfall beyond the unit that
\* truncation may cost, whatever the other accounts do to the rates
\* (redeemAllowedInternal, borrowAllowed).  Its own liquidation does not either,
\* unless the incentive eats up the margin of the collateral: MarginKept says
\* that the collateral value of what is seized for one unit of debt, as the code
\* rounds it, is at most the value of that debt (liquidateCalculateSeizeTokens,
\* getHypotheticalAccountLiquidityInternal).
StillMarkets ==
    /\ UNCHANGED <<block, control, price>>
    /\ \A m \in Markets : rToken'[m].accrualBlockNumber = rToken[m].accrualBlockNumber
                          /\ ~SystemDilutes(m)

MarginKept(borrowed, collateral) ==
    TokensToDenom(rToken, collateral) * SeizeNumerator(borrowed)
        <= price[borrowed] * SeizeDenominator(rToken, collateral)

LiquidatedWithoutMargin(a) ==
    \E m, c \in Markets, liquidator \in Users, n \in Amounts :
        ~MarginKept(m, c) /\ LiquidateBorrow(m, c, liquidator, a, n)

ShortfallKept(a) == Shortfall(rToken', a) <= Shortfall(rToken, a) + 1

ShortfallKeptByMoving ==
    StillMarkets => \A a \in Users : ShortfallKept(a) \/ LiquidatedWithoutMargin(a)

NoShortfallByMoving == [][ShortfallKeptByMoving]_vars

\* A supplier without debts can always leave a market that still exists, for
\* the cash the market holds, while it is being closed or liquidated too
\* (redeemAllowedInternal): the guard of Redeem holds, and the rounding of the
\* hypothetical liquidity never turns anybody away.
DebtFree(a) == \A m \in Markets : rToken[m].principal[a] = 0

DebtFreeMayLeave ==
    \A m \in Assets, a \in Users, n \in Amounts :
        LET R == AccruedIn({m})
            payable == n <= R[m].accountTokens[a] /\ RedeemAmount(n, RateIn(R, m)) <= R[m].cash
            open == ~suspended /\ CanAccrueIn({m}) /\ Priced(R, a) /\ price[m] > 0
        IN  DebtFree(a) /\ payable /\ open => CanRedeem(m, a, n)

\* The cash of a market is what it holds without the value of the call in
\* progress (getCashPrior): a borrower in shortfall can be liquidated for all
\* the close factor allows, whatever amount the liquidator sends.
PaymentExcluded ==
    \A m \in EtherMarkets, a \in Users, n \in Amounts :
        LET R == AccruedIn({m})
        IN  CanAccrueIn({m}) /\ Priced(R, a) /\ Shortfall(R, a) > 0 /\ n <= MaxClose(R, m, a)
                => LiquidateBorrowAllowed(Arriving(R, m, n), m, m, a, n)

\* A debt can always be repaid in full: neither the accrual that comes first
\* nor the checked subtraction from totalBorrows reverts (repayBorrowFresh).
DebtRepayable ==
    \A m \in Markets, a \in Users :
        LET t == Accrue(rToken[m], rateModel, block)
        IN  rToken[m].principal[a] > 0 =>
                CanAccrue(rToken[m], rateModel, block) /\ CanRepay(t, a, BorrowBalance(t, a))
=============================================================================
