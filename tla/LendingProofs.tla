--------------------------- MODULE LendingProofs ---------------------------
(***************************************************************************)
(* Theorems about Lending, for all users, markets, amounts, prices, rates, *)
(* models and scales.                                                      *)
(***************************************************************************)
EXTENDS Lending, DataTheorems

USE ScaleAssumption

-----------------------------------------------------------------------------
(***************************************************************************)
(* Arithmetic of truncation.                                               *)
(***************************************************************************)
LEMMA ProductType == ASSUME NEW x \in Nat, NEW y \in Nat PROVE x * y \in Nat
    OBVIOUS

LEMMA ProductMonotone ==
    ASSUME NEW x \in Nat, NEW y \in Int, NEW z \in Int, y <= z
    PROVE  x * y <= x * z /\ y * x <= z * x
    OBVIOUS

LEMMA QuotientType ==
    ASSUME NEW x \in Nat, NEW m \in Nat \ {0}
    PROVE  x \div m \in Nat /\ (x \div m) * m <= x
    OBVIOUS

\* A quotient is the largest number whose product fits.
LEMMA QuotientReaches ==
    ASSUME NEW q \in Nat, NEW x \in Nat, NEW m \in Nat \ {0}, q * m <= x
    PROVE  q <= x \div m
<1> DEFINE p == x \div m
<1>1. p \in Nat /\ x < (p + 1) * m
    OBVIOUS
<1> HIDE DEF p
<1>2. SUFFICES ASSUME p < q PROVE FALSE
    BY <1>1 DEF p
<1>3. (p + 1) * m <= q * m
    BY <1>1, <1>2, ProductMonotone
<1>4. (p + 1) * m \in Nat /\ q * m \in Nat
    BY <1>1, ProductType
<1>5. QED
    BY <1>1, <1>3, <1>4

LEMMA TruncateType ==
    ASSUME NEW e \in Nat, NEW n \in Nat
    PROVE  /\ MulScalarTruncate(e, n) \in Nat
           /\ MulScalarTruncate(e, n) * Scale <= e * n
BY ProductType, QuotientType DEF MulScalarTruncate, Truncate

\* A fraction of `n` is at most `n`.
LEMMA TruncateFraction ==
    ASSUME NEW e \in 0 .. Scale, NEW n \in Nat
    PROVE  MulScalarTruncate(e, n) <= n
<1> DEFINE p == MulScalarTruncate(e, n)
           lower == p * Scale
           upper == n * Scale
<1>1. e \in Nat /\ e <= Scale
    OBVIOUS
<1>2. p \in Nat /\ lower <= e * n
    BY <1>1, TruncateType
<1>3. e * n <= upper
    BY <1>1, ProductMonotone
<1>4. lower \in Nat /\ upper \in Nat /\ e * n \in Nat
    BY <1>1, <1>2, ProductType
<1>5. n + 1 <= p => (n + 1) * Scale <= lower
    BY <1>2, ProductMonotone
<1>6. (n + 1) * Scale = upper + Scale
    OBVIOUS
<1> HIDE DEF p, lower, upper
<1>7. p <= n
    BY <1>2, <1>3, <1>4, <1>5, <1>6
<1>8. QED
    BY <1>7 DEF p

-----------------------------------------------------------------------------
(***************************************************************************)
(* What every market keeps.  `Covers` is the heart of it: at the rate r    *)
(* the supply is paid for by the assets.                                   *)
(***************************************************************************)
Sound(t, now) ==
    /\ t \in Books
    /\ t.totalSupply = Total(t.accountTokens)
    /\ \A a \in Holders : t.principal[a] > 0 => t.interestIndex[a] > 0
    /\ t.accrualBlockNumber <= now

Covers(t, r) == t.totalSupply * r <= SupplierAssets(t) * Scale

Good(t, i, now) == Sound(t, now) /\ Covers(t, i)

IInv ==
    /\ TypeOK
    /\ \A m \in Markets : Good(rToken[m], InitialRate[m], block)

LEMMA HoldersFinite == IsFiniteSet(Holders)
<1>1. IsFiniteSet(Users)
    BY RTokenAssumption
<1>2. QED
    BY <1>1, FS_AddElement DEF Holders

\* The assets of covered books are not negative, so their rate is a number.
LEMMA AssetsType ==
    ASSUME NEW t \in Books, NEW r \in Nat, Covers(t, r)
    PROVE  SupplierAssets(t) \in Nat
<1>1. t.totalSupply \in Nat /\ SupplierAssets(t) \in Int
    BY DEF Books, SupplierAssets
<1>2. t.totalSupply * r \in Nat
    BY <1>1, ProductType
<1> DEFINE s == SupplierAssets(t)
<1> HIDE DEF s
<1>3. s \in Int /\ 0 <= s * Scale
    BY <1>1, <1>2 DEF Covers, s
<1>4. s >= 0
    BY <1>3
<1>5. QED
    BY <1>3, <1>4 DEF s

\* Books are covered at their own exchange rate, which is no lower than the
\* initial one.
LEMMA RateCovers ==
    ASSUME NEW t \in Books, NEW i \in Nat \ {0}, Covers(t, i)
    PROVE  /\ ExchangeRate(t, i) \in Nat \ {0}
           /\ i <= ExchangeRate(t, i)
           /\ Covers(t, ExchangeRate(t, i))
<1>1. SupplierAssets(t) \in Nat /\ t.totalSupply \in Nat
    BY AssetsType DEF Books
<1> DEFINE x == SupplierAssets(t) * Scale
           r == ExchangeRate(t, i)
<1>2. x \in Nat
    BY <1>1, ProductType
<1>3. CASE t.totalSupply = 0
    BY <1>3 DEF ExchangeRate
<1>4. CASE t.totalSupply # 0
    <2>1. r = x \div t.totalSupply
        BY <1>4 DEF ExchangeRate, GetExp
    <2>2. r \in Nat /\ r * t.totalSupply <= x
        BY <1>1, <1>2, <1>4, <2>1, QuotientType
    <2>3. i * t.totalSupply <= x
        BY <1>1 DEF Covers
    <2>4. i <= r
        BY <1>1, <1>2, <1>4, <2>1, <2>3, QuotientReaches
    <2>5. Covers(t, r)
        BY <1>1, <2>2 DEF Covers
    <2>6. QED
        BY <2>2, <2>4, <2>5
<1>5. QED
    BY <1>3, <1>4

\* Books covered at a rate are covered at every lower one, and have at least
\* that rate while they have a supply.
LEMMA CoversLower ==
    ASSUME NEW t \in Books, NEW r \in Nat, NEW i \in Nat, i <= r, Covers(t, r)
    PROVE  Covers(t, i)
<1>1. t.totalSupply \in Nat /\ SupplierAssets(t) \in Nat
    BY AssetsType DEF Books
<1>2. t.totalSupply * i <= t.totalSupply * r
    BY <1>1, ProductMonotone
<1>3. t.totalSupply * i \in Nat /\ t.totalSupply * r \in Nat /\ SupplierAssets(t) * Scale \in Nat
    BY <1>1, ProductType
<1>4. QED
    BY <1>2, <1>3 DEF Covers

LEMMA CoversRate ==
    ASSUME NEW t \in Books, NEW r \in Nat, NEW i \in Nat, Covers(t, r), t.totalSupply > 0
    PROVE  r <= ExchangeRate(t, i)
<1>1. t.totalSupply \in Nat \ {0} /\ SupplierAssets(t) \in Nat
    BY AssetsType DEF Books
<1>2. SupplierAssets(t) * Scale \in Nat /\ r * t.totalSupply <= SupplierAssets(t) * Scale
    BY <1>1, ProductType DEF Covers
<1>3. QED
    BY <1>1, <1>2, QuotientReaches DEF ExchangeRate, GetExp

-----------------------------------------------------------------------------
(***************************************************************************)
(* Every operation on the books keeps them sound, and covered at the rate  *)
(* at which it is made.                                                    *)
(***************************************************************************)
LEMMA NewBooksGood ==
    ASSUME NEW r \in Nat, NEW now \in Nat
    PROVE  Good(NewBooks(now), r, now)
<1> DEFINE t == NewBooks(now)
<1>1. t \in Books
    BY DEF NewBooks, Books, Allowance
<1>2. t.accountTokens \in [Holders -> Nat] /\ \A a \in Holders : t.accountTokens[a] = 0
    BY DEF NewBooks
<1>3. Total(t.accountTokens) = 0
    BY <1>2, TotalZero
<1>4. t.totalSupply = 0 /\ t.accrualBlockNumber = now /\ SupplierAssets(t) = 0
    BY DEF NewBooks, SupplierAssets
<1>5. \A a \in Holders : t.principal[a] = 0
    BY DEF NewBooks
<1> HIDE DEF t
<1>6. Sound(t, now) /\ Covers(t, r)
    BY <1>1, <1>3, <1>4, <1>5 DEF Sound, Covers
<1>7. QED
    BY <1>6 DEF Good, t

LEMMA BorrowRateType ==
    ASSUME NEW model \in Model, NEW cash \in Nat, NEW borrows \in Nat, NEW reserves \in Nat,
           HasUtilization(cash, borrows, reserves)
    PROVE  BorrowRate(model, cash, borrows, reserves) \in Nat
<1> DEFINE util == UtilizationRate(cash, borrows, reserves)
<1>1. util \in Nat
    <2>1. CASE borrows = 0
        BY <2>1 DEF UtilizationRate
    <2>2. CASE borrows # 0
        <3>1. (cash + borrows) - reserves \in Nat \ {0} /\ borrows * Scale \in Nat
            BY <2>2, ProductType DEF HasUtilization
        <3>2. QED
            BY <2>2, <3>1, QuotientType DEF UtilizationRate
    <2>3. QED
        BY <2>1, <2>2
<1>2. /\ model.baseRate \in Nat /\ model.multiplier \in Nat
      /\ model.jumpMultiplier \in Nat /\ model.kink \in Nat
    BY DEF Model
<1> HIDE DEF util
<1>3. /\ (util * model.multiplier) \div Scale \in Nat
      /\ (model.kink * model.multiplier) \div Scale \in Nat
    BY <1>1, <1>2, ProductType, QuotientType
<1>4. util > model.kink => ((util - model.kink) * model.jumpMultiplier) \div Scale \in Nat
    <2>1. HAVE util > model.kink
    <2>2. util - model.kink \in Nat
        BY <1>1, <1>2, <2>1
    <2>3. QED
        BY <1>2, <2>2, ProductType, QuotientType
<1>5. BorrowRateAt(model, util) \in Nat
    BY <1>1, <1>2, <1>3, <1>4 DEF BorrowRateAt
<1>6. QED
    BY <1>5 DEF BorrowRate, util

\* Interest is shared between the suppliers and the reserves, so that what the
\* suppliers own does not shrink; nobody's tokens nor debt are touched.
LEMMA AccrueGood ==
    ASSUME NEW t, NEW model \in Model, NEW now \in Nat, NEW r \in Nat,
           Good(t, r, now), CanAccrue(t, model, now)
    PROVE  LET u == Accrue(t, model, now)
           IN  /\ Good(u, r, now)
               /\ u.totalSupply = t.totalSupply /\ u.accountTokens = t.accountTokens
               /\ u.principal = t.principal
<1> DEFINE u == Accrue(t, model, now)
<1>1. t \in Books /\ Sound(t, now) /\ Covers(t, r)
    BY DEF Good, Sound
<1>2. CASE t.accrualBlockNumber = now
    <2>1. u = t
        BY <1>2 DEF Accrue
    <2>2. QED
        BY <2>1
<1>3. CASE t.accrualBlockNumber # now
    <2> DEFINE factor == SimpleInterestFactor(t, model, now)
               interest == InterestAccumulated(t, model, now)
               share == ReservesOf(interest)
               growth == MulScalarTruncate(factor, t.borrowIndex)
    <2>1. /\ t.cash \in Nat /\ t.totalSupply \in Nat /\ t.totalBorrows \in Nat
          /\ t.totalReserves \in Nat /\ t.borrowIndex \in Nat \ {0}
          /\ t.accrualBlockNumber \in Nat /\ t.accrualBlockNumber <= now
        BY <1>1 DEF Books, Sound
    <2>2. BorrowRate(model, t.cash, t.totalBorrows, t.totalReserves) \in Nat
        BY <1>3, <2>1, BorrowRateType DEF CanAccrue
    <2>3. factor \in Nat
        <3>1. now - t.accrualBlockNumber \in Nat
            BY <2>1
        <3>2. QED
            BY <2>2, <3>1, ProductType DEF SimpleInterestFactor
    <2>4. interest \in Nat
        BY <2>1, <2>3, TruncateType DEF InterestAccumulated
    <2>5. share \in Nat /\ share <= interest
        <3>1. ReserveFactor \in 0 .. Scale /\ ReserveFactor \in Nat
            BY RTokenAssumption
        <3>2. QED
            BY <2>4, <3>1, TruncateType, TruncateFraction DEF ReservesOf
    <2>6. growth \in Nat
        BY <2>1, <2>3, TruncateType
    <2>7. u = [t EXCEPT !.accrualBlockNumber = now, !.borrowIndex = @ + growth,
                        !.totalBorrows = @ + interest, !.totalReserves = @ + share]
        BY <1>3 DEF Accrue
    <2> HIDE DEF u, factor, interest, share, growth
    <2>8. /\ u \in Books
          /\ u.cash = t.cash /\ u.totalSupply = t.totalSupply
          /\ u.totalBorrows = t.totalBorrows + interest
          /\ u.totalReserves = t.totalReserves + share
          /\ u.accrualBlockNumber = now
          /\ u.accountTokens = t.accountTokens
          /\ u.principal = t.principal /\ u.interestIndex = t.interestIndex
        <3>1. /\ t.borrowIndex + growth \in Nat \ {0} /\ t.totalBorrows + interest \in Nat
              /\ t.totalReserves + share \in Nat
            BY <2>1, <2>4, <2>5, <2>6
        <3>2. u = [cash |-> t.cash, totalSupply |-> t.totalSupply,
                   totalBorrows |-> t.totalBorrows + interest,
                   totalReserves |-> t.totalReserves + share,
                   borrowIndex |-> t.borrowIndex + growth, accrualBlockNumber |-> now,
                   accountTokens |-> t.accountTokens,
                   principal |-> t.principal, interestIndex |-> t.interestIndex,
                   allowances |-> t.allowances]
            BY <1>1, <2>7 DEF Books
        <3>3. u \in Books
            BY <1>1, <3>1, <3>2 DEF Books
        <3>4. QED
            BY <3>2, <3>3
    <2>9. Sound(u, now)
        BY <1>1, <2>8 DEF Sound
    <2>10. SupplierAssets(t) \in Nat /\ SupplierAssets(t) <= SupplierAssets(u)
           /\ SupplierAssets(u) \in Nat
        BY <1>1, <2>1, <2>4, <2>5, <2>8, AssetsType DEF SupplierAssets
    <2>11. Covers(u, r)
        <3>1. SupplierAssets(t) * Scale <= SupplierAssets(u) * Scale
            BY <2>10, ProductMonotone
        <3>2. /\ t.totalSupply * r \in Nat /\ SupplierAssets(t) * Scale \in Nat
              /\ SupplierAssets(u) * Scale \in Nat
            BY <2>1, <2>10, ProductType
        <3>3. QED
            BY <1>1, <2>8, <3>1, <3>2 DEF Covers
    <2>12. QED
        BY <2>8, <2>9, <2>11 DEF Good, u
<1>4. QED
    BY <1>2, <1>3

\* The tokens of an operation are covered by what it pays.
LEMMA CoversMore ==
    ASSUME NEW t \in Books, NEW u \in Books, NEW r \in Nat, NEW tokens \in Int, NEW amount \in Int,
           Covers(t, r), tokens * r <= amount * Scale,
           u.totalSupply = t.totalSupply + tokens,
           SupplierAssets(u) = SupplierAssets(t) + amount
    PROVE  Covers(u, r)
<1>1. t.totalSupply \in Int /\ SupplierAssets(t) \in Int
    BY DEF Books, SupplierAssets
<1>2. /\ (t.totalSupply + tokens) * r = t.totalSupply * r + tokens * r
      /\ (SupplierAssets(t) + amount) * Scale = SupplierAssets(t) * Scale + amount * Scale
    BY <1>1
<1>3. /\ t.totalSupply * r \in Int /\ tokens * r \in Int
      /\ SupplierAssets(t) * Scale \in Int /\ amount * Scale \in Int
    BY <1>1
<1>4. QED
    BY <1>2, <1>3 DEF Covers

LEMMA Cancel ==
    ASSUME NEW x \in Int, NEW y \in Int, NEW m \in Nat \ {0}, x * m <= y * m
    PROVE  x <= y
<1>1. SUFFICES ASSUME y + 1 <= x PROVE FALSE
    OBVIOUS
<1>2. (y + 1) * m <= x * m
    BY <1>1, ProductMonotone
<1>3. (y + 1) * m = y * m + m
    OBVIOUS
<1>4. y * m \in Int /\ x * m \in Int
    OBVIOUS
<1>5. QED
    BY <1>2, <1>3, <1>4

\* One account's entry moves the total as much as itself.
LEMMA OneAccount ==
    ASSUME NEW ledger \in [Holders -> Nat], NEW a \in Holders, NEW d \in Int, ledger[a] + d \in Nat
    PROVE  /\ [ledger EXCEPT ![a] = @ + d] \in [Holders -> Nat]
           /\ Total([ledger EXCEPT ![a] = @ + d]) = Total(ledger) + d
           /\ Total(ledger) + d \in Nat
<1> DEFINE after == [ledger EXCEPT ![a] = @ + d]
<1>1. /\ after \in [Holders -> Nat] /\ after[a] = ledger[a] + d
      /\ \A b \in Holders \ {a} : after[b] = ledger[b]
    OBVIOUS
<1> HIDE DEF after
<1>2. Total(after) = Total(ledger) - ledger[a] + after[a]
    BY <1>1, HoldersFinite, TotalUpdate
<1>3. Total(ledger) \in Nat /\ Total(after) \in Nat
    BY <1>1, HoldersFinite, TotalType
<1>4. ledger[a] \in Nat
    OBVIOUS
<1>5. QED
    BY <1>1, <1>2, <1>3, <1>4 DEF after

\* mintFresh: the tokens are worth no more than the payment.
LEMMA MintTokensBound ==
    ASSUME NEW amount \in Nat, NEW r \in Nat \ {0}
    PROVE  /\ MintTokens(amount, r) \in Nat
           /\ MintTokens(amount, r) * r <= amount * Scale
<1> DEFINE x == (Scale * amount) * Scale
           y == x \div r
           tokens == y \div Scale
<1>1. x \in Nat
    BY ProductType
<1>2. y \in Nat /\ y * r <= x
    BY <1>1, QuotientType
<1>3. tokens \in Nat /\ tokens * Scale <= y
    BY <1>2, QuotientType
<1>4. (tokens * Scale) * r <= y * r
    BY <1>2, <1>3, ProductMonotone
<1>5. (tokens * Scale) * r = (tokens * r) * Scale
    BY <1>3
<1>6. x = (amount * Scale) * Scale
    OBVIOUS
<1>7. (tokens * r) * Scale \in Nat /\ y * r \in Nat /\ tokens * r \in Nat /\ amount * Scale \in Nat
    BY <1>2, <1>3, ProductType
<1>8. MintTokens(amount, r) = tokens
    BY DEF MintTokens, DivScalarByExpTruncate, Truncate, GetExp
<1> HIDE DEF x, y, tokens
<1>9. tokens * r <= amount * Scale
    BY <1>1, <1>2, <1>4, <1>5, <1>6, <1>7, Cancel
<1>10. QED
    BY <1>3, <1>8, <1>9

LEMMA MintGood ==
    ASSUME NEW t, NEW a \in Holders, NEW amount \in Nat, NEW r \in Nat \ {0}, NEW now \in Nat,
           Good(t, r, now)
    PROVE  Good(MintFresh(t, a, amount, r), r, now)
<1> DEFINE u == MintFresh(t, a, amount, r)
           tokens == MintTokens(amount, r)
           ledger == [t.accountTokens EXCEPT ![a] = @ + tokens]
<1>1. t \in Books /\ Sound(t, now) /\ Covers(t, r)
    BY DEF Good, Sound
<1>2. /\ t.cash \in Nat /\ t.totalSupply \in Nat /\ t.totalBorrows \in Nat /\ t.totalReserves \in Nat
      /\ t.accountTokens \in [Holders -> Nat] /\ t.accountTokens[a] \in Nat
    BY <1>1 DEF Books
<1>3. tokens \in Nat /\ tokens * r <= amount * Scale
    BY MintTokensBound
<1>4. u = [cash |-> t.cash + amount, totalSupply |-> t.totalSupply + tokens,
           totalBorrows |-> t.totalBorrows, totalReserves |-> t.totalReserves,
           borrowIndex |-> t.borrowIndex, accrualBlockNumber |-> t.accrualBlockNumber,
           accountTokens |-> ledger,
           principal |-> t.principal, interestIndex |-> t.interestIndex,
           allowances |-> t.allowances]
    <2>1. u = [t EXCEPT !.cash = @ + amount, !.totalSupply = @ + tokens, !.accountTokens = ledger]
        BY <1>1 DEF MintFresh, Books
    <2> HIDE DEF u, tokens, ledger
    <2>2. QED
        BY <1>1, <2>1 DEF Books
<1> HIDE DEF tokens, u
<1>5. ledger \in [Holders -> Nat] /\ Total(ledger) = Total(t.accountTokens) + tokens
    BY <1>2, <1>3, OneAccount
<1>6. u \in Books
    BY <1>1, <1>2, <1>3, <1>4, <1>5 DEF Books
<1>7. Sound(u, now)
    BY <1>1, <1>4, <1>5, <1>6 DEF Sound
<1>8. u.totalSupply = t.totalSupply + tokens /\ SupplierAssets(u) = SupplierAssets(t) + amount
    BY <1>2, <1>4 DEF SupplierAssets
<1>9. Covers(u, r)
    BY <1>1, <1>3, <1>6, <1>8, CoversMore
<1>10. QED
    BY <1>7, <1>9 DEF Good, u

\* redeemFresh: the payout is worth no more than the tokens.
LEMMA RedeemGood ==
    ASSUME NEW t, NEW a \in Holders, NEW tokens \in Nat, NEW r \in Nat \ {0}, NEW now \in Nat,
           Good(t, r, now), tokens <= t.accountTokens[a], RedeemAmount(tokens, r) <= t.cash
    PROVE  Good(RedeemFresh(t, a, tokens, r), r, now)
<1> DEFINE u == RedeemFresh(t, a, tokens, r)
           payout == RedeemAmount(tokens, r)
           ledger == [t.accountTokens EXCEPT ![a] = @ + (- tokens)]
<1>1. t \in Books /\ Sound(t, now) /\ Covers(t, r)
    BY DEF Good, Sound
<1>2. /\ t.cash \in Nat /\ t.totalSupply \in Nat /\ t.totalBorrows \in Nat /\ t.totalReserves \in Nat
      /\ t.accountTokens \in [Holders -> Nat] /\ t.accountTokens[a] \in Nat
      /\ t.totalSupply = Total(t.accountTokens)
    BY <1>1 DEF Books, Sound
<1>3. payout \in Nat /\ payout * Scale <= r * tokens /\ payout <= t.cash
    BY TruncateType DEF RedeemAmount
<1>4. [t.accountTokens EXCEPT ![a] = @ - tokens] = ledger
    BY <1>2
<1>5. u = [cash |-> t.cash - payout, totalSupply |-> t.totalSupply - tokens,
           totalBorrows |-> t.totalBorrows, totalReserves |-> t.totalReserves,
           borrowIndex |-> t.borrowIndex, accrualBlockNumber |-> t.accrualBlockNumber,
           accountTokens |-> ledger,
           principal |-> t.principal, interestIndex |-> t.interestIndex,
           allowances |-> t.allowances]
    <2>1. u = [t EXCEPT !.cash = @ - payout, !.totalSupply = @ - tokens, !.accountTokens = ledger]
        BY <1>1, <1>4 DEF RedeemFresh, Books
    <2> HIDE DEF u, payout, ledger
    <2>2. QED
        BY <1>1, <2>1 DEF Books
<1> HIDE DEF payout, u
<1>6. /\ ledger \in [Holders -> Nat] /\ Total(ledger) = Total(t.accountTokens) + (- tokens)
      /\ Total(t.accountTokens) + (- tokens) \in Nat
    <2>1. t.accountTokens[a] + (- tokens) \in Nat
        BY <1>2
    <2>2. QED
        BY <1>2, <2>1, OneAccount
<1>7. t.totalSupply - tokens \in Nat /\ t.cash - payout \in Nat
    BY <1>2, <1>3, <1>6
<1> HIDE DEF ledger
<1>8. u \in Books
    BY <1>1, <1>5, <1>6, <1>7 DEF Books
<1>9. Sound(u, now)
    <2>1. u.totalSupply = Total(u.accountTokens)
        BY <1>2, <1>5, <1>6
    <2>2. QED
        BY <1>1, <1>5, <1>8, <2>1 DEF Sound
<1>10. /\ u.totalSupply = t.totalSupply + (- tokens)
       /\ SupplierAssets(u) = SupplierAssets(t) + (- payout)
    BY <1>2, <1>3, <1>5 DEF SupplierAssets
<1>11. (- tokens) * r <= (- payout) * Scale
    <2>1. (- tokens) * r = - (r * tokens) /\ (- payout) * Scale = - (payout * Scale)
        BY <1>3
    <2>2. r * tokens \in Int /\ payout * Scale \in Int
        BY <1>3
    <2>3. QED
        BY <1>3, <2>1, <2>2
<1>12. Covers(u, r)
    BY <1>1, <1>3, <1>8, <1>10, <1>11, CoversMore
<1>13. QED
    BY <1>9, <1>12 DEF Good, u

LEMMA BorrowBalanceType ==
    ASSUME NEW t, NEW now, NEW a \in Holders, Sound(t, now)
    PROVE  BorrowBalance(t, a) \in Nat
<1>1. /\ t.principal[a] \in Nat /\ t.borrowIndex \in Nat /\ t.interestIndex[a] \in Nat
      /\ t.principal[a] > 0 => t.interestIndex[a] > 0
    BY DEF Sound, Books
<1>2. CASE t.principal[a] = 0
    BY <1>2 DEF BorrowBalance
<1>3. CASE t.principal[a] # 0
    <2>1. t.interestIndex[a] \in Nat \ {0} /\ t.principal[a] * t.borrowIndex \in Nat
        BY <1>1, <1>3, ProductType
    <2>2. QED
        BY <1>3, <2>1, QuotientType DEF BorrowBalance
<1>4. QED
    BY <1>2, <1>3

\* A new debt of one account, and what moves between cash and borrows: neither
\* the supply nor the assets behind it change.
DebtMoved(t, a, debt, d) ==
    [SetDebt(t, a, debt) EXCEPT !.cash = t.cash - d, !.totalBorrows = t.totalBorrows + d]

LEMMA DebtGood ==
    ASSUME NEW t, NEW a \in Holders, NEW debt \in Nat, NEW d \in Int, NEW r \in Nat, NEW now \in Nat,
           Good(t, r, now), t.cash - d \in Nat, t.totalBorrows + d \in Nat
    PROVE  Good(DebtMoved(t, a, debt, d), r, now)
<1> DEFINE u == DebtMoved(t, a, debt, d)
           debts == [t.principal EXCEPT ![a] = debt]
           indexes == [t.interestIndex EXCEPT ![a] = t.borrowIndex]
<1>1. t \in Books /\ Sound(t, now) /\ Covers(t, r)
    BY DEF Good, Sound
<1>2. /\ t.cash \in Nat /\ t.totalSupply \in Nat /\ t.totalBorrows \in Nat /\ t.totalReserves \in Nat
      /\ t.borrowIndex \in Nat \ {0} /\ t.accountTokens \in [Holders -> Nat]
      /\ t.principal \in [Holders -> Nat] /\ t.interestIndex \in [Holders -> Nat]
    BY <1>1 DEF Books
<1>3. u = [cash |-> t.cash - d, totalSupply |-> t.totalSupply,
           totalBorrows |-> t.totalBorrows + d, totalReserves |-> t.totalReserves,
           borrowIndex |-> t.borrowIndex, accrualBlockNumber |-> t.accrualBlockNumber,
           accountTokens |-> t.accountTokens,
           principal |-> debts, interestIndex |-> indexes,
           allowances |-> t.allowances]
    <2> DEFINE s == SetDebt(t, a, debt)
    <2>1. s = [t EXCEPT !.principal = debts, !.interestIndex = indexes]
        BY <1>1 DEF SetDebt, Books
    <2> HIDE DEF debts, indexes, s
    <2>2. s = [cash |-> t.cash, totalSupply |-> t.totalSupply,
               totalBorrows |-> t.totalBorrows, totalReserves |-> t.totalReserves,
               borrowIndex |-> t.borrowIndex, accrualBlockNumber |-> t.accrualBlockNumber,
               accountTokens |-> t.accountTokens,
               principal |-> debts, interestIndex |-> indexes,
               allowances |-> t.allowances]
        BY <1>1, <2>1 DEF Books
    <2>3. u = [s EXCEPT !.cash = t.cash - d, !.totalBorrows = t.totalBorrows + d]
        BY DEF DebtMoved, s
    <2> HIDE DEF u
    <2>4. QED
        BY <2>2, <2>3
<1>4. debts \in [Holders -> Nat] /\ indexes \in [Holders -> Nat]
    BY <1>2
<1>5. \A b \in Holders : debts[b] > 0 => indexes[b] > 0
    BY <1>1, <1>2 DEF Sound
<1> HIDE DEF u, debts, indexes
<1>6. u \in Books
    BY <1>1, <1>3, <1>4 DEF Books
<1>7. Sound(u, now)
    BY <1>1, <1>3, <1>5, <1>6 DEF Sound
<1>8. u.totalSupply = t.totalSupply /\ SupplierAssets(u) = SupplierAssets(t)
    BY <1>2, <1>3 DEF SupplierAssets
<1>9. Good(u, r, now)
    BY <1>1, <1>7, <1>8 DEF Good, Covers
<1>10. QED
    BY <1>9 DEF u

LEMMA BorrowGood ==
    ASSUME NEW t, NEW a \in Holders, NEW amount \in Nat, NEW r \in Nat, NEW now \in Nat,
           Good(t, r, now), amount <= t.cash
    PROVE  Good(BorrowFresh(t, a, amount), r, now)
<1> DEFINE debt == BorrowBalance(t, a) + amount
<1>1. t \in Books /\ t.cash - amount \in Nat /\ t.totalBorrows + amount \in Nat
    BY DEF Good, Sound, Books
<1>2. debt \in Nat
    BY BorrowBalanceType DEF Good
<1> HIDE DEF debt
<1>3. Good(DebtMoved(t, a, debt, amount), r, now)
    BY <1>1, <1>2, DebtGood
<1>4. BorrowFresh(t, a, amount) = DebtMoved(t, a, debt, amount)
    BY <1>1 DEF BorrowFresh, DebtMoved, SetDebt, Books, debt
<1>5. QED
    BY <1>3, <1>4

LEMMA RepayGood ==
    ASSUME NEW t, NEW a \in Holders, NEW amount \in Nat, NEW r \in Nat, NEW now \in Nat,
           Good(t, r, now), CanRepay(t, a, amount)
    PROVE  Good(RepayBorrowFresh(t, a, amount), r, now)
<1> DEFINE debt == BorrowBalance(t, a) - amount
           d == - amount
<1>1. t \in Books /\ t.cash \in Nat /\ t.totalBorrows \in Nat
    BY DEF Good, Sound, Books
<1>2. debt \in Nat
    BY BorrowBalanceType DEF Good, CanRepay
<1>3. d \in Int /\ t.cash - d \in Nat /\ t.totalBorrows + d \in Nat
    BY <1>1 DEF CanRepay
<1>4. t.cash - d = t.cash + amount /\ t.totalBorrows + d = t.totalBorrows - amount
    BY <1>1
<1> HIDE DEF debt, d
<1>5. Good(DebtMoved(t, a, debt, d), r, now)
    BY <1>2, <1>3, DebtGood
<1>6. RepayBorrowFresh(t, a, amount) = DebtMoved(t, a, debt, d)
    BY <1>1, <1>4 DEF RepayBorrowFresh, DebtMoved, SetDebt, Books, debt
<1>7. QED
    BY <1>5, <1>6

\* transferTokens, seizeInternal
LEMMA MoveGood ==
    ASSUME NEW t, NEW src \in Holders, NEW dst \in Holders, NEW tokens \in Nat,
           NEW r \in Nat, NEW now \in Nat,
           Good(t, r, now), src # dst, tokens <= t.accountTokens[src]
    PROVE  Good(MoveTokens(t, src, dst, tokens), r, now)
<1> DEFINE u == MoveTokens(t, src, dst, tokens)
           before == t.accountTokens
           after == [before EXCEPT ![src] = before[src] - tokens, ![dst] = before[dst] + tokens]
<1>1. t \in Books /\ Sound(t, now) /\ Covers(t, r)
    BY DEF Good, Sound
<1>2. /\ t.cash \in Nat /\ t.totalSupply \in Nat /\ t.totalBorrows \in Nat /\ t.totalReserves \in Nat
      /\ t.borrowIndex \in Nat \ {0} /\ t.accountTokens \in [Holders -> Nat]
      /\ t.principal \in [Holders -> Nat] /\ t.interestIndex \in [Holders -> Nat]
    BY <1>1 DEF Books
<1>3. u = [cash |-> t.cash, totalSupply |-> t.totalSupply,
           totalBorrows |-> t.totalBorrows, totalReserves |-> t.totalReserves,
           borrowIndex |-> t.borrowIndex, accrualBlockNumber |-> t.accrualBlockNumber,
           accountTokens |-> after,
           principal |-> t.principal, interestIndex |-> t.interestIndex,
           allowances |-> t.allowances]
    <2>1. u = [t EXCEPT !.accountTokens = after]
        BY <1>1 DEF MoveTokens, Books
    <2> HIDE DEF u, after
    <2>2. QED
        BY <1>1, <2>1 DEF Books
<1>4. /\ after \in [Holders -> Nat]
      /\ after[src] = before[src] - tokens /\ after[dst] = before[dst] + tokens
      /\ \A b \in Holders \ {src, dst} : after[b] = before[b]
    BY <1>2
<1> HIDE DEF u, after
<1>5. Total(after) = Total(before) - before[src] + after[src] - before[dst] + after[dst]
    BY <1>2, <1>4, HoldersFinite, TotalUpdate2
<1>6. Total(after) = Total(before)
    <2>1. /\ Total(before) \in Nat /\ before[src] \in Nat /\ before[dst] \in Nat
          /\ after[src] \in Nat /\ after[dst] \in Nat
        BY <1>2, <1>4, HoldersFinite, TotalType
    <2>2. QED
        BY <1>4, <1>5, <2>1
<1>7. u \in Books
    BY <1>1, <1>3, <1>4 DEF Books
<1>8. Sound(u, now)
    BY <1>1, <1>3, <1>6, <1>7 DEF Sound
<1>9. u.totalSupply = t.totalSupply /\ SupplierAssets(u) = SupplierAssets(t)
    BY <1>3 DEF SupplierAssets
<1>10. QED
    BY <1>1, <1>8, <1>9 DEF Good, Covers, u

\* An allowance used up or granted changes nothing else.
Granted(t, src, spender, n) == [t EXCEPT !.allowances[src][spender] = n]

LEMMA AllowanceGood ==
    ASSUME NEW t, NEW src \in Holders, NEW spender \in Holders, NEW n \in Allowance,
           NEW r \in Nat, NEW now \in Nat, Good(t, r, now)
    PROVE  /\ Good(Granted(t, src, spender, n), r, now)
           /\ Granted(t, src, spender, n).accountTokens = t.accountTokens
           /\ Granted(t, src, spender, n).principal = t.principal
<1> DEFINE u == Granted(t, src, spender, n)
           granted == [t.allowances EXCEPT ![src][spender] = n]
<1>1. t \in Books /\ Sound(t, now) /\ Covers(t, r)
    BY DEF Good, Sound
<1>2. /\ t.cash \in Nat /\ t.totalSupply \in Nat /\ t.totalBorrows \in Nat /\ t.totalReserves \in Nat
      /\ t.borrowIndex \in Nat \ {0} /\ t.accountTokens \in [Holders -> Nat]
      /\ t.principal \in [Holders -> Nat] /\ t.interestIndex \in [Holders -> Nat]
    BY <1>1 DEF Books
<1>3. t.allowances \in [Holders -> [Holders -> Allowance]]
    BY <1>1 DEF Books
<1>4. granted \in [Holders -> [Holders -> Allowance]]
    BY <1>3
<1>5. u = [cash |-> t.cash, totalSupply |-> t.totalSupply,
           totalBorrows |-> t.totalBorrows, totalReserves |-> t.totalReserves,
           borrowIndex |-> t.borrowIndex, accrualBlockNumber |-> t.accrualBlockNumber,
           accountTokens |-> t.accountTokens,
           principal |-> t.principal, interestIndex |-> t.interestIndex,
           allowances |-> granted]
    <2>1. u = [t EXCEPT !.allowances = granted]
        BY <1>1 DEF Books, Granted
    <2> HIDE DEF u, granted
    <2>2. QED
        BY <1>1, <2>1 DEF Books
<1> HIDE DEF u, granted
<1>6. u \in Books
    BY <1>1, <1>4, <1>5 DEF Books
<1>7. Sound(u, now) /\ Covers(u, r)
    BY <1>1, <1>5, <1>6 DEF Sound, Covers, SupplierAssets
<1>8. QED
    BY <1>5, <1>7 DEF Good, u

LEMMA SpendGood ==
    ASSUME NEW t, NEW src \in Holders, NEW spender \in Holders, NEW tokens \in Nat,
           NEW r \in Nat, NEW now \in Nat, Good(t, r, now), MaySpend(t, spender, src, tokens)
    PROVE  /\ Good(Spend(t, spender, src, tokens), r, now)
           /\ Spend(t, spender, src, tokens).accountTokens = t.accountTokens
           /\ Spend(t, spender, src, tokens).principal = t.principal
<1> DEFINE granted == t.allowances[src][spender]
<1>1. CASE spender = src \/ granted = Infinite
    BY <1>1 DEF Spend
<1>2. CASE spender # src /\ granted # Infinite
    <2>1. t.allowances \in [Holders -> [Holders -> Allowance]]
        BY DEF Good, Sound, Books
    <2>2. granted \in Nat /\ tokens <= granted
        BY <1>2, <2>1 DEF MaySpend, Allowance
    <2>3. granted - tokens \in Allowance
        BY <2>2 DEF Allowance
    <2>4. Spend(t, spender, src, tokens) = Granted(t, src, spender, granted - tokens)
        BY <1>2 DEF Spend, Granted
    <2> HIDE DEF granted
    <2>5. QED
        BY <2>3, <2>4, AllowanceGood
<1>3. QED
    BY <1>1, <1>2

\* Cash that comes with no tokens, on its own or as reserves.
CashIn(t, amount, reserved) ==
    [t EXCEPT !.cash = t.cash + amount, !.totalReserves = t.totalReserves + reserved]

LEMMA CashInGood ==
    ASSUME NEW t, NEW amount \in Nat, NEW reserved \in Nat, reserved <= amount,
           NEW r \in Nat, NEW now \in Nat, Good(t, r, now)
    PROVE  Good(CashIn(t, amount, reserved), r, now)
<1> DEFINE u == CashIn(t, amount, reserved)
<1>1. t \in Books /\ Sound(t, now) /\ Covers(t, r)
    BY DEF Good, Sound
<1>2. /\ t.cash \in Nat /\ t.totalSupply \in Nat /\ t.totalBorrows \in Nat /\ t.totalReserves \in Nat
      /\ t.borrowIndex \in Nat \ {0} /\ t.accountTokens \in [Holders -> Nat]
      /\ t.totalSupply = Total(t.accountTokens)
    BY <1>1 DEF Books, Sound
<1>3. u = [cash |-> t.cash + amount, totalSupply |-> t.totalSupply,
           totalBorrows |-> t.totalBorrows, totalReserves |-> t.totalReserves + reserved,
           borrowIndex |-> t.borrowIndex, accrualBlockNumber |-> t.accrualBlockNumber,
           accountTokens |-> t.accountTokens,
           principal |-> t.principal, interestIndex |-> t.interestIndex,
           allowances |-> t.allowances]
    <2> DEFINE cash == t.cash + amount
               reserves == t.totalReserves + reserved
    <2>1. u = [t EXCEPT !.cash = cash, !.totalReserves = reserves]
        BY DEF CashIn
    <2> HIDE DEF u, cash, reserves
    <2>2. u = [cash |-> cash, totalSupply |-> t.totalSupply,
               totalBorrows |-> t.totalBorrows, totalReserves |-> reserves,
               borrowIndex |-> t.borrowIndex, accrualBlockNumber |-> t.accrualBlockNumber,
               accountTokens |-> t.accountTokens,
               principal |-> t.principal, interestIndex |-> t.interestIndex,
               allowances |-> t.allowances]
        BY <1>1, <2>1 DEF Books
    <2>3. QED
        BY <2>2 DEF cash, reserves
<1> HIDE DEF u
<1>4. u \in Books
    BY <1>1, <1>2, <1>3 DEF Books
<1>5. Sound(u, now)
    BY <1>1, <1>3, <1>4 DEF Sound
<1>6. /\ u.totalSupply = t.totalSupply + 0
      /\ SupplierAssets(u) = SupplierAssets(t) + (amount - reserved)
    BY <1>2, <1>3 DEF SupplierAssets
<1>7. 0 * r <= (amount - reserved) * Scale
    <2>1. (amount - reserved) \in Nat
        OBVIOUS
    <2>2. (amount - reserved) * Scale \in Nat
        BY <2>1, ProductType
    <2>3. QED
        BY <2>2
<1>8. Covers(u, r)
    BY <1>1, <1>4, <1>6, <1>7, CoversMore
<1>9. QED
    BY <1>5, <1>8 DEF Good, u

\* increaseSystemSupply and reduceSystemSupply move as many tokens as DOL.
SystemMoved(t, d) ==
    [t EXCEPT !.cash = t.cash + d, !.totalSupply = t.totalSupply + d,
              !.accountTokens[System] = t.accountTokens[System] + d]

LEMMA SystemGood ==
    ASSUME NEW t, NEW d \in Int, NEW r \in Nat, NEW now \in Nat,
           Good(t, r, now), d * r <= d * Scale,
           t.cash + d \in Nat, t.accountTokens[System] + d \in Nat
    PROVE  Good(SystemMoved(t, d), r, now)
<1> DEFINE u == SystemMoved(t, d)
           ledger == [t.accountTokens EXCEPT ![System] = @ + d]
<1>1. t \in Books /\ Sound(t, now) /\ Covers(t, r)
    BY DEF Good, Sound
<1>2. /\ t.cash \in Nat /\ t.totalSupply \in Nat /\ t.totalBorrows \in Nat /\ t.totalReserves \in Nat
      /\ t.borrowIndex \in Nat \ {0} /\ t.accountTokens \in [Holders -> Nat]
      /\ t.totalSupply = Total(t.accountTokens)
    BY <1>1 DEF Books, Sound
<1>3. u = [cash |-> t.cash + d, totalSupply |-> t.totalSupply + d,
           totalBorrows |-> t.totalBorrows, totalReserves |-> t.totalReserves,
           borrowIndex |-> t.borrowIndex, accrualBlockNumber |-> t.accrualBlockNumber,
           accountTokens |-> ledger,
           principal |-> t.principal, interestIndex |-> t.interestIndex,
           allowances |-> t.allowances]
    <2>1. u = [t EXCEPT !.cash = t.cash + d, !.totalSupply = t.totalSupply + d, !.accountTokens = ledger]
        BY <1>1 DEF SystemMoved, Books
    <2> HIDE DEF u, ledger
    <2>2. QED
        BY <1>1, <2>1 DEF Books
<1>4. /\ ledger \in [Holders -> Nat] /\ Total(ledger) = Total(t.accountTokens) + d
      /\ Total(t.accountTokens) + d \in Nat
    <2>1. System \in Holders
        BY DEF Holders
    <2>2. QED
        BY <1>2, <2>1, OneAccount
<1> HIDE DEF u, ledger
<1>5. u \in Books
    BY <1>1, <1>2, <1>3, <1>4 DEF Books
<1>6. Sound(u, now)
    BY <1>1, <1>2, <1>3, <1>4, <1>5 DEF Sound
<1>7. u.totalSupply = t.totalSupply + d /\ SupplierAssets(u) = SupplierAssets(t) + d
    BY <1>2, <1>3 DEF SupplierAssets
<1>8. Covers(u, r)
    BY <1>1, <1>5, <1>7, CoversMore
<1>9. QED
    BY <1>6, <1>8 DEF Good, u

-----------------------------------------------------------------------------
(***************************************************************************)
(* From the books of one market to the state: a step that writes the books *)
(* of m, and reports the accounts it touched.                              *)
(***************************************************************************)
\* The tokens and the debts of all users but A are left alone.
OnlyTouches(t, u, A) ==
    \A a \in Users \ A : u.accountTokens[a] = t.accountTokens[a] /\ u.principal[a] = t.principal[a]

Kept(t, u, i) == u.totalSupply > 0 => ExchangeRate(t, i) <= ExchangeRate(u, i)

\* The books an operation on m starts from.
Entered(R, m) == R = rToken \/ (CanAccrueIn({m}) /\ R = AccruedIn({m}))

\* What is proved of every step.
StepOK == IInv' /\ PowersReported' /\ RateKept /\ (suspended => Frozen)

\* Books covered at the rate of the books they came from have kept it.
LEMMA AtOwnRate ==
    ASSUME NEW s, NEW u, NEW i \in Nat \ {0}, NEW now \in Nat,
           Good(s, i, now), Good(u, ExchangeRate(s, i), now)
    PROVE  Good(u, i, now) /\ Kept(s, u, i)
<1>1. s \in Books /\ u \in Books /\ Covers(s, i) /\ Covers(u, ExchangeRate(s, i)) /\ Sound(u, now)
    BY DEF Good, Sound
<1>2. ExchangeRate(s, i) \in Nat /\ i <= ExchangeRate(s, i)
    BY <1>1, RateCovers
<1> DEFINE r == ExchangeRate(s, i)
<1> HIDE DEF r
<1>3. r \in Nat /\ i <= r /\ Covers(u, r)
    BY <1>1, <1>2 DEF r
<1>4. Covers(u, i)
    BY <1>1, <1>3, CoversLower
<1>5. u.totalSupply > 0 => r <= ExchangeRate(u, i)
    BY <1>1, <1>3, CoversRate
<1>6. QED
    BY <1>1, <1>4, <1>5 DEF Good, Kept, r

LEMMA EnteredGood ==
    ASSUME IInv, NEW m \in Markets, NEW R, Entered(R, m)
    PROVE  /\ Good(R[m], InitialRate[m], block)
           /\ Good(R[m], RateIn(R, m), block)
           /\ RateIn(R, m) \in Nat \ {0} /\ InitialRate[m] <= RateIn(R, m)
           /\ ExchangeRate(rToken[m], InitialRate[m]) <= RateIn(R, m)
           /\ R[m].totalSupply = rToken[m].totalSupply
           /\ R[m].accountTokens = rToken[m].accountTokens
           /\ R[m].principal = rToken[m].principal
           /\ R \in [Markets -> Books]
           /\ \A n \in Markets \ {m} : R[n] = rToken[n]
<1> DEFINE i == InitialRate[m]
           t == rToken[m]
           r == ExchangeRate(t, i)
<1>1. i \in Nat \ {0} /\ Good(t, i, block) /\ block \in Nat /\ rateModel \in Model
    BY LendingAssumption DEF IInv, TypeOK
<1>2. t \in Books /\ Covers(t, i)
    BY <1>1 DEF Good, Sound
<1>3. r \in Nat \ {0} /\ i <= r /\ Covers(t, r)
    BY <1>1, <1>2, RateCovers
<1>4. Good(t, r, block)
    BY <1>1, <1>3 DEF Good
<1>5. rToken \in [Markets -> Books]
    BY DEF IInv, TypeOK
<1>6. CASE R = rToken
    BY <1>1, <1>3, <1>4, <1>5, <1>6 DEF RateIn
<1>7. CASE CanAccrueIn({m}) /\ R = AccruedIn({m})
    <2> DEFINE s == Accrue(t, rateModel, block)
               q == ExchangeRate(s, i)
    <2>1. R = [n \in Markets |-> IF n \in {m} THEN Accrue(rToken[n], rateModel, block) ELSE rToken[n]]
        BY <1>7 DEF AccruedIn
    <2>2. R[m] = s /\ \A n \in Markets \ {m} : R[n] = rToken[n]
        BY <2>1
    <2>3. CanAccrue(t, rateModel, block)
        BY <1>7 DEF CanAccrueIn
    <2> HIDE DEF t, i, r
    <2>4. LET u == Accrue(t, rateModel, block)
          IN  /\ Good(u, r, block)
              /\ u.totalSupply = t.totalSupply /\ u.accountTokens = t.accountTokens
              /\ u.principal = t.principal
        BY <1>1, <1>3, <1>4, <2>3, AccrueGood, Zenon
    <2>5. /\ Good(s, r, block)
          /\ s.totalSupply = t.totalSupply /\ s.accountTokens = t.accountTokens
          /\ s.principal = t.principal
        BY <2>4
    <2> HIDE DEF s, q
    <2>6. Good(s, i, block) /\ Kept(t, s, i)
        BY <1>1, <2>5, AtOwnRate DEF r
    <2>7. s \in Books /\ Covers(s, i) /\ Sound(s, block)
        BY <2>6 DEF Good, Sound
    <2>8. q \in Nat \ {0} /\ i <= q /\ Covers(s, q)
        BY <1>1, <2>7, RateCovers DEF q
    <2>9. Good(s, q, block)
        BY <2>7, <2>8 DEF Good
    <2>10. r <= q
        <3>1. CASE s.totalSupply > 0
            BY <2>6, <3>1 DEF Kept, r, q
        <3>2. CASE ~(s.totalSupply > 0)
            <4>1. t.totalSupply = 0 /\ s.totalSupply = 0
                BY <2>5, <2>7, <3>2 DEF Books
            <4>2. QED
                BY <1>1, <4>1 DEF ExchangeRate, r, q
        <3>3. QED
            BY <3>1, <3>2
    <2>11. RateIn(R, m) = q
        BY <2>2 DEF RateIn, q, i
    <2>12. R \in [Markets -> Books]
        BY <1>5, <2>1, <2>2, <2>7 DEF t
    <2>13. QED
        BY <2>2, <2>5, <2>6, <2>8, <2>9, <2>10, <2>11, <2>12 DEF t, i, r
<1>8. QED
    BY <1>6, <1>7 DEF Entered

LEMMA PowerType ==
    ASSUME NEW t \in Books, NEW a \in Holders, NEW i \in Nat
    PROVE  PowerOf(t, a, i) \in Nat
<1>1. t.principal[a] \in Nat /\ t.accountTokens[a] \in Nat
    BY DEF Books
<1>2. MulScalarTruncate(i, t.accountTokens[a]) \in Nat
    BY <1>1, TruncateType
<1>3. QED
    BY <1>1, <1>2 DEF PowerOf

LEMMA InitialRateType == ASSUME NEW m \in Markets PROVE InitialRate[m] \in Nat \ {0}
BY LendingAssumption

\* The reports of a step are of the books it leaves behind.
LEMMA ReportedType ==
    ASSUME NEW P \in [Markets -> [Holders -> Nat]], NEW m \in Markets, NEW A,
           rToken' \in [Markets -> Books]
    PROVE  /\ Reported(P, m, A) \in [Markets -> [Holders -> Nat]]
           /\ \A n \in Markets \ {m} : Reported(P, m, A)[n] = P[n]
           /\ \A a \in Holders \ A : Reported(P, m, A)[m][a] = P[m][a]
           /\ m \in activePools =>
                \A a \in Holders \cap A :
                    Reported(P, m, A)[m][a] = PowerOf(rToken'[m], a, InitialRate[m])
<1> DEFINE row == [a \in Holders |->
                      IF a \in A THEN PowerOf(rToken'[m], a, InitialRate[m]) ELSE P[m][a]]
<1>1. CASE m \in activePools
    <2>1. row \in [Holders -> Nat]
        <3>1. \A a \in Holders : PowerOf(rToken'[m], a, InitialRate[m]) \in Nat
            BY PowerType, InitialRateType
        <3>2. QED
            BY <3>1
    <2>2. Reported(P, m, A) = [P EXCEPT ![m] = row]
        BY <1>1 DEF Reported
    <2>3. /\ \A a \in Holders \ A : row[a] = P[m][a]
          /\ \A a \in Holders \cap A : row[a] = PowerOf(rToken'[m], a, InitialRate[m])
        OBVIOUS
    <2> HIDE DEF row
    <2>4. QED
        BY <2>1, <2>2, <2>3
<1>2. CASE m \notin activePools
    BY <1>2 DEF Reported
<1>3. QED
    BY <1>1, <1>2

\* Powers stay known when each account whose tokens or debt are written in a
\* market with an active pool is reported.
LEMMA KnownKept ==
    ASSUME IInv, PowersReported, UNCHANGED pools,
           \A n \in activePools, a \in Users :
               \/ power'[n][a] = PowerOf(rToken'[n], a, InitialRate[n])
               \/ /\ power'[n][a] = power[n][a]
                  /\ rToken'[n].accountTokens[a] = rToken[n].accountTokens[a]
                  /\ rToken'[n].principal[a] = rToken[n].principal[a],
           \A n \in Markets \ activePools, a \in Users : power'[n][a] = power[n][a]
    PROVE  PowersReported'
<1>1. activePools' = activePools /\ unopened' = unopened /\ earlyPower' = earlyPower
    BY DEF pools
<1>2. ASSUME NEW n \in activePools, NEW a \in Users PROVE Known(n, a)'
    <2>1. Known(n, a)
        BY DEF PowersReported
    <2>2. CASE /\ power'[n][a] = power[n][a]
               /\ rToken'[n].accountTokens[a] = rToken[n].accountTokens[a]
               /\ rToken'[n].principal[a] = rToken[n].principal[a]
        <3>1. PowerOf(rToken'[n], a, InitialRate[n]) = PowerOf(rToken[n], a, InitialRate[n])
            BY <2>2 DEF PowerOf
        <3>2. QED
            BY <1>1, <2>1, <2>2, <3>1 DEF Known
    <2>3. QED
        BY <2>2 DEF Known
<1>3. unopened \subseteq Markets \ activePools
    BY DEF IInv, TypeOK
<1>4. QED
    BY <1>1, <1>2, <1>3 DEF PowersReported

\* A step that changes no books, control or settings but those of one market.
LEMMA OneMarket ==
    ASSUME IInv, PowersReported, NEW m \in Markets, NEW R, Entered(R, m),
           NEW u, NEW A,
           Write([R EXCEPT ![m] = u], m, A),
           Good(u, InitialRate[m], block), OnlyTouches(R[m], u, A),
           Kept(R[m], u, InitialRate[m])
                \/ (u.totalSupply > R[m].totalSupply
                    /\ u.totalSupply - R[m].totalSupply
                        = u.accountTokens[System] - R[m].accountTokens[System]),
           suspended => A = {}
    PROVE  StepOK
<1>1. /\ Good(R[m], InitialRate[m], block)
      /\ ExchangeRate(rToken[m], InitialRate[m]) <= RateIn(R, m)
      /\ R[m].totalSupply = rToken[m].totalSupply
      /\ R[m].accountTokens = rToken[m].accountTokens
      /\ R[m].principal = rToken[m].principal
      /\ R \in [Markets -> Books]
      /\ \A n \in Markets \ {m} : R[n] = rToken[n]
    BY EnteredGood
<1>2. rToken' = [R EXCEPT ![m] = u] /\ power' = Reported(power, m, A)
      /\ block' = block /\ control' = control /\ price' = price
    BY DEF Write
<1>3. /\ rToken'[m] = u /\ \A n \in Markets \ {m} : rToken'[n] = rToken[n]
    BY <1>1, <1>2
<1>4. u \in Books
    BY DEF Good, Sound
<1>5. rToken' \in [Markets -> Books]
    BY <1>1, <1>2, <1>4
<1>6. power \in [Markets -> [Holders -> Nat]]
    BY DEF IInv, TypeOK
<1>7. power' \in [Markets -> [Holders -> Nat]]
    BY <1>2, <1>5, <1>6, ReportedType
<1>8. TypeOK'
    BY <1>2, <1>5, <1>7 DEF IInv, TypeOK, control, settings, pools
<1>9. \A n \in Markets : Good(rToken'[n], InitialRate[n], block)
    BY <1>3 DEF IInv
<1>10. IInv'
    BY <1>2, <1>8, <1>9 DEF IInv
<1>11. PowersReported'
    <2>1. ASSUME NEW n \in Markets, NEW a \in Users, n # m \/ a \notin A
          PROVE  /\ power'[n][a] = power[n][a]
                 /\ rToken'[n].accountTokens[a] = rToken[n].accountTokens[a]
                 /\ rToken'[n].principal[a] = rToken[n].principal[a]
        <3>1. CASE n # m
            BY <1>2, <1>3, <1>5, <1>6, <2>1, <3>1, ReportedType
        <3>2. CASE n = m /\ a \notin A
            <4>1. a \in Holders
                BY DEF Holders
            <4>2. power'[m][a] = power[m][a]
                BY <1>2, <1>5, <1>6, <2>1, <3>2, <4>1, ReportedType
            <4>3. /\ u.accountTokens[a] = rToken[m].accountTokens[a]
                  /\ u.principal[a] = rToken[m].principal[a]
                BY <1>1, <3>2 DEF OnlyTouches
            <4>4. QED
                BY <1>3, <3>2, <4>2, <4>3
        <3>3. QED
            BY <2>1, <3>1, <3>2
    <2>2. ASSUME NEW a \in Users, a \in A, m \in activePools
          PROVE  power'[m][a] = PowerOf(rToken'[m], a, InitialRate[m])
        <3>1. a \in Holders
            BY DEF Holders
        <3>2. QED
            BY <1>2, <1>5, <1>6, <2>2, <3>1, ReportedType
    <2>3. ASSUME NEW a \in Users, m \notin activePools
          PROVE  power'[m][a] = power[m][a]
        BY <1>2, <2>3 DEF Reported
    <2>4. activePools \subseteq Markets
        BY DEF IInv, TypeOK
    <2>5. UNCHANGED pools
        BY <1>2 DEF control
    <2>6. \A n \in activePools, a \in Users :
               \/ power'[n][a] = PowerOf(rToken'[n], a, InitialRate[n])
               \/ /\ power'[n][a] = power[n][a]
                  /\ rToken'[n].accountTokens[a] = rToken[n].accountTokens[a]
                  /\ rToken'[n].principal[a] = rToken[n].principal[a]
        BY <2>1, <2>2, <2>4
    <2>7. \A n \in Markets \ activePools, a \in Users : power'[n][a] = power[n][a]
        BY <2>1, <2>3
    <2>8. QED
        BY <2>5, <2>6, <2>7, KnownKept
<1>12. RateKept
    <2> SUFFICES ASSUME NEW n \in Markets, rToken[n].totalSupply > 0, rToken'[n].totalSupply > 0,
                        ~SystemDilutes(n)
                 PROVE  RateIn(rToken', n) >= RateIn(rToken, n)
        BY DEF RateKept
    <2>1. \A x \in Books : Covers(x, InitialRate[n]) => ExchangeRate(x, InitialRate[n]) \in Nat
        BY RateCovers, InitialRateType
    <2>2. CASE n # m
        <3>1. RateIn(rToken', n) = RateIn(rToken, n)
            BY <1>3, <2>2 DEF RateIn
        <3>2. RateIn(rToken, n) \in Nat
            BY <2>1 DEF IInv, Good, Sound, RateIn
        <3>3. QED
            BY <3>1, <3>2
    <2>3. CASE n = m
        <3>1. Kept(R[m], u, InitialRate[m])
            <4>1. R[m].totalSupply \in Nat /\ u.totalSupply \in Nat
                BY <1>1, <1>4 DEF Books
            <4>2. ~(u.totalSupply > R[m].totalSupply
                    /\ u.totalSupply - R[m].totalSupply
                        = u.accountTokens[System] - R[m].accountTokens[System])
                BY <1>1, <1>3, <2>3, <4>1 DEF SystemDilutes
            <4>3. QED
                BY <4>2
        <3>2. RateIn(R, m) <= ExchangeRate(u, InitialRate[m])
            BY <1>3, <2>3, <3>1 DEF Kept, RateIn
        <3>3. /\ RateIn(rToken', n) = ExchangeRate(u, InitialRate[m])
              /\ RateIn(rToken, n) = ExchangeRate(rToken[m], InitialRate[m])
            BY <1>3, <2>3 DEF RateIn
        <3>4. /\ ExchangeRate(u, InitialRate[m]) \in Nat
              /\ ExchangeRate(rToken[m], InitialRate[m]) \in Nat
              /\ RateIn(R, m) \in Nat
            BY <1>1, <1>4, <2>1, <2>3 DEF IInv, Good, Sound, RateIn
        <3>5. QED
            BY <1>1, <3>2, <3>3, <3>4
    <2>4. QED
        BY <2>2, <2>3
<1>13. ASSUME suspended PROVE Frozen
    <2>1. A = {}
        BY <1>13
    <2>2. \A a \in Users : u.accountTokens[a] = rToken[m].accountTokens[a]
                           /\ u.principal[a] = rToken[m].principal[a]
        BY <1>1, <2>1 DEF OnlyTouches
    <2>3. QED
        BY <1>3, <2>2 DEF Frozen
<1>14. QED
    BY <1>10, <1>11, <1>12, <1>13 DEF StepOK

-----------------------------------------------------------------------------
(***************************************************************************)
(* Every action keeps what is proved of the steps.                         *)
(***************************************************************************)
\* An operation that starts from the books R of m, and is covered at their rate.
LEMMA AtRate ==
    ASSUME IInv, PowersReported, NEW m \in Markets, NEW R, Entered(R, m), NEW u, NEW A,
           Write([R EXCEPT ![m] = u], m, A),
           Good(u, RateIn(R, m), block), OnlyTouches(R[m], u, A), suspended => A = {}
    PROVE  StepOK
<1>1. Good(R[m], InitialRate[m], block)
    BY EnteredGood
<1>2. block \in Nat
    BY DEF IInv, TypeOK
<1>3. Good(u, ExchangeRate(R[m], InitialRate[m]), block)
    BY DEF RateIn
<1>4. Good(u, InitialRate[m], block) /\ Kept(R[m], u, InitialRate[m])
    BY <1>1, <1>2, <1>3, InitialRateType, AtOwnRate
<1>5. QED
    BY <1>4, OneMarket

LEMMA MintStep ==
    ASSUME IInv, PowersReported, NEW m \in Markets, NEW a \in Users, NEW amount \in Nat,
           Mint(m, a, amount)
    PROVE  StepOK
<1> DEFINE R == AccruedIn({m})
           r == RateIn(R, m)
           u == MintFresh(R[m], a, amount, r)
<1>1. /\ Entered(R, m) /\ ~suspended
      /\ Write([R EXCEPT ![m] = u], m, {a})
    BY DEF Mint, Entered, MintAllowed, Parties
<1>2. Good(R[m], r, block) /\ r \in Nat \ {0} /\ block \in Nat /\ R[m] \in Books
    BY <1>1, EnteredGood DEF IInv, TypeOK, Good, Sound
<1>3. OnlyTouches(R[m], u, {a})
    BY <1>2 DEF OnlyTouches, MintFresh, Books
<1>4. a \in Holders
    BY DEF Holders
<1> HIDE DEF R, r
<1>5. Good(u, r, block)
    BY <1>2, <1>4, MintGood
<1> HIDE DEF u
<1>6. QED
    BY <1>1, <1>3, <1>5, AtRate DEF r

LEMMA RedeemStep ==
    ASSUME IInv, PowersReported, NEW m \in Markets, NEW a \in Users, NEW tokens \in Nat,
           Redeem(m, a, tokens)
    PROVE  StepOK
<1> DEFINE R == AccruedIn({m})
           r == RateIn(R, m)
           u == RedeemFresh(R[m], a, tokens, r)
<1>1. /\ Entered(R, m) /\ ~suspended
      /\ tokens <= R[m].accountTokens[a] /\ RedeemAmount(tokens, r) <= R[m].cash
      /\ Write([R EXCEPT ![m] = u], m, {a})
    BY DEF Redeem, CanRedeem, Entered, RedeemAllowed, Parties
<1>2. Good(R[m], r, block) /\ r \in Nat \ {0} /\ block \in Nat /\ R[m] \in Books
    BY <1>1, EnteredGood DEF IInv, TypeOK, Good, Sound
<1>3. OnlyTouches(R[m], u, {a})
    BY <1>2 DEF OnlyTouches, RedeemFresh, Books
<1>4. a \in Holders
    BY DEF Holders
<1> HIDE DEF R, r
<1>5. Good(u, r, block)
    BY <1>1, <1>2, <1>4, RedeemGood
<1> HIDE DEF u
<1>6. QED
    BY <1>1, <1>3, <1>5, AtRate DEF r

LEMMA BorrowStep ==
    ASSUME IInv, PowersReported, NEW m \in Markets, NEW a \in Users, NEW amount \in Nat,
           Borrow(m, a, amount)
    PROVE  StepOK
<1> DEFINE R == AccruedIn({m})
           r == RateIn(R, m)
           u == BorrowFresh(R[m], a, amount)
<1>1. /\ Entered(R, m) /\ ~suspended /\ amount <= R[m].cash
      /\ Write([R EXCEPT ![m] = u], m, {a})
    BY DEF Borrow, Entered, BorrowAllowed, Parties
<1>2. Good(R[m], r, block) /\ r \in Nat \ {0} /\ block \in Nat /\ R[m] \in Books
    BY <1>1, EnteredGood DEF IInv, TypeOK, Good, Sound
<1>3. OnlyTouches(R[m], u, {a})
    BY <1>2 DEF OnlyTouches, BorrowFresh, SetDebt, Books
<1>4. a \in Holders
    BY DEF Holders
<1> HIDE DEF R, r
<1>5. Good(u, r, block)
    BY <1>1, <1>2, <1>4, BorrowGood
<1> HIDE DEF u
<1>6. QED
    BY <1>1, <1>3, <1>5, AtRate DEF r

LEMMA RepayStep ==
    ASSUME IInv, PowersReported, NEW m \in Markets, NEW a \in Users, NEW amount \in Nat,
           RepayBorrow(m, a, amount)
    PROVE  StepOK
<1> DEFINE R == AccruedIn({m})
           r == RateIn(R, m)
           u == RepayBorrowFresh(R[m], a, amount)
<1>1. /\ Entered(R, m) /\ ~suspended /\ CanRepay(R[m], a, amount)
      /\ Write([R EXCEPT ![m] = u], m, {a})
    BY DEF RepayBorrow, Entered, RepayBorrowAllowed, Parties
<1>2. Good(R[m], r, block) /\ r \in Nat \ {0} /\ block \in Nat /\ R[m] \in Books
    BY <1>1, EnteredGood DEF IInv, TypeOK, Good, Sound
<1>3. OnlyTouches(R[m], u, {a})
    BY <1>2 DEF OnlyTouches, RepayBorrowFresh, SetDebt, Books
<1>4. a \in Holders
    BY DEF Holders
<1> HIDE DEF R, r
<1>5. Good(u, r, block)
    BY <1>1, <1>2, <1>4, RepayGood
<1> HIDE DEF u
<1>6. QED
    BY <1>1, <1>3, <1>5, AtRate DEF r

\* The debt of an account after the accrual is an amount like any other.
LEMMA RepayAllStep ==
    ASSUME IInv, PowersReported, NEW m \in Markets, NEW a \in Users, RepayAll(m, a)
    PROVE  StepOK
<1> DEFINE R == AccruedIn({m})
<1>1. Entered(R, m)
    BY DEF RepayAll, RepayBorrow, Entered
<1>2. Sound(R[m], block) /\ a \in Holders
    BY <1>1, EnteredGood DEF Good, Holders
<1>3. BorrowBalance(R[m], a) \in Nat
    BY <1>2, BorrowBalanceType
<1>4. QED
    BY <1>3, RepayStep DEF RepayAll

LEMMA TransferStep ==
    ASSUME IInv, PowersReported, NEW m \in Markets, NEW spender \in Users, NEW src \in Users,
           NEW dst \in Holders, NEW tokens \in Nat, TransferTokens(m, spender, src, dst, tokens)
    PROVE  StepOK
<1> DEFINE t == rToken[m]
           s == Spend(t, spender, src, tokens)
           u == MoveTokens(s, src, dst, tokens)
           r == RateIn(rToken, m)
<1>1. /\ Entered(rToken, m) /\ ~suspended /\ src # dst
      /\ MaySpend(t, spender, src, tokens) /\ tokens <= t.accountTokens[src]
      /\ Write([rToken EXCEPT ![m] = u], m, {dst, src})
    BY DEF TransferTokens, Entered, RedeemAllowed, Parties
<1>2. Good(t, r, block) /\ r \in Nat \ {0} /\ block \in Nat
    BY <1>1, EnteredGood DEF IInv, TypeOK
<1>3. src \in Holders /\ spender \in Holders
    BY DEF Holders
<1> HIDE DEF t, r
<1>4. Good(s, r, block) /\ s.accountTokens = t.accountTokens /\ s.principal = t.principal
    BY <1>1, <1>2, <1>3, SpendGood
<1>5. Good(u, r, block)
    BY <1>1, <1>2, <1>3, <1>4, MoveGood
<1>6. s \in Books /\ t \in Books
    BY <1>2, <1>4 DEF Good, Sound
<1> HIDE DEF s
<1>7. OnlyTouches(t, u, {dst, src})
    <2>1. s.accountTokens \in [Holders -> Nat] /\ s.principal \in [Holders -> Nat] /\ dst \in Holders
        BY <1>6 DEF Books
    <2>2. /\ u.accountTokens = [s.accountTokens EXCEPT ![src] = @ - tokens, ![dst] = @ + tokens]
          /\ u.principal = s.principal
        BY <1>6 DEF MoveTokens, Books
    <2> HIDE DEF u
    <2>3. \A a \in Users \ {dst, src} : u.accountTokens[a] = s.accountTokens[a] /\ a \in Holders
        BY <1>3, <2>1, <2>2 DEF Holders
    <2>4. QED
        BY <1>4, <2>2, <2>3 DEF OnlyTouches
<1> HIDE DEF u
<1>8. QED
    BY <1>1, <1>5, <1>7, AtRate DEF r, t

LEMMA ApproveStep ==
    ASSUME IInv, PowersReported, NEW m \in Markets, NEW src \in Users, NEW spender \in Users,
           NEW n \in Allowance, Approve(m, src, spender, n)
    PROVE  StepOK
<1> DEFINE t == rToken[m]
           u == Granted(t, src, spender, n)
           r == RateIn(rToken, m)
<1>1. Entered(rToken, m) /\ src \in Holders /\ spender \in Holders
    BY DEF Entered, Holders
<1>2. Write([rToken EXCEPT ![m] = u], m, {})
    BY DEF Approve, Granted
<1>3. Good(t, r, block) /\ r \in Nat \ {0} /\ block \in Nat
    BY <1>1, EnteredGood DEF IInv, TypeOK
<1> HIDE DEF t, r
<1>4. Good(u, r, block) /\ u.accountTokens = t.accountTokens /\ u.principal = t.principal
    BY <1>1, <1>3, AllowanceGood
<1>5. OnlyTouches(t, u, {})
    BY <1>4 DEF OnlyTouches
<1> HIDE DEF u
<1>6. QED
    BY <1>1, <1>2, <1>4, <1>5, AtRate DEF r, t

\* Cash that comes in with no tokens: an addition to the reserves, a donation.
LEMMA CashInStep ==
    ASSUME IInv, PowersReported, NEW m \in Markets, NEW R, Entered(R, m),
           NEW amount \in Nat, NEW reserved \in Nat, reserved <= amount,
           Write([R EXCEPT ![m] = CashIn(R[m], amount, reserved)], m, {})
    PROVE  StepOK
<1> DEFINE t == R[m]
           u == CashIn(t, amount, reserved)
           r == RateIn(R, m)
<1>1. Good(t, r, block) /\ r \in Nat \ {0} /\ block \in Nat /\ t \in Books
    BY EnteredGood DEF IInv, TypeOK, Good, Sound
<1>2. Write([R EXCEPT ![m] = u], m, {})
    OBVIOUS
<1>3. OnlyTouches(t, u, {})
    BY <1>1 DEF OnlyTouches, CashIn, Books
<1> HIDE DEF r, t
<1>4. Good(u, r, block)
    BY <1>1, CashInGood
<1> HIDE DEF u
<1>5. QED
    BY <1>2, <1>3, <1>4, AtRate DEF r, t

LEMMA AddReservesStep ==
    ASSUME IInv, PowersReported, NEW m \in Markets, NEW amount \in Nat, AddReserves(m, amount)
    PROVE  StepOK
<1> DEFINE R == AccruedIn({m})
<1>1. Entered(R, m) /\ Write([R EXCEPT ![m] = AddToReserves(R[m], amount)], m, {})
    BY DEF AddReserves, Entered
<1>2. AddToReserves(R[m], amount) = CashIn(R[m], amount, amount)
    BY DEF AddToReserves, CashIn
<1> HIDE DEF R
<1>3. QED
    BY <1>1, <1>2, CashInStep

LEMMA DonateStep ==
    ASSUME IInv, PowersReported, NEW m \in Markets, NEW amount \in Nat, Donate(m, amount)
    PROVE  StepOK
<1> DEFINE t == rToken[m]
<1>1. t \in Books /\ Entered(rToken, m)
    BY DEF IInv, TypeOK, Entered
<1>2. Write([rToken EXCEPT ![m] = [t EXCEPT !.cash = t.cash + amount]], m, {})
    BY DEF Donate, IInv, TypeOK
<1> HIDE DEF t
<1>3. t.totalReserves + 0 = t.totalReserves
    BY <1>1 DEF Books
<1>4. [t EXCEPT !.cash = t.cash + amount] = CashIn(t, amount, 0)
    BY <1>1, <1>3 DEF CashIn, Books
<1>5. QED
    BY <1>1, <1>2, <1>4, CashInStep DEF t

LEMMA AccrueInterestStep ==
    ASSUME IInv, PowersReported, NEW m \in Markets, AccrueInterest(m)
    PROVE  StepOK
<1> DEFINE R == AccruedIn({m})
<1>1. Entered(R, m) /\ Write(R, m, {})
    BY DEF AccrueInterest, Entered
<1> HIDE DEF R
<1>2. R \in [Markets -> Books] /\ Good(R[m], RateIn(R, m), block)
    BY <1>1, EnteredGood
<1>3. [R EXCEPT ![m] = R[m]] = R /\ OnlyTouches(R[m], R[m], {})
    BY <1>2 DEF OnlyTouches
<1>4. QED
    BY <1>1, <1>2, <1>3, AtRate

-----------------------------------------------------------------------------
(***************************************************************************)
(* The system's own supply of DOL, moved at par whatever the rate: minting *)
(* it may dilute the market but not below the initial rate; burning it     *)
(* leaves more for those who stay.                                         *)
(***************************************************************************)
LEMMA IncreaseSystemSupplyStep ==
    ASSUME IInv, PowersReported, NEW amount \in Nat, IncreaseSystemSupply(amount)
    PROVE  StepOK
<1> DEFINE m == SystemMarket
           R == AccruedIn({m})
           t == R[m]
           u == SystemMoved(t, amount)
<1>1. m \in Markets /\ InitialRate[m] = Scale
    BY LendingAssumption
<1>2. /\ Entered(R, m)
      /\ Write([R EXCEPT ![m] = IncreaseSystem(t, amount)], m, {})
    BY DEF IncreaseSystemSupply, Entered
<1>3. IncreaseSystem(t, amount) = u
    BY DEF IncreaseSystem, SystemMoved
<1> HIDE DEF R, m
<1>4. Good(t, Scale, block) /\ block \in Nat /\ t \in Books
    BY <1>1, <1>2, EnteredGood DEF IInv, TypeOK, Good, Sound
<1> HIDE DEF t
<1>5. /\ t.totalSupply \in Nat /\ t.cash \in Nat
      /\ t.accountTokens \in [Holders -> Nat] /\ System \in Holders
    BY <1>4 DEF Books, Holders
<1>6. Good(u, Scale, block)
    <2>1. t.cash + amount \in Nat /\ t.accountTokens[System] + amount \in Nat
        BY <1>5
    <2>2. QED
        BY <1>4, <2>1, SystemGood
<1>7. /\ u.totalSupply = t.totalSupply + amount
      /\ u.accountTokens = [t.accountTokens EXCEPT ![System] = @ + amount]
      /\ u.principal = t.principal
    BY <1>4 DEF SystemMoved, Books
<1> HIDE DEF u
<1>8. OnlyTouches(t, u, {})
    BY <1>5, <1>7, RTokenAssumption DEF OnlyTouches
<1>9. CASE amount > 0
    <2>1. /\ u.totalSupply > t.totalSupply
          /\ u.totalSupply - t.totalSupply = u.accountTokens[System] - t.accountTokens[System]
        BY <1>5, <1>7, <1>9
    <2>2. QED
        BY <1>1, <1>2, <1>3, <1>6, <1>8, <2>1, OneMarket DEF t
<1>10. CASE amount = 0
    <2>1. u.accountTokens = t.accountTokens /\ u.totalSupply = t.totalSupply
        BY <1>5, <1>7, <1>10
    <2>2. SupplierAssets(u) = SupplierAssets(t)
        BY <1>4, <1>10 DEF u, SystemMoved, SupplierAssets, Books
    <2>3. ExchangeRate(u, Scale) = ExchangeRate(t, Scale) /\ ExchangeRate(t, Scale) \in Nat
        BY <1>4, <2>1, <2>2, RateCovers DEF ExchangeRate, Good
    <2>4. Kept(t, u, Scale)
        BY <2>3 DEF Kept
    <2>5. QED
        BY <1>1, <1>2, <1>3, <1>6, <1>8, <2>4, OneMarket DEF t
<1>11. QED
    BY <1>9, <1>10

LEMMA ReduceSystemSupplyStep ==
    ASSUME IInv, PowersReported, NEW amount \in Nat, ReduceSystemSupply(amount)
    PROVE  StepOK
<1> DEFINE m == SystemMarket
           R == AccruedIn({m})
           t == R[m]
           d == - amount
           r == RateIn(R, m)
           u == SystemMoved(t, d)
<1>1. m \in Markets /\ InitialRate[m] = Scale
    BY LendingAssumption
<1>2. /\ Entered(R, m) /\ amount <= t.accountTokens[System] /\ amount <= t.cash
      /\ Write([R EXCEPT ![m] = ReduceSystem(t, amount)], m, {})
    BY DEF ReduceSystemSupply, Entered
<1> HIDE DEF R, m
<1>3. Good(t, r, block) /\ block \in Nat /\ t \in Books /\ r \in Nat /\ Scale <= r
    BY <1>1, <1>2, EnteredGood DEF IInv, TypeOK, Good, Sound
<1> HIDE DEF t, r
<1>4. /\ t.totalSupply \in Nat /\ t.cash \in Nat
      /\ t.accountTokens \in [Holders -> Nat] /\ System \in Holders
      /\ t.accountTokens[System] \in Nat
    BY <1>3 DEF Books, Holders
<1>5. /\ t.cash - amount = t.cash + d /\ t.totalSupply - amount = t.totalSupply + d
      /\ t.accountTokens[System] - amount = t.accountTokens[System] + d
    BY <1>4
<1>6. ReduceSystem(t, amount) = u
    BY <1>5 DEF ReduceSystem, SystemMoved
<1>7. Good(u, r, block)
    <2>1. d \in Int /\ t.cash + d \in Nat /\ t.accountTokens[System] + d \in Nat
        BY <1>2, <1>4
    <2>2. d * r <= d * Scale
        <3>1. amount * Scale <= amount * r
            BY <1>3, ProductMonotone
        <3>2. d * r = - (amount * r) /\ d * Scale = - (amount * Scale)
            BY <1>3
        <3>3. amount * Scale \in Int /\ amount * r \in Int
            BY <1>3
        <3>4. QED
            BY <3>1, <3>2, <3>3
    <2> HIDE DEF d
    <2>3. QED
        BY <1>3, <2>1, <2>2, SystemGood
<1>8. OnlyTouches(t, u, {})
    BY <1>3, <1>4, RTokenAssumption DEF OnlyTouches, SystemMoved, Books
<1> HIDE DEF u
<1>9. QED
    BY <1>1, <1>2, <1>6, <1>7, <1>8, AtRate DEF t, r

-----------------------------------------------------------------------------
(***************************************************************************)
(* A liquidation writes two markets, or one of them twice.                 *)
(***************************************************************************)
LEMMA MulExpType == ASSUME NEW x \in Nat, NEW y \in Nat PROVE MulExp(x, y) \in Nat
<1>1. HalfScale \in Nat
    BY QuotientType DEF HalfScale
<1>2. HalfScale + x * y \in Nat
    BY <1>1, ProductType
<1>3. QED
    BY <1>2, QuotientType DEF MulExp

LEMMA SeizeTokensType ==
    ASSUME TypeOK, NEW R, NEW borrowed \in Markets, NEW collateral \in Markets, NEW amount \in Nat,
           RateIn(R, collateral) \in Nat, CanCalculateSeize(R, borrowed, collateral)
    PROVE  SeizeTokens(R, borrowed, collateral, amount) \in Nat
<1>1. price[borrowed] \in Nat /\ price[collateral] \in Nat /\ liquidationIncentive \in Nat
    BY DEF TypeOK
<1>2. SeizeNumerator(borrowed) \in Nat
    BY <1>1, MulExpType DEF SeizeNumerator
<1>3. SeizeDenominator(R, collateral) \in Nat \ {0}
    <2>1. MulExp(price[collateral], RateIn(R, collateral)) \in Nat
        BY <1>1, MulExpType
    <2>2. SeizeDenominator(R, collateral) > 0
        BY DEF CanCalculateSeize
    <2>3. QED
        BY <2>1, <2>2 DEF SeizeDenominator
<1>4. GetExp(SeizeNumerator(borrowed), SeizeDenominator(R, collateral)) \in Nat
    BY <1>2, <1>3, ProductType, QuotientType DEF GetExp
<1>5. QED
    BY <1>4, TruncateType DEF SeizeTokens

\* What the accrual in two markets leaves of each of them.
LEMMA AccruedBoth ==
    ASSUME IInv, NEW M \in SUBSET Markets, CanAccrueIn(M), NEW n \in Markets
    PROVE  LET R == AccruedIn(M)
           IN  /\ Good(R[n], InitialRate[n], block)
               /\ Good(R[n], RateIn(R, n), block)
               /\ RateIn(R, n) \in Nat \ {0} /\ InitialRate[n] <= RateIn(R, n)
               /\ ExchangeRate(rToken[n], InitialRate[n]) <= RateIn(R, n)
               /\ R[n].totalSupply = rToken[n].totalSupply
               /\ R[n].accountTokens = rToken[n].accountTokens
               /\ R[n].principal = rToken[n].principal
               /\ n \notin M => R[n] = rToken[n]
<1> DEFINE S == IF n \in M THEN AccruedIn({n}) ELSE rToken
           R == AccruedIn(M)
<1>1. Entered(S, n)
    BY DEF Entered, CanAccrueIn
<1>2. R[n] = S[n]
    BY DEF AccruedIn
<1>3. RateIn(R, n) = RateIn(S, n)
    BY <1>2 DEF RateIn
<1>4. n \notin M => S = rToken
    OBVIOUS
<1> HIDE DEF S, R
<1>5. /\ Good(R[n], InitialRate[n], block)
      /\ Good(R[n], RateIn(R, n), block)
      /\ RateIn(R, n) \in Nat \ {0} /\ InitialRate[n] <= RateIn(R, n)
      /\ ExchangeRate(rToken[n], InitialRate[n]) <= RateIn(R, n)
      /\ R[n].totalSupply = rToken[n].totalSupply
      /\ R[n].accountTokens = rToken[n].accountTokens
      /\ R[n].principal = rToken[n].principal
      /\ n \notin M => R[n] = rToken[n]
    BY <1>1, <1>2, <1>3, <1>4, EnteredGood
<1>6. QED
    BY <1>5 DEF R

\* What moving tokens, and setting a debt, leave alone.
LEMMA MoveTouches ==
    ASSUME NEW t \in Books, NEW src \in Users, NEW dst \in Holders, NEW tokens
    PROVE  OnlyTouches(t, MoveTokens(t, src, dst, tokens), {dst, src})
<1>1. t.accountTokens \in [Holders -> Nat] /\ src \in Holders
    BY DEF Books, Holders
<1> DEFINE u == MoveTokens(t, src, dst, tokens)
<1>2. /\ u.accountTokens = [t.accountTokens EXCEPT ![src] = @ - tokens, ![dst] = @ + tokens]
      /\ u.principal = t.principal
    BY DEF MoveTokens, Books
<1> HIDE DEF u
<1>3. \A a \in Users \ {dst, src} : u.accountTokens[a] = t.accountTokens[a]
    BY <1>1, <1>2 DEF Holders
<1>4. QED
    BY <1>2, <1>3 DEF OnlyTouches, u

LEMMA RepayTouches ==
    ASSUME NEW t \in Books, NEW a \in Users, NEW amount
    PROVE  OnlyTouches(t, RepayBorrowFresh(t, a, amount), {a})
BY DEF OnlyTouches, RepayBorrowFresh, SetDebt, Books, Holders

\* A report, as a relation between the powers before and after it.
Reports(P, Q, m, A) ==
    /\ Q \in [Markets -> [Holders -> Nat]]
    /\ \A n \in Markets \ {m} : Q[n] = P[n]
    /\ \A a \in Holders \ A : Q[m][a] = P[m][a]
    /\ m \in activePools =>
          \A a \in Holders \cap A : Q[m][a] = PowerOf(rToken'[m], a, InitialRate[m])
    /\ m \notin activePools => Q = P

LEMMA ReportedReports ==
    ASSUME NEW P \in [Markets -> [Holders -> Nat]], NEW m \in Markets, NEW A,
           rToken' \in [Markets -> Books]
    PROVE  Reports(P, Reported(P, m, A), m, A)
<1> DEFINE Q == Reported(P, m, A)
<1>1. /\ Q \in [Markets -> [Holders -> Nat]]
      /\ \A n \in Markets \ {m} : Q[n] = P[n]
      /\ \A a \in Holders \ A : Q[m][a] = P[m][a]
      /\ m \in activePools =>
            \A a \in Holders \cap A : Q[m][a] = PowerOf(rToken'[m], a, InitialRate[m])
    BY ReportedType
<1>3. m \notin activePools => Q = P
    BY DEF Reported
<1> HIDE DEF Q
<1>2. QED
    BY <1>1, <1>3 DEF Reports, Q

\* The two reports of a liquidation.
LEMMA LiquidatedPowers ==
    ASSUME IInv, PowersReported, NEW borrowed \in Markets, NEW collateral \in Markets,
           NEW liquidator \in Users, NEW borrower \in Users,
           rToken' \in [Markets -> Books], UNCHANGED pools,
           power' = Reported(Reported(power, borrowed, {borrower}), collateral, {liquidator, borrower}),
           \A n \in Markets \ {borrowed, collateral} : rToken'[n] = rToken[n],
           OnlyTouches(rToken[collateral], rToken'[collateral], {liquidator, borrower}),
           borrowed # collateral => OnlyTouches(rToken[borrowed], rToken'[borrowed], {borrower})
    PROVE  power' \in [Markets -> [Holders -> Nat]] /\ PowersReported'
<1> DEFINE first == Reported(power, borrowed, {borrower})
           A == {liquidator, borrower}
<1>1. power \in [Markets -> [Holders -> Nat]] /\ activePools \subseteq Markets
    BY DEF IInv, TypeOK
<1>2. Reports(power, first, borrowed, {borrower})
    BY <1>1, ReportedReports
<1>3. Reports(first, power', collateral, A)
    <2>1. first \in [Markets -> [Holders -> Nat]]
        BY <1>2 DEF Reports
    <2> HIDE DEF first
    <2>2. QED
        BY <2>1, ReportedReports DEF first
<1> HIDE DEF first
<1>4. PowersReported'
    <2>1. ASSUME NEW n \in Markets, NEW a \in Users,
                 n # collateral \/ a \notin A, n # borrowed \/ a # borrower
          PROVE  /\ power'[n][a] = power[n][a]
                 /\ rToken'[n].accountTokens[a] = rToken[n].accountTokens[a]
                 /\ rToken'[n].principal[a] = rToken[n].principal[a]
        <3>1. a \in Holders
            BY DEF Holders
        <3>2. first[n][a] = power[n][a]
            BY <1>2, <2>1, <3>1 DEF Reports
        <3>3. power'[n][a] = first[n][a]
            BY <1>3, <2>1, <3>1 DEF Reports
        <3>4. /\ rToken'[n].accountTokens[a] = rToken[n].accountTokens[a]
              /\ rToken'[n].principal[a] = rToken[n].principal[a]
            BY <2>1 DEF OnlyTouches
        <3>5. QED
            BY <3>2, <3>3, <3>4
    <2>2. ASSUME NEW n \in activePools, NEW a \in Users,
                 (n = collateral /\ a \in A) \/ (n = borrowed /\ a = borrower)
          PROVE  power'[n][a] = PowerOf(rToken'[n], a, InitialRate[n])
        <3>1. a \in Holders /\ n \in Markets
            BY <1>1 DEF Holders
        <3>2. CASE n = collateral /\ a \in A
            BY <1>3, <3>1, <3>2 DEF Reports
        <3>3. CASE n = borrowed /\ n # collateral /\ a = borrower
            BY <1>2, <1>3, <3>1, <3>3 DEF Reports
        <3>4. QED
            BY <2>2, <3>2, <3>3
    <2>3. ASSUME NEW n \in Markets \ activePools, NEW a \in Users
          PROVE  power'[n][a] = power[n][a]
        <3>1. first[n] = power[n]
            BY <1>2, <2>3 DEF Reports
        <3>2. power'[n] = first[n]
            BY <1>3, <2>3 DEF Reports
        <3>3. QED
            BY <3>1, <3>2
    <2>4. \A n \in activePools, a \in Users :
               \/ power'[n][a] = PowerOf(rToken'[n], a, InitialRate[n])
               \/ /\ power'[n][a] = power[n][a]
                  /\ rToken'[n].accountTokens[a] = rToken[n].accountTokens[a]
                  /\ rToken'[n].principal[a] = rToken[n].principal[a]
        BY <1>1, <2>1, <2>2
    <2>5. QED
        BY <2>3, <2>4, KnownKept
<1>5. QED
    BY <1>3, <1>4 DEF Reports

LEMMA LiquidateBorrowStep ==
    ASSUME IInv, PowersReported, NEW borrowed \in Markets, NEW collateral \in Markets,
           NEW liquidator \in Users, NEW borrower \in Users, NEW amount \in Nat,
           LiquidateBorrow(borrowed, collateral, liquidator, borrower, amount)
    PROVE  StepOK
<1> DEFINE M == {borrowed, collateral}
           R == AccruedIn(M)
           v == RepayBorrowFresh(R[borrowed], borrower, amount)
           repaid == [R EXCEPT ![borrowed] = v]
           tokens == SeizeTokens(repaid, borrowed, collateral, amount)
           c == repaid[collateral]
           w == MoveTokens(c, borrower, liquidator, tokens)
           A == {liquidator, borrower}
<1>1. /\ borrower # liquidator /\ ~suspended /\ CanAccrueIn(M)
      /\ CanRepay(R[borrowed], borrower, amount)
      /\ CanCalculateSeize(repaid, borrowed, collateral)
      /\ tokens <= c.accountTokens[borrower]
      /\ rToken' = [repaid EXCEPT ![collateral] = w]
      /\ power' = Reported(Reported(power, borrowed, {borrower}), collateral, A)
      /\ UNCHANGED <<block, control, price>>
    BY DEF LiquidateBorrow, SeizeAllowed, Parties
<1>2. /\ M \in SUBSET Markets /\ R = [n \in Markets |-> R[n]]
      /\ borrower \in Holders /\ liquidator \in Holders
      /\ TypeOK /\ block \in Nat /\ \A n \in Markets : rToken[n] \in Books
    BY DEF AccruedIn, Holders, IInv, TypeOK
<1> HIDE DEF R
<1>3. \A n \in Markets :
        /\ Good(R[n], InitialRate[n], block)
        /\ Good(R[n], RateIn(R, n), block)
        /\ RateIn(R, n) \in Nat \ {0} /\ InitialRate[n] <= RateIn(R, n)
        /\ ExchangeRate(rToken[n], InitialRate[n]) <= RateIn(R, n)
        /\ R[n].totalSupply = rToken[n].totalSupply
        /\ R[n].accountTokens = rToken[n].accountTokens
        /\ R[n].principal = rToken[n].principal
        /\ n \notin M => R[n] = rToken[n]
    <2> TAKE n \in Markets
    <2> HIDE DEF M
    <2>1. LET Q == AccruedIn(M)
          IN  /\ Good(Q[n], InitialRate[n], block)
              /\ Good(Q[n], RateIn(Q, n), block)
              /\ RateIn(Q, n) \in Nat \ {0} /\ InitialRate[n] <= RateIn(Q, n)
              /\ ExchangeRate(rToken[n], InitialRate[n]) <= RateIn(Q, n)
              /\ Q[n].totalSupply = rToken[n].totalSupply
              /\ Q[n].accountTokens = rToken[n].accountTokens
              /\ Q[n].principal = rToken[n].principal
              /\ n \notin M => Q[n] = rToken[n]
        BY <1>1, <1>2, AccruedBoth, Zenon
    <2>2. QED
        BY <2>1 DEF R
<1>4. \A n \in Markets : R[n] \in Books
    BY <1>3 DEF Good, Sound
<1> HIDE DEF M
<1>5. /\ Good(v, RateIn(R, borrowed), block) /\ v \in Books
      /\ OnlyTouches(R[borrowed], v, {borrower})
    <2>1. RateIn(R, borrowed) \in Nat /\ Good(R[borrowed], RateIn(R, borrowed), block)
        BY <1>3
    <2>2. Good(v, RateIn(R, borrowed), block)
        BY <1>1, <1>2, <2>1, RepayGood
    <2>3. OnlyTouches(R[borrowed], v, {borrower})
        BY <1>4, RepayTouches
    <2> HIDE DEF v
    <2>4. QED
        BY <2>2, <2>3 DEF Good, Sound
<1> HIDE DEF v
<1>6. /\ repaid[borrowed] = v /\ \A n \in Markets \ {borrowed} : repaid[n] = R[n]
      /\ repaid = [n \in Markets |-> repaid[n]]
    BY <1>2
<1>7. Good(c, RateIn(R, collateral), block) /\ c \in Books /\ OnlyTouches(R[collateral], c, {borrower})
    <2>1. CASE borrowed = collateral
        BY <1>5, <1>6, <2>1
    <2>2. CASE borrowed # collateral
        <3>1. c = R[collateral]
            BY <1>6, <2>2
        <3>2. QED
            BY <1>3, <1>4, <3>1 DEF OnlyTouches
    <2>3. QED
        BY <2>1, <2>2
<1>8. tokens \in Nat
    <2>1. Good(c, InitialRate[collateral], block)
        <3>1. RateIn(R, collateral) = ExchangeRate(R[collateral], InitialRate[collateral])
            BY DEF RateIn
        <3>2. Good(R[collateral], InitialRate[collateral], block)
            BY <1>3
        <3> HIDE DEF c
        <3>3. QED
            BY <1>2, <1>7, <3>1, <3>2, AtOwnRate, InitialRateType
    <2>2. ExchangeRate(c, InitialRate[collateral]) \in Nat
        <3> HIDE DEF c
        <3>1. QED
            BY <1>7, <2>1, RateCovers, InitialRateType DEF Good
    <2>3. RateIn(repaid, collateral) \in Nat
        BY <2>2 DEF RateIn
    <2> HIDE DEF repaid
    <2>4. QED
        BY <1>1, <1>2, <2>3, SeizeTokensType
<1> HIDE DEF tokens
<1>9. Good(w, RateIn(R, collateral), block) /\ w \in Books /\ OnlyTouches(c, w, A)
    <2>1. RateIn(R, collateral) \in Nat
        BY <1>3
    <2> HIDE DEF c
    <2>2. Good(w, RateIn(R, collateral), block)
        BY <1>1, <1>2, <1>7, <1>8, <2>1, MoveGood
    <2>3. OnlyTouches(c, w, {liquidator, borrower})
        BY <1>2, <1>7, MoveTouches
    <2> HIDE DEF w
    <2>4. QED
        BY <2>2, <2>3 DEF Good, Sound
<1> HIDE DEF w, c
<1>10. /\ rToken' = [n \in Markets |-> rToken'[n]]
       /\ rToken'[collateral] = w
       /\ borrowed # collateral => rToken'[borrowed] = v
       /\ \A n \in Markets \ {borrowed, collateral} : rToken'[n] = rToken[n]
    BY <1>1, <1>3, <1>6 DEF M
<1> HIDE DEF repaid
<1>11. \A n \in Markets : rToken'[n] \in Books /\ (n \in M => Good(rToken'[n], RateIn(R, n), block))
    BY <1>2, <1>5, <1>9, <1>10 DEF M
<1>12. rToken' \in [Markets -> Books]
    BY <1>10, <1>11
<1>13. /\ OnlyTouches(rToken[collateral], rToken'[collateral], A)
       /\ borrowed # collateral => OnlyTouches(rToken[borrowed], rToken'[borrowed], {borrower})
    BY <1>3, <1>5, <1>7, <1>9, <1>10 DEF OnlyTouches
<1>14. \A n \in M : Good(rToken'[n], InitialRate[n], block) /\ Kept(R[n], rToken'[n], InitialRate[n])
    <2> TAKE n \in M
    <2>1. n \in Markets /\ RateIn(R, n) = ExchangeRate(R[n], InitialRate[n])
        BY <1>2 DEF RateIn
    <2>2. Good(R[n], InitialRate[n], block) /\ Good(rToken'[n], ExchangeRate(R[n], InitialRate[n]), block)
        BY <1>3, <1>11, <2>1
    <2>3. QED
        BY <1>2, <2>1, <2>2, AtOwnRate, InitialRateType
<1>15. \A n \in Markets : Good(rToken'[n], InitialRate[n], block)
    BY <1>10, <1>14 DEF M, IInv
<1>16. power' \in [Markets -> [Holders -> Nat]] /\ PowersReported'
    <2>1. UNCHANGED pools
        BY <1>1 DEF control
    <2>2. QED
        BY <1>1, <1>10, <1>12, <1>13, <2>1, LiquidatedPowers
<1>17. IInv'
    <2>1. TypeOK'
        BY <1>1, <1>2, <1>12, <1>16 DEF TypeOK, control, settings, pools
    <2>2. QED
        BY <1>1, <1>15, <2>1 DEF IInv
<1>18. RateKept
    <2> SUFFICES ASSUME NEW n \in Markets, rToken[n].totalSupply > 0, rToken'[n].totalSupply > 0
                 PROVE  RateIn(rToken', n) >= RateIn(rToken, n)
        BY DEF RateKept
    <2>1. /\ RateIn(rToken', n) = ExchangeRate(rToken'[n], InitialRate[n])
          /\ RateIn(rToken, n) = ExchangeRate(rToken[n], InitialRate[n])
          /\ RateIn(R, n) = ExchangeRate(R[n], InitialRate[n])
        BY DEF RateIn
    <2>2. RateIn(rToken', n) \in Nat /\ RateIn(rToken, n) \in Nat /\ RateIn(R, n) \in Nat
        BY <1>3, <1>15, <2>1, RateCovers, InitialRateType DEF IInv, Good, Sound
    <2>3. CASE n \in M
        BY <1>3, <1>14, <2>1, <2>2, <2>3 DEF Kept
    <2>4. CASE n \notin M
        BY <1>10, <2>1, <2>2, <2>4 DEF M
    <2>5. QED
        BY <2>3, <2>4
<1>19. QED
    BY <1>1, <1>16, <1>17, <1>18 DEF StepOK

-----------------------------------------------------------------------------
(***************************************************************************)
(* The steps of the council, the oracle and the clock leave the books      *)
(* alone.                                                                  *)
(***************************************************************************)
\* No pool opens, though one may close.
PoolsKept == activePools' \subseteq activePools /\ unopened' = unopened /\ earlyPower' = earlyPower

LEMMA StillBooks ==
    ASSUME IInv, UNCHANGED books, TypeOK', block' >= block, PowersReported'
    PROVE  StepOK
<1>1. rToken' = rToken
    BY DEF books
<1>2. block \in Nat /\ block' \in Nat /\ \A n \in Markets : rToken[n] \in Books
    BY DEF IInv, TypeOK
<1>3. \A n \in Markets : Good(rToken'[n], InitialRate[n], block')
    <2> TAKE n \in Markets
    <2>1. Good(rToken[n], InitialRate[n], block)
        BY DEF IInv
    <2>2. rToken[n].accrualBlockNumber <= block'
        BY <1>2, <2>1 DEF Good, Sound, Books
    <2>3. QED
        BY <1>1, <2>1, <2>2 DEF Good, Sound
<1>4. IInv'
    BY <1>3 DEF IInv
<1>6. RateKept
    <2>1. \A n \in Markets : RateIn(rToken, n) \in Nat
        BY <1>2, RateCovers, InitialRateType DEF IInv, Good, RateIn
    <2>2. \A n \in Markets : RateIn(rToken', n) = RateIn(rToken, n)
        BY <1>1 DEF RateIn
    <2>3. QED
        BY <2>1, <2>2 DEF RateKept
<1>7. Frozen
    BY <1>1 DEF Frozen
<1>8. QED
    BY <1>4, <1>6, <1>7 DEF StepOK

LEMMA BooksKept ==
    ASSUME IInv, PowersReported, UNCHANGED books, TypeOK', block' >= block, PoolsKept
    PROVE  StepOK
<1>1. rToken' = rToken /\ power' = power
    BY DEF books
<1>2. PowersReported'
    BY <1>1 DEF PowersReported, Known, PoolsKept
<1>3. QED
    BY <1>2, StillBooks

LEMMA GovernStep ==
    ASSUME IInv, PowersReported, Govern
    PROVE  StepOK
<1> USE DEF IInv
<1>1. CASE \E n \in Grants : IncreaseSystemSupply(n) \/ ReduceSystemSupply(n)
    <2>1. Grants \subseteq Nat
        BY LendingAssumption
    <2>2. QED
        BY <1>1, <2>1, IncreaseSystemSupplyStep, ReduceSystemSupplyStep
<1>2. ASSUME NEW m \in Markets, NEW from \in MarketState, NEW to \in MarketState, MoveMarket(m, from, to)
      PROVE  market' \in [Markets -> MarketState]
    BY <1>2 DEF MoveMarket, TypeOK
<1>3. ASSUME NEW m \in Retirable, SupportMarket(m) PROVE StepOK
    <2>1. m \in Markets /\ DefaultCollateralFactor \in 0 .. Scale
        BY LendingAssumption
    <2>2. market' \in [Markets -> MarketState]
        BY <1>2, <1>3, <2>1 DEF SupportMarket, MarketState
    <2>3. TypeOK' /\ UNCHANGED books /\ block' >= block /\ PoolsKept
        <3>1. collateralFactor' \in [Markets -> 0 .. Scale]
            BY <1>3, <2>1 DEF SupportMarket, TypeOK
        <3>2. UNCHANGED <<block, rToken, price, suspended, pools,
                          closeFactor, liquidationIncentive, rateModel, power>>
            BY <1>3 DEF SupportMarket, books
        <3>3. QED
            BY <2>2, <3>1, <3>2 DEF TypeOK, books, pools, PoolsKept
    <2>4. QED
        BY <2>3, BooksKept
<1>4. ASSUME NEW m \in Retirable, CloseMarket(m) PROVE StepOK
    <2>1. m \in Markets
        BY LendingAssumption
    <2>2. market' \in [Markets -> MarketState]
        BY <1>2, <1>4, <2>1 DEF CloseMarket, MarketState
    <2>3. TypeOK' /\ UNCHANGED books /\ block' >= block /\ PoolsKept
        BY <1>4, <2>2 DEF CloseMarket, TypeOK, books, settings, pools, PoolsKept
    <2>4. QED
        BY <2>3, BooksKept
<1>5. ASSUME NEW m \in Retirable, LiquidateMarket(m) PROVE StepOK
    <2>1. m \in Markets
        BY LendingAssumption
    <2>2. market' \in [Markets -> MarketState]
        BY <1>2, <1>5, <2>1 DEF LiquidateMarket, MarketState
    <2>3. TypeOK' /\ UNCHANGED books /\ block' >= block /\ PoolsKept
        BY <1>5, <2>2 DEF LiquidateMarket, TypeOK, books, settings, pools, PoolsKept
    <2>4. QED
        BY <2>3, BooksKept
<1>6. ASSUME NEW m \in Retirable, RemoveMarket(m) PROVE StepOK
    <2>1. m \in Markets
        BY LendingAssumption
    <2>2. market' \in [Markets -> MarketState]
        BY <1>2, <1>6, <2>1 DEF RemoveMarket, MarketState
    <2>3. TypeOK' /\ UNCHANGED books /\ block' >= block /\ PoolsKept
        <3>1. collateralFactor' \in [Markets -> 0 .. Scale]
            <4>1. 0 \in 0 .. Scale
                OBVIOUS
            <4>2. QED
                BY <1>6, <4>1 DEF RemoveMarket, TypeOK
        <3>2. UNCHANGED <<block, rToken, price, suspended, pools,
                          closeFactor, liquidationIncentive, rateModel, power>>
            BY <1>6 DEF RemoveMarket, books
        <3>3. QED
            BY <2>2, <3>1, <3>2 DEF TypeOK, books, pools, PoolsKept
    <2>4. QED
        BY <2>3, BooksKept
<1>7. CASE \E m \in Markets, f \in CollateralFactors : SetCollateralFactor(m, f)
    <2>1. PICK m \in Markets, f \in CollateralFactors : SetCollateralFactor(m, f)
        BY <1>7
    <2>2. f \in 0 .. Scale
        BY LendingAssumption
    <2>3. TypeOK' /\ UNCHANGED books /\ block' >= block /\ PoolsKept
        BY <2>1, <2>2 DEF SetCollateralFactor, TypeOK, books, pools, PoolsKept
    <2>4. QED
        BY <2>3, BooksKept
<1>8. CASE ToogleSuspension
    <2>1. TypeOK' /\ UNCHANGED books /\ block' >= block /\ PoolsKept
        BY <1>8 DEF ToogleSuspension, TypeOK, books, settings, pools, PoolsKept
    <2>2. QED
        BY <2>1, BooksKept
<1>9. CASE \E f \in CloseFactors : SetCloseFactor(f)
    <2>1. TypeOK' /\ UNCHANGED books /\ block' >= block /\ PoolsKept
        BY <1>9, LendingAssumption DEF SetCloseFactor, TypeOK, books, pools, PoolsKept
    <2>2. QED
        BY <2>1, BooksKept
<1>10. CASE \E i \in LiquidationIncentives : SetLiquidationIncentive(i)
    <2>1. TypeOK' /\ UNCHANGED books /\ block' >= block /\ PoolsKept
        BY <1>10, LendingAssumption DEF SetLiquidationIncentive, TypeOK, books, pools, PoolsKept
    <2>2. QED
        BY <2>1, BooksKept
<1>11. CASE \E model \in RateModels : UpdateModel(model)
    <2>1. TypeOK' /\ UNCHANGED books /\ block' >= block /\ PoolsKept
        BY <1>11, LendingAssumption DEF UpdateModel, TypeOK, books, pools, PoolsKept
    <2>2. QED
        BY <2>1, BooksKept
<1>12. QED
    BY <1>1, <1>3, <1>4, <1>5, <1>6, <1>7, <1>8, <1>9, <1>10, <1>11 DEF Govern

LEMMA UseStep ==
    ASSUME IInv, PowersReported, Use
    PROVE  StepOK
<1>1. /\ Amounts \subseteq Nat /\ Grants \subseteq Nat /\ Allowances \subseteq Allowance
      /\ Receivers \subseteq Holders
    BY LendingAssumption
<1>2. PICK m \in Markets :
        \/ AccrueInterest(m)
        \/ \E n \in Grants : AddReserves(m, n) \/ Donate(m, n)
        \/ \E a \in Users, n \in Amounts :
            \/ a \in Suppliers[m] /\ Mint(m, a, n)
            \/ a \in Borrowers[m] /\ Borrow(m, a, n)
            \/ Redeem(m, a, n) \/ RepayBorrow(m, a, n)
            \/ \E src \in Users, dst \in Receivers : TransferTokens(m, a, src, dst, n)
            \/ \E c \in Markets, b \in Users : LiquidateBorrow(m, c, a, b, n)
        \/ \E a \in Users : RepayAll(m, a)
        \/ \E a \in Users, n \in Allowances : \E s \in Users \ {a} : Approve(m, a, s, n)
    BY DEF Use
<1>3. CASE AccrueInterest(m)
    BY <1>3, AccrueInterestStep
<1>4. CASE \E n \in Grants : AddReserves(m, n) \/ Donate(m, n)
    BY <1>1, <1>4, AddReservesStep, DonateStep
<1>5. ASSUME NEW a \in Users, NEW n \in Amounts, Mint(m, a, n) PROVE StepOK
    BY <1>1, <1>5, MintStep
<1>6. ASSUME NEW a \in Users, NEW n \in Amounts, Borrow(m, a, n) PROVE StepOK
    BY <1>1, <1>6, BorrowStep
<1>7. ASSUME NEW a \in Users, NEW n \in Amounts, Redeem(m, a, n) PROVE StepOK
    BY <1>1, <1>7, RedeemStep
<1>8. ASSUME NEW a \in Users, NEW n \in Amounts, RepayBorrow(m, a, n) PROVE StepOK
    BY <1>1, <1>8, RepayStep
<1>9. ASSUME NEW a \in Users, NEW n \in Amounts, NEW src \in Users, NEW dst \in Receivers,
             TransferTokens(m, a, src, dst, n)
      PROVE  StepOK
    BY <1>1, <1>9, TransferStep
<1>10. ASSUME NEW a \in Users, NEW n \in Amounts, NEW c \in Markets, NEW b \in Users,
              LiquidateBorrow(m, c, a, b, n)
       PROVE  StepOK
    BY <1>1, <1>10, LiquidateBorrowStep
<1>11. CASE \E a \in Users : RepayAll(m, a)
    BY <1>11, RepayAllStep
<1>12. CASE \E a \in Users, n \in Allowances : \E s \in Users \ {a} : Approve(m, a, s, n)
    BY <1>1, <1>12, ApproveStep
<1>13. QED
    BY <1>2, <1>3, <1>4, <1>5, <1>6, <1>7, <1>8, <1>9, <1>10, <1>11, <1>12

\* A pool that opens knows of no power, which its history records.
LEMMA OpenPoolStep ==
    ASSUME IInv, PowersReported, NEW m \in Markets, OpenPool(m)
    PROVE  StepOK
<1> DEFINE row == [a \in Holders |-> PowerOf(rToken[m], a, InitialRate[m])]
<1>1. /\ m \in unopened /\ unopened' = unopened \ {m}
      /\ activePools' = activePools \union {m}
      /\ earlyPower' = [earlyPower EXCEPT ![m] = row]
      /\ UNCHANGED <<block, books, price, market, suspended, settings>>
    BY DEF OpenPool
<1>2. TypeOK /\ \A n \in Markets : rToken[n] \in Books
    BY DEF IInv, TypeOK
<1>3. row \in [Holders -> Nat]
    <2>1. \A a \in Holders : PowerOf(rToken[m], a, InitialRate[m]) \in Nat
        BY <1>2, PowerType, InitialRateType
    <2>2. QED
        BY <2>1
<1>4. \A a \in Users : row[a] = PowerOf(rToken[m], a, InitialRate[m])
    BY DEF Holders
<1> HIDE DEF row
<1>5. TypeOK'
    BY <1>1, <1>2, <1>3 DEF TypeOK, books, settings
<1>6. PowersReported'
    <2>1. rToken' = rToken /\ power' = power
        BY <1>1 DEF books
    <2>2. ASSUME NEW n \in activePools', NEW a \in Users PROVE Known(n, a)'
        <3>1. CASE n = m
            <4>1. power[m][a] = 0 /\ earlyPower'[m] = row
                BY <1>1, <1>2 DEF PowersReported, TypeOK
            <4>2. QED
                BY <1>4, <2>1, <3>1, <4>1 DEF Known
        <3>2. CASE n # m
            <4>1. n \in activePools /\ Known(n, a) /\ earlyPower'[n] = earlyPower[n]
                BY <1>1, <1>2, <2>2, <3>2 DEF PowersReported, TypeOK
            <4>2. QED
                BY <2>1, <4>1 DEF Known
        <3>3. QED
            BY <3>1, <3>2
    <2>3. QED
        BY <1>1, <2>1, <2>2 DEF PowersReported
<1>7. block' >= block
    BY <1>1, <1>2 DEF TypeOK
<1>8. QED
    BY <1>1, <1>5, <1>6, <1>7, StillBooks

LEMMA NextStep ==
    ASSUME IInv, PowersReported, Next
    PROVE  StepOK
<1>1. CASE NextBlock
    <2>1. block \in Nat /\ block' = block + 1 /\ UNCHANGED <<books, control, price>>
        BY <1>1 DEF NextBlock, IInv, TypeOK
    <2>2. TypeOK' /\ UNCHANGED books /\ block' >= block /\ PoolsKept
        BY <2>1 DEF IInv, TypeOK, books, control, settings, pools, PoolsKept
    <2>3. QED
        BY <2>2, BooksKept
<1>2. CASE \E m \in Markets : OpenPool(m)
    BY <1>2, OpenPoolStep
<1>3. CASE \E m \in Markets : \E p \in Prices[m] : SetPrice(m, p)
    <2>1. PICK m \in Markets : \E p \in Prices[m] : SetPrice(m, p)
        BY <1>3
    <2>2. PICK p \in Prices[m] : SetPrice(m, p)
        BY <2>1
    <2>3. p \in Nat
        BY LendingAssumption
    <2>4. price' = [price EXCEPT ![m] = p] /\ UNCHANGED <<block, books, control>> /\ block \in Nat
        BY <2>2 DEF SetPrice, IInv, TypeOK
    <2>5. TypeOK' /\ UNCHANGED books /\ block' >= block /\ PoolsKept
        BY <2>3, <2>4 DEF IInv, TypeOK, books, control, settings, pools, PoolsKept
    <2>6. QED
        BY <2>5, BooksKept
<1>4. QED
    BY <1>1, <1>2, <1>3, UseStep, GovernStep DEF Next

LEMMA StutterStep ==
    ASSUME IInv, PowersReported, UNCHANGED vars
    PROVE  StepOK
<1>1. UNCHANGED books /\ block' = block /\ block \in Nat
    BY DEF vars, IInv, TypeOK
<1>2. TypeOK' /\ PoolsKept
    BY DEF IInv, TypeOK, vars, books, control, settings, pools, PoolsKept
<1>3. QED
    BY <1>1, <1>2, BooksKept

LEMMA InitGood == Init => IInv /\ PowersReported
<1> SUFFICES ASSUME Init PROVE IInv /\ PowersReported
    OBVIOUS
<1>1. /\ block = 1 /\ suspended = FALSE
      /\ activePools = Markets \ LateMarkets /\ unopened = LateMarkets
      /\ earlyPower = [m \in Markets |-> [a \in Holders |-> 0]]
      /\ rToken = [m \in Markets |->
                    IF m = SystemMarket THEN IncreaseSystem(NewBooks(1), GenesisSupply)
                    ELSE NewBooks(1)]
      /\ power = [m \in Markets |-> [a \in Holders |-> 0]]
    BY DEF Init
<1> DEFINE fresh == NewBooks(1)
           first == IncreaseSystem(fresh, GenesisSupply)
<1>2. GenesisSupply \in Nat /\ InitialRate[SystemMarket] = Scale /\ System \in Holders
    BY LendingAssumption DEF Holders
<1>3. fresh.cash = 0 /\ fresh.accountTokens = [a \in Holders |-> 0] /\ fresh.principal = [a \in Holders |-> 0]
    BY DEF NewBooks
<1>4. \A r \in Nat : Good(fresh, r, 1)
    BY NewBooksGood
<1> HIDE DEF fresh
<1>5. Good(first, Scale, 1)
    <2>1. Good(SystemMoved(fresh, GenesisSupply), Scale, 1)
        <3>1. fresh.cash + GenesisSupply \in Nat /\ fresh.accountTokens[System] + GenesisSupply \in Nat
            BY <1>2, <1>3
        <3>2. QED
            BY <1>2, <1>4, <3>1, SystemGood
    <2>2. first = SystemMoved(fresh, GenesisSupply)
        BY DEF IncreaseSystem, SystemMoved
    <2>3. QED
        BY <2>1, <2>2
<1>6. \A m \in Markets : Good(rToken[m], InitialRate[m], block)
    <2> TAKE m \in Markets
    <2>1. rToken[m] = IF m = SystemMarket THEN first ELSE fresh
        BY <1>1 DEF fresh
    <2> HIDE DEF first
    <2>2. QED
        BY <1>1, <1>2, <1>4, <1>5, <2>1, InitialRateType
<1>7. rToken \in [Markets -> Books]
    <2>1. \A m \in Markets : rToken[m] \in Books
        BY <1>6 DEF Good, Sound
    <2>2. rToken = [m \in Markets |-> rToken[m]]
        BY <1>1
    <2>3. QED
        BY <2>1, <2>2
<1>8. price \in [Markets -> Nat]
    <2>1. price \in {p \in [Markets -> UNION {Prices[m] : m \in Markets}] :
                        \A m \in Markets : p[m] \in Prices[m]}
        BY DEF Init
    <2>2. \A m \in Markets : price[m] \in Prices[m] /\ Prices[m] \subseteq Nat
        BY <2>1, LendingAssumption
    <2>3. QED
        BY <2>1, <2>2
<1>9. /\ market \in [Markets -> MarketState] /\ rateModel \in Model
      /\ closeFactor \in 0 .. Scale /\ liquidationIncentive \in Nat
    BY LendingAssumption DEF Init, MarketState
<1>10. collateralFactor \in [Markets -> 0 .. Scale]
    BY LendingAssumption DEF Init
<1>11. TypeOK
    BY <1>1, <1>7, <1>8, <1>9, <1>10, LendingAssumption DEF TypeOK
<1>12. PowersReported
    <2> SUFFICES ASSUME NEW m \in Markets, NEW a \in Users
                 PROVE  power[m][a] = PowerOf(rToken[m], a, InitialRate[m]) /\ power[m][a] = 0
        BY <1>1, LendingAssumption DEF PowersReported, Known
    <2>1. a \in Holders /\ a # System
        BY RTokenAssumption DEF Holders
    <2>2. first.accountTokens[a] = 0 /\ first.principal[a] = 0
        <3>1. first.accountTokens = [fresh.accountTokens EXCEPT ![System] = @ + GenesisSupply]
              /\ first.principal = fresh.principal
            BY <1>4 DEF IncreaseSystem, Good, Sound, Books
        <3>2. QED
            BY <1>3, <2>1, <3>1
    <2>3. rToken[m].accountTokens[a] = 0 /\ rToken[m].principal[a] = 0
        BY <1>1, <1>3, <2>1, <2>2 DEF fresh
    <2>4. MulScalarTruncate(InitialRate[m], 0) = 0
        BY InitialRateType DEF MulScalarTruncate, Truncate
    <2>5. PowerOf(rToken[m], a, InitialRate[m]) = 0
        BY <2>3, <2>4 DEF PowerOf
    <2>6. QED
        BY <1>1, <2>1, <2>5
<1>13. QED
    BY <1>6, <1>11, <1>12 DEF IInv

-----------------------------------------------------------------------------
(***************************************************************************)
(* How truncation behaves: it keeps the order, and what it costs a sum is  *)
(* less than one unit for each part.                                       *)
(***************************************************************************)
LEMMA QuotientBelow ==
    ASSUME NEW x \in Nat, NEW q \in Nat, NEW m \in Nat \ {0}, x < q * m
    PROVE  x \div m < q
<1> DEFINE p == x \div m
<1>1. p \in Nat /\ p * m <= x
    BY QuotientType
<1> HIDE DEF p
<1>2. q <= p => q * m <= p * m
    BY <1>1, ProductMonotone
<1>3. q * m \in Nat /\ p * m \in Nat
    BY <1>1, ProductType
<1>4. p < q
    BY <1>1, <1>2, <1>3
<1>5. QED
    BY <1>4 DEF p

LEMMA QuotientMonotone ==
    ASSUME NEW x \in Nat, NEW y \in Nat, NEW m \in Nat \ {0}, x <= y
    PROVE  x \div m <= y \div m
<1>1. x \div m \in Nat /\ (x \div m) * m <= x /\ (x \div m) * m \in Nat
    BY QuotientType, ProductType
<1> DEFINE q == x \div m
<1> HIDE DEF q
<1>2. q \in Nat /\ q * m <= y
    BY <1>1 DEF q
<1>3. q <= y \div m
    BY <1>2, QuotientReaches
<1>4. QED
    BY <1>3 DEF q

LEMMA ProductsMonotone ==
    ASSUME NEW e \in Nat, NEW f \in Nat, NEW n \in Nat, NEW k \in Nat, e <= f, n <= k
    PROVE  e * n <= f * k
<1>1. e * n <= e * k /\ e * k <= f * k
    BY ProductMonotone
<1>2. e * n \in Nat /\ e * k \in Nat /\ f * k \in Nat
    BY ProductType
<1>3. QED
    BY <1>1, <1>2

LEMMA TruncateMonotone ==
    ASSUME NEW e \in Nat, NEW f \in Nat, NEW n \in Nat, NEW k \in Nat, e <= f, n <= k
    PROVE  MulScalarTruncate(e, n) <= MulScalarTruncate(f, k)
<1>1. e * n <= f * k /\ e * n \in Nat /\ f * k \in Nat
    BY ProductsMonotone, ProductType
<1>2. QED
    BY <1>1, QuotientMonotone DEF MulScalarTruncate, Truncate

LEMMA MulExpMonotone ==
    ASSUME NEW e \in Nat, NEW f \in Nat, NEW n \in Nat, NEW k \in Nat, e <= f, n <= k
    PROVE  MulExp(e, n) <= MulExp(f, k)
<1>1. e * n <= f * k /\ e * n \in Nat /\ f * k \in Nat
    BY ProductsMonotone, ProductType
<1>2. HalfScale \in Nat
    BY QuotientType DEF HalfScale
<1>3. HalfScale + e * n \in Nat /\ HalfScale + f * k \in Nat /\ HalfScale + e * n <= HalfScale + f * k
    BY <1>1, <1>2
<1>4. QED
    BY <1>3, QuotientMonotone DEF MulExp

LEMMA TruncateSplit ==
    ASSUME NEW e \in Nat, NEW n \in Nat, NEW k \in Nat
    PROVE  MulScalarTruncate(e, n + k) <= MulScalarTruncate(e, n) + MulScalarTruncate(e, k) + 1
<1> DEFINE x == e * n
           y == e * k
           p == x \div Scale
           q == y \div Scale
<1>1. x \in Nat /\ y \in Nat /\ e * (n + k) = x + y
    BY ProductType
<1> HIDE DEF x, y
<1>2. p \in Nat /\ q \in Nat /\ x < (p + 1) * Scale /\ y < (q + 1) * Scale
    BY <1>1
<1>3. MulScalarTruncate(e, n + k) = (x + y) \div Scale
    BY <1>1 DEF MulScalarTruncate, Truncate
<1>4. MulScalarTruncate(e, n) = p /\ MulScalarTruncate(e, k) = q
    BY DEF MulScalarTruncate, Truncate, x, y
<1> HIDE DEF p, q
<1>5. (p + 1) * Scale + (q + 1) * Scale = (p + q + 2) * Scale /\ p + q + 2 \in Nat
    BY <1>2
<1>6. x + y < (p + q + 2) * Scale
    <2> DEFINE a == (p + 1) * Scale
               b == (q + 1) * Scale
               c == (p + q + 2) * Scale
    <2>1. a \in Nat /\ b \in Nat /\ c \in Nat
        BY <1>2, ProductType
    <2>2. x < a /\ y < b /\ a + b = c
        BY <1>2, <1>5
    <2> HIDE DEF a, b, c
    <2>3. x + y < c
        BY <1>1, <2>1, <2>2
    <2>4. QED
        BY <2>3 DEF c
<1>7. (x + y) \div Scale < p + q + 2
    BY <1>1, <1>5, <1>6, QuotientBelow
<1>8. (x + y) \div Scale \in Nat
    BY <1>1, QuotientType
<1>9. QED
    BY <1>2, <1>3, <1>4, <1>7, <1>8

LEMMA TruncateJoin ==
    ASSUME NEW e \in Nat, NEW n \in Nat, NEW k \in Nat
    PROVE  MulScalarTruncate(e, n) + MulScalarTruncate(e, k) <= MulScalarTruncate(e, n + k)
<1> DEFINE x == e * n
           y == e * k
           p == MulScalarTruncate(e, n)
           q == MulScalarTruncate(e, k)
<1>1. x \in Nat /\ y \in Nat /\ e * (n + k) = x + y
    BY ProductType
<1>2. p \in Nat /\ q \in Nat /\ p * Scale <= x /\ q * Scale <= y
    BY TruncateType
<1> HIDE DEF x, y, p, q
<1>3. (p + q) * Scale = p * Scale + q * Scale /\ p * Scale \in Nat /\ q * Scale \in Nat
    BY <1>2, ProductType
<1>4. (p + q) * Scale <= x + y /\ p + q \in Nat /\ x + y \in Nat
    BY <1>1, <1>2, <1>3
<1>5. p + q <= (x + y) \div Scale
    BY <1>4, QuotientReaches
<1>6. QED
    BY <1>1, <1>5 DEF MulScalarTruncate, Truncate, p, q

LEMMA TruncateZero ==
    ASSUME NEW e \in Nat
    PROVE  MulScalarTruncate(e, 0) = 0
<1>1. e * 0 = 0 /\ 0 \div Scale = 0
    OBVIOUS
<1>2. QED
    BY <1>1 DEF MulScalarTruncate, Truncate

-----------------------------------------------------------------------------
(***************************************************************************)
(* The liquidity of an account: the ledgers of what its tokens are worth   *)
(* as collateral and of what it owes, market by market.                    *)
(***************************************************************************)
Collaterals(R, a) == [m \in Assets |-> MulScalarTruncate(TokensToDenom(R, m), R[m].accountTokens[a])]
Debts(R, a) == [m \in Assets |-> MulScalarTruncate(price[m], BorrowBalance(R[m], a))]

AllGood(R) == \A m \in Markets : Good(R[m], InitialRate[m], block)

LEMMA MarketTypes ==
    ASSUME TypeOK, NEW R, AllGood(R), NEW a \in Holders, NEW m \in Markets
    PROVE  /\ R[m] \in Books /\ R[m].accountTokens[a] \in Nat /\ BorrowBalance(R[m], a) \in Nat
           /\ RateIn(R, m) \in Nat /\ TokensToDenom(R, m) \in Nat /\ price[m] \in Nat
<1>1. Sound(R[m], block) /\ Covers(R[m], InitialRate[m])
    BY DEF AllGood, Good
<1>2. R[m] \in Books
    BY <1>1 DEF Sound
<1>3. BorrowBalance(R[m], a) \in Nat
    BY <1>1, BorrowBalanceType
<1>4. RateIn(R, m) \in Nat
    BY <1>1, <1>2, RateCovers, InitialRateType DEF RateIn
<1>5. price[m] \in Nat /\ collateralFactor[m] \in Nat
    BY ScaleAssumption DEF TypeOK
<1>6. TokensToDenom(R, m) \in Nat
    BY <1>4, <1>5, MulExpType DEF TokensToDenom, MulExp3
<1>7. R[m].accountTokens \in [Holders -> Nat]
    BY <1>2 DEF Books
<1>8. QED
    BY <1>2, <1>3, <1>4, <1>5, <1>6, <1>7

LEMMA LedgerTypes ==
    ASSUME TypeOK, NEW R, AllGood(R), NEW a \in Holders
    PROVE  /\ IsFiniteSet(Assets) /\ Assets \subseteq Markets
           /\ Collaterals(R, a) \in [Assets -> Nat] /\ Debts(R, a) \in [Assets -> Nat]
           /\ SumCollateral(R, a) = Total(Collaterals(R, a)) /\ SumBorrow(R, a) = Total(Debts(R, a))
           /\ SumCollateral(R, a) \in Nat /\ SumBorrow(R, a) \in Nat
<1>1. IsFiniteSet(Assets) /\ Assets \subseteq Markets
    BY FS_Subset, LendingAssumption DEF Assets
<1>2. Collaterals(R, a) \in [Assets -> Nat]
    BY <1>1, MarketTypes, TruncateType DEF Collaterals
<1>3. Debts(R, a) \in [Assets -> Nat]
    BY <1>1, MarketTypes, TruncateType DEF Debts
<1>4. SumCollateral(R, a) = Total(Collaterals(R, a)) /\ SumBorrow(R, a) = Total(Debts(R, a))
    BY DEF SumCollateral, SumBorrow, Collaterals, Debts
<1>5. QED
    BY <1>1, <1>2, <1>3, <1>4, TotalType

LEMMA AccruedGood ==
    ASSUME IInv, NEW m \in Markets, CanAccrueIn({m})
    PROVE  LET R == AccruedIn({m})
           IN  AllGood(R) /\ \A n \in Markets : R[n].principal = rToken[n].principal
<1> DEFINE M == {m}
<1>1. M \in SUBSET Markets /\ CanAccrueIn(M)
    OBVIOUS
<1> HIDE DEF M
<1>2. \A n \in Markets : LET R == AccruedIn(M)
                         IN  /\ Good(R[n], InitialRate[n], block)
                             /\ R[n].principal = rToken[n].principal
    BY <1>1, AccruedBoth
<1>3. QED
    BY <1>2 DEF AllGood, M

\* Without debts what an account has is worth at least what it redeems.
LEMMA DebtFreeCovered ==
    ASSUME TypeOK, NEW R, AllGood(R), NEW a \in Users, NEW m \in Assets, NEW n \in Nat,
           n <= R[m].accountTokens[a], \A k \in Markets : R[k].principal[a] = 0,
           Priced(R, a), price[m] > 0
    PROVE  Covered(R, a, m, n, 0)
<1> DEFINE worth == MulScalarTruncate(TokensToDenom(R, m), n)
<1>1. a \in Holders
    BY DEF Holders
<1>2. m \in Markets
    BY DEF Assets
<1>3. \A k \in Assets : Debts(R, a)[k] = 0
    <2> TAKE k \in Assets
    <2>1. k \in Markets
        BY DEF Assets
    <2>2. BorrowBalance(R[k], a) = 0
        BY <2>1 DEF BorrowBalance
    <2>3. price[k] \in Nat
        BY <1>1, <2>1, MarketTypes
    <2>4. MulScalarTruncate(price[k], 0) = 0
        BY <2>3, TruncateZero
    <2>5. QED
        BY <2>2, <2>4 DEF Debts
<1>4. SumBorrow(R, a) = 0
    <2>1. Debts(R, a) \in [Assets -> Nat] /\ SumBorrow(R, a) = Total(Debts(R, a))
        BY <1>1, LedgerTypes
    <2> DEFINE debts == Debts(R, a)
    <2>2. debts \in [Assets -> Nat] /\ \A k \in Assets : debts[k] = 0
        BY <1>3, <2>1
    <2> HIDE DEF debts
    <2>3. Total(debts) = 0
        BY <2>2, TotalZero
    <2>4. QED
        BY <2>1, <2>3 DEF debts
<1>5. worth <= Collaterals(R, a)[m] /\ worth \in Nat
    <2>1. R[m].accountTokens[a] \in Nat /\ TokensToDenom(R, m) \in Nat
        BY <1>1, <1>2, MarketTypes
    <2>2. worth <= MulScalarTruncate(TokensToDenom(R, m), R[m].accountTokens[a])
        BY <2>1, TruncateMonotone
    <2>3. QED
        BY <2>1, <2>2, TruncateType DEF Collaterals
<1>6. Collaterals(R, a)[m] <= SumCollateral(R, a)
    BY <1>1, LedgerTypes, TotalBound
<1>7. Effects(R, m, n, 0) = worth
    <2>1. MulScalarTruncate(price[m], 0) = 0
        BY <1>1, <1>2, MarketTypes, TruncateZero
    <2>2. QED
        BY <1>5, <2>1 DEF Effects
<1>8. Collaterals(R, a)[m] \in Nat /\ SumCollateral(R, a) \in Nat
    BY <1>1, LedgerTypes
<1> HIDE DEF worth
<1>9. SumBorrow(R, a) + Effects(R, m, n, 0) <= SumCollateral(R, a)
    BY <1>4, <1>5, <1>6, <1>7, <1>8
<1>10. QED
    BY <1>9 DEF Covered

LEMMA LeavingIsPossible ==
    ASSUME IInv
    PROVE  DebtFreeMayLeave
<1> SUFFICES ASSUME NEW m \in Assets, NEW a \in Users, NEW n \in Amounts, DebtFree(a),
                    n <= AccruedIn({m})[m].accountTokens[a],
                    RedeemAmount(n, RateIn(AccruedIn({m}), m)) <= AccruedIn({m})[m].cash,
                    ~suspended, CanAccrueIn({m}), Priced(AccruedIn({m}), a), price[m] > 0
             PROVE  CanRedeem(m, a, n)
    BY DEF DebtFreeMayLeave
<1> DEFINE R == AccruedIn({m})
<1>1. m \in Markets /\ market[m] # "None" /\ n \in Nat /\ TypeOK
    BY LendingAssumption DEF Assets, IInv
<1>2. AllGood(R) /\ \A k \in Markets : R[k].principal[a] = 0
    BY <1>1, AccruedGood DEF DebtFree
<1> HIDE DEF R
<1>3. Covered(R, a, m, n, 0)
    BY <1>1, <1>2, DebtFreeCovered DEF R
<1>4. QED
    BY <1>1, <1>3 DEF CanRedeem, RedeemAllowed, R

-----------------------------------------------------------------------------
(***************************************************************************)
(* Two books of the markets, at the same prices and settings: R before and *)
(* Q after an operation.                                                   *)
(***************************************************************************)
RatesUp(R, Q, a) ==
    \A m \in Markets : R[m].accountTokens[a] > 0 /\ Q[m].accountTokens[a] > 0
                            => RateIn(R, m) <= RateIn(Q, m)

OwesNoMore(R, Q, a, m) == BorrowBalance(Q[m], a) <= BorrowBalance(R[m], a)
HasNoLess(R, Q, a, m) == R[m].accountTokens[a] <= Q[m].accountTokens[a]

\* What is left of some tokens is worth no less than it was.
LEMMA WorthUp ==
    ASSUME TypeOK, NEW R, NEW Q, AllGood(R), AllGood(Q), NEW a \in Holders, NEW m \in Markets,
           RatesUp(R, Q, a), NEW n \in Nat, n <= R[m].accountTokens[a], n <= Q[m].accountTokens[a]
    PROVE  MulScalarTruncate(TokensToDenom(R, m), n)
             <= MulScalarTruncate(TokensToDenom(Q, m), Q[m].accountTokens[a])
<1>1. /\ R[m].accountTokens[a] \in Nat /\ Q[m].accountTokens[a] \in Nat
      /\ RateIn(R, m) \in Nat /\ RateIn(Q, m) \in Nat
      /\ TokensToDenom(R, m) \in Nat /\ TokensToDenom(Q, m) \in Nat /\ price[m] \in Nat
    BY MarketTypes
<1>2. CASE n = 0
    <2>1. MulScalarTruncate(TokensToDenom(R, m), n) = 0
        BY <1>1, <1>2, TruncateZero
    <2>2. MulScalarTruncate(TokensToDenom(Q, m), Q[m].accountTokens[a]) \in Nat
        BY <1>1, TruncateType
    <2>3. QED
        BY <2>1, <2>2
<1>3. CASE n # 0
    <2>1. RateIn(R, m) <= RateIn(Q, m)
        BY <1>1, <1>3 DEF RatesUp
    <2>2. collateralFactor[m] \in Nat
        BY ScaleAssumption DEF TypeOK
    <2>3. MulExp(collateralFactor[m], RateIn(R, m)) <= MulExp(collateralFactor[m], RateIn(Q, m))
        BY <1>1, <2>1, <2>2, MulExpMonotone
    <2>4. /\ MulExp(collateralFactor[m], RateIn(R, m)) \in Nat
          /\ MulExp(collateralFactor[m], RateIn(Q, m)) \in Nat
        BY <1>1, <2>2, MulExpType
    <2>5. TokensToDenom(R, m) <= TokensToDenom(Q, m)
        BY <1>1, <2>3, <2>4, MulExpMonotone DEF TokensToDenom, MulExp3
    <2>6. QED
        BY <1>1, <2>5, TruncateMonotone
<1>4. QED
    BY <1>2, <1>3

LEMMA DebtDown ==
    ASSUME TypeOK, NEW R, NEW Q, AllGood(R), AllGood(Q), NEW a \in Holders, NEW m \in Assets,
           OwesNoMore(R, Q, a, m)
    PROVE  Debts(Q, a)[m] <= Debts(R, a)[m]
<1>1. m \in Markets
    BY DEF Assets
<1>2. BorrowBalance(R[m], a) \in Nat /\ BorrowBalance(Q[m], a) \in Nat /\ price[m] \in Nat
    BY <1>1, MarketTypes
<1>3. MulScalarTruncate(price[m], BorrowBalance(Q[m], a)) <= MulScalarTruncate(price[m], BorrowBalance(R[m], a))
    BY <1>2, TruncateMonotone DEF OwesNoMore
<1>4. QED
    BY <1>3 DEF Debts

LEMMA CollateralUp ==
    ASSUME TypeOK, NEW R, NEW Q, AllGood(R), AllGood(Q), NEW a \in Holders, NEW m \in Assets,
           RatesUp(R, Q, a), HasNoLess(R, Q, a, m)
    PROVE  Collaterals(R, a)[m] <= Collaterals(Q, a)[m]
<1>1. m \in Markets
    BY DEF Assets
<1>2. R[m].accountTokens[a] \in Nat /\ Q[m].accountTokens[a] \in Nat
    BY <1>1, MarketTypes
<1>3. MulScalarTruncate(TokensToDenom(R, m), R[m].accountTokens[a])
        <= MulScalarTruncate(TokensToDenom(Q, m), Q[m].accountTokens[a])
    BY <1>1, <1>2, WorthUp DEF HasNoLess
<1>4. QED
    BY <1>3 DEF Collaterals

LEMMA DebtsDown ==
    ASSUME TypeOK, NEW R, NEW Q, AllGood(R), AllGood(Q), NEW a \in Holders,
           \A m \in Assets : OwesNoMore(R, Q, a, m)
    PROVE  SumBorrow(Q, a) <= SumBorrow(R, a)
<1> DEFINE before == Debts(R, a)
           after == Debts(Q, a)
<1>1. \A m \in Assets : after[m] <= before[m]
    BY DebtDown
<1>2. /\ IsFiniteSet(Assets) /\ before \in [Assets -> Nat] /\ after \in [Assets -> Nat]
      /\ SumBorrow(R, a) = Total(before) /\ SumBorrow(Q, a) = Total(after)
    BY LedgerTypes
<1> HIDE DEF before, after
<1>3. QED
    BY <1>1, <1>2, TotalMonotone

LEMMA CollateralsUp ==
    ASSUME TypeOK, NEW R, NEW Q, AllGood(R), AllGood(Q), NEW a \in Holders, RatesUp(R, Q, a),
           \A m \in Assets : HasNoLess(R, Q, a, m)
    PROVE  SumCollateral(R, a) <= SumCollateral(Q, a)
<1> DEFINE before == Collaterals(R, a)
           after == Collaterals(Q, a)
<1>1. \A m \in Assets : before[m] <= after[m]
    BY CollateralUp
<1>2. /\ IsFiniteSet(Assets) /\ before \in [Assets -> Nat] /\ after \in [Assets -> Nat]
      /\ SumCollateral(R, a) = Total(before) /\ SumCollateral(Q, a) = Total(after)
    BY LedgerTypes
<1> HIDE DEF before, after
<1>3. QED
    BY <1>1, <1>2, TotalMonotone

\* An account that has no less and owes no more is not deeper in shortfall.
LEMMA BetterOff ==
    ASSUME TypeOK, NEW R, NEW Q, AllGood(R), AllGood(Q), NEW a \in Holders, RatesUp(R, Q, a),
           \A m \in Assets : OwesNoMore(R, Q, a, m) /\ HasNoLess(R, Q, a, m)
    PROVE  Shortfall(Q, a) <= Shortfall(R, a)
<1>1. SumBorrow(Q, a) <= SumBorrow(R, a) /\ SumCollateral(R, a) <= SumCollateral(Q, a)
    BY DebtsDown, CollateralsUp
<1>2. /\ SumBorrow(R, a) \in Nat /\ SumCollateral(R, a) \in Nat
      /\ SumBorrow(Q, a) \in Nat /\ SumCollateral(Q, a) \in Nat
    BY LedgerTypes
<1>3. QED
    BY <1>1, <1>2 DEF Shortfall

\* What an account may redeem, or send away, leaves it no shortfall but one unit.
LEMMA LessTokens ==
    ASSUME TypeOK, NEW R, NEW Q, AllGood(R), AllGood(Q), NEW a \in Holders, RatesUp(R, Q, a),
           NEW m \in Assets, NEW n \in Nat, n <= R[m].accountTokens[a],
           Q[m].accountTokens[a] = R[m].accountTokens[a] - n,
           \A k \in Assets : OwesNoMore(R, Q, a, k),
           \A k \in Assets \ {m} : HasNoLess(R, Q, a, k),
           Covered(R, a, m, n, 0)
    PROVE  Shortfall(Q, a) <= 1
<1> DEFINE denom == TokensToDenom(R, m)
           left == Q[m].accountTokens[a]
           before == Collaterals(R, a)
           after == Collaterals(Q, a)
           lost == MulScalarTruncate(denom, n)
<1>1. /\ m \in Markets /\ denom \in Nat /\ left \in Nat /\ price[m] \in Nat
      /\ R[m].accountTokens[a] = left + n
    <2>1. m \in Markets
        BY DEF Assets
    <2>2. R[m].accountTokens[a] \in Nat /\ denom \in Nat /\ left \in Nat /\ price[m] \in Nat
        BY <2>1, MarketTypes
    <2>3. QED
        BY <2>1, <2>2
<1>2. before[m] <= MulScalarTruncate(denom, left) + lost + 1
    BY <1>1, TruncateSplit DEF Collaterals
<1>3. MulScalarTruncate(denom, left) <= after[m]
    <2>1. left <= R[m].accountTokens[a] /\ left <= Q[m].accountTokens[a]
        BY <1>1
    <2>2. MulScalarTruncate(denom, left)
            <= MulScalarTruncate(TokensToDenom(Q, m), Q[m].accountTokens[a])
        BY <1>1, <2>1, WorthUp
    <2>3. QED
        BY <2>2 DEF Collaterals
<1>4. lost \in Nat /\ MulScalarTruncate(denom, left) \in Nat
    BY <1>1, TruncateType
<1>5. \A k \in Assets \ {m} : before[k] <= after[k]
    BY CollateralUp
<1>6. /\ IsFiniteSet(Assets) /\ before \in [Assets -> Nat] /\ after \in [Assets -> Nat]
      /\ SumCollateral(R, a) = Total(before) /\ SumCollateral(Q, a) = Total(after)
    BY LedgerTypes
<1>7. Effects(R, m, n, 0) = lost
    <2>1. MulScalarTruncate(price[m], 0) = 0
        BY <1>1, TruncateZero
    <2>2. QED
        BY <1>4, <2>1 DEF Effects
<1> HIDE DEF before, after, lost, left, denom
<1>8. before[m] <= after[m] + (lost + 1) /\ lost + 1 \in Nat
    BY <1>2, <1>3, <1>4, <1>6
<1>9. Total(before) <= Total(after) + (lost + 1)
    BY <1>5, <1>6, <1>8, TotalShift
<1>10. SumBorrow(R, a) + lost <= SumCollateral(R, a)
    BY <1>7 DEF Covered
<1>11. SumBorrow(Q, a) <= SumBorrow(R, a)
    BY DebtsDown
<1>12. /\ SumBorrow(R, a) \in Nat /\ SumCollateral(R, a) \in Nat
       /\ SumBorrow(Q, a) \in Nat /\ SumCollateral(Q, a) \in Nat
    BY LedgerTypes
<1>13. SumBorrow(Q, a) <= SumCollateral(Q, a) + 1
    BY <1>4, <1>6, <1>9, <1>10, <1>11, <1>12
<1>14. QED
    BY <1>12, <1>13 DEF Shortfall

\* So does what it may borrow.
LEMMA MoreDebt ==
    ASSUME TypeOK, NEW R, NEW Q, AllGood(R), AllGood(Q), NEW a \in Holders, RatesUp(R, Q, a),
           NEW m \in Assets, NEW n \in Nat, BorrowBalance(Q[m], a) <= BorrowBalance(R[m], a) + n,
           \A k \in Assets : HasNoLess(R, Q, a, k),
           \A k \in Assets \ {m} : OwesNoMore(R, Q, a, k),
           Covered(R, a, m, 0, n)
    PROVE  Shortfall(Q, a) <= 1
<1> DEFINE before == Debts(R, a)
           after == Debts(Q, a)
           added == MulScalarTruncate(price[m], n)
<1>1. /\ BorrowBalance(R[m], a) \in Nat /\ BorrowBalance(Q[m], a) \in Nat /\ price[m] \in Nat
      /\ TokensToDenom(R, m) \in Nat
    BY MarketTypes DEF Assets
<1>2. MulScalarTruncate(price[m], BorrowBalance(R[m], a) + n) <= before[m] + added + 1
    BY <1>1, TruncateSplit DEF Debts
<1>3. after[m] <= MulScalarTruncate(price[m], BorrowBalance(R[m], a) + n)
    <2>1. BorrowBalance(R[m], a) + n \in Nat
        BY <1>1
    <2>2. QED
        BY <1>1, <2>1, TruncateMonotone DEF Debts
<1>4. added \in Nat /\ MulScalarTruncate(price[m], BorrowBalance(R[m], a) + n) \in Nat
    <2>1. BorrowBalance(R[m], a) + n \in Nat
        BY <1>1
    <2>2. QED
        BY <1>1, <2>1, TruncateType
<1>5. \A k \in Assets \ {m} : after[k] <= before[k]
    BY DebtDown
<1>6. /\ IsFiniteSet(Assets) /\ before \in [Assets -> Nat] /\ after \in [Assets -> Nat]
      /\ SumBorrow(R, a) = Total(before) /\ SumBorrow(Q, a) = Total(after)
    BY LedgerTypes
<1>7. Effects(R, m, 0, n) = added
    <2>1. MulScalarTruncate(TokensToDenom(R, m), 0) = 0
        BY <1>1, TruncateZero
    <2>2. QED
        BY <1>4, <2>1 DEF Effects
<1> HIDE DEF before, after, added
<1>8. after[m] <= before[m] + (added + 1) /\ added + 1 \in Nat
    BY <1>2, <1>3, <1>4, <1>6
<1>9. Total(after) <= Total(before) + (added + 1)
    BY <1>5, <1>6, <1>8, TotalShift
<1>10. SumBorrow(R, a) + added <= SumCollateral(R, a)
    BY <1>7 DEF Covered
<1>11. SumCollateral(R, a) <= SumCollateral(Q, a)
    BY CollateralsUp
<1>12. /\ SumBorrow(R, a) \in Nat /\ SumCollateral(R, a) \in Nat
       /\ SumBorrow(Q, a) \in Nat /\ SumCollateral(Q, a) \in Nat
    BY LedgerTypes
<1>13. SumBorrow(Q, a) <= SumCollateral(Q, a) + 1
    BY <1>4, <1>6, <1>9, <1>10, <1>11, <1>12
<1>14. QED
    BY <1>12, <1>13 DEF Shortfall

-----------------------------------------------------------------------------
(***************************************************************************)
(* A step that accrues no interest, at the same prices and settings.       *)
(***************************************************************************)
Quiet == StillMarkets /\ IInv /\ IInv' /\ RateKept

LEMMA QuietBooks ==
    ASSUME Quiet
    PROVE  AllGood(rToken) /\ AllGood(rToken') /\ \A a \in Holders : RatesUp(rToken, rToken', a)
<1>1. block' = block
    BY DEF Quiet, StillMarkets
<1>2. AllGood(rToken) /\ AllGood(rToken')
    BY <1>1 DEF Quiet, IInv, AllGood
<1>3. ASSUME NEW a \in Holders, NEW m \in Markets,
             rToken[m].accountTokens[a] > 0, rToken'[m].accountTokens[a] > 0
      PROVE  RateIn(rToken, m) <= RateIn(rToken', m)
    <2>1. /\ rToken[m].accountTokens \in [Holders -> Nat] /\ rToken'[m].accountTokens \in [Holders -> Nat]
          /\ rToken[m].totalSupply = Total(rToken[m].accountTokens)
          /\ rToken'[m].totalSupply = Total(rToken'[m].accountTokens)
          /\ rToken[m].totalSupply \in Nat /\ rToken'[m].totalSupply \in Nat
        BY <1>2 DEF AllGood, Good, Sound, Books
    <2>2. /\ rToken[m].accountTokens[a] <= rToken[m].totalSupply
          /\ rToken'[m].accountTokens[a] <= rToken'[m].totalSupply
        BY <2>1, TotalBound, HoldersFinite
    <2>3. rToken[m].accountTokens[a] \in Nat /\ rToken'[m].accountTokens[a] \in Nat
        BY <2>1
    <2>4. rToken[m].totalSupply > 0 /\ rToken'[m].totalSupply > 0
        BY <1>3, <2>1, <2>2, <2>3
    <2>5. ~SystemDilutes(m)
        BY DEF Quiet, StillMarkets
    <2>6. RateIn(rToken', m) >= RateIn(rToken, m)
        BY <2>4, <2>5 DEF Quiet, RateKept
    <2>7. RateIn(rToken', m) \in Nat /\ RateIn(rToken, m) \in Nat
        <3>1. TypeOK
            BY DEF Quiet, IInv
        <3>2. QED
            BY <1>2, <3>1, MarketTypes
    <2>8. QED
        BY <2>6, <2>7
<1>4. QED
    BY <1>2, <1>3 DEF RatesUp

LEMMA QuietShortfall ==
    ASSUME Quiet, NEW a \in Users
    PROVE  /\ TypeOK /\ a \in Holders
           /\ Shortfall(rToken, a) \in Nat /\ Shortfall(rToken', a) \in Nat
<1>1. TypeOK /\ a \in Holders
    BY DEF Quiet, IInv, Holders
<1>2. /\ SumBorrow(rToken, a) \in Nat /\ SumCollateral(rToken, a) \in Nat
      /\ SumBorrow(rToken', a) \in Nat /\ SumCollateral(rToken', a) \in Nat
    BY <1>1, QuietBooks, LedgerTypes
<1>3. QED
    BY <1>1, <1>2 DEF Shortfall

LEMMA QuietBetter ==
    ASSUME Quiet, NEW a \in Users,
           \A m \in Assets : OwesNoMore(rToken, rToken', a, m) /\ HasNoLess(rToken, rToken', a, m)
    PROVE  ShortfallKept(a)
<1>1. Shortfall(rToken', a) <= Shortfall(rToken, a)
    BY QuietBooks, QuietShortfall, BetterOff
<1>2. QED
    BY <1>1, QuietShortfall DEF ShortfallKept

LEMMA QuietUnit ==
    ASSUME Quiet, NEW a \in Users, Shortfall(rToken', a) <= 1
    PROVE  ShortfallKept(a)
BY QuietShortfall DEF ShortfallKept

\* Only the books of m are written.
OnlyWritten(m, u) == rToken' = [rToken EXCEPT ![m] = u]

LEMMA OtherBooks ==
    ASSUME Quiet, NEW m \in Markets, NEW u, OnlyWritten(m, u), NEW a \in Users
    PROVE  /\ rToken'[m] = u /\ \A k \in Markets \ {m} : rToken'[k] = rToken[k]
           /\ \A k \in Assets \ {m} : OwesNoMore(rToken, rToken', a, k) /\ HasNoLess(rToken, rToken', a, k)
<1>1. DOMAIN rToken = Markets
    BY DEF Quiet, IInv, TypeOK
<1>2. rToken'[m] = u /\ \A k \in Markets \ {m} : rToken'[k] = rToken[k]
    BY <1>1 DEF OnlyWritten
<1>3. ASSUME NEW k \in Assets \ {m}
      PROVE  OwesNoMore(rToken, rToken', a, k) /\ HasNoLess(rToken, rToken', a, k)
    <2>1. k \in Markets \ {m}
        BY DEF Assets
    <2>2. BorrowBalance(rToken[k], a) \in Nat /\ rToken[k].accountTokens[a] \in Nat
        BY <2>1, QuietBooks, QuietShortfall, MarketTypes
    <2>3. QED
        BY <1>2, <2>1, <2>2 DEF OwesNoMore, HasNoLess
<1>4. QED
    BY <1>2, <1>3

LEMMA BetterInOne ==
    ASSUME Quiet, NEW m \in Markets, NEW u, OnlyWritten(m, u), NEW a \in Users,
           BorrowBalance(u, a) <= BorrowBalance(rToken[m], a),
           rToken[m].accountTokens[a] <= u.accountTokens[a]
    PROVE  ShortfallKept(a)
<1>1. OwesNoMore(rToken, rToken', a, m) /\ HasNoLess(rToken, rToken', a, m)
    BY OtherBooks DEF OwesNoMore, HasNoLess
<1>2. \A k \in Assets : OwesNoMore(rToken, rToken', a, k) /\ HasNoLess(rToken, rToken', a, k)
    BY <1>1, OtherBooks
<1>3. QED
    BY <1>2, QuietBetter

\* Books whose tokens and debts of an account are as before.
SameFor(t, u, a) ==
    /\ u.accountTokens[a] = t.accountTokens[a]
    /\ BorrowBalance(u, a) = BorrowBalance(t, a)

LEMMA SameInOne ==
    ASSUME Quiet, NEW m \in Markets, NEW u, OnlyWritten(m, u), NEW a \in Users, SameFor(rToken[m], u, a)
    PROVE  ShortfallKept(a)
<1>1. BorrowBalance(rToken[m], a) \in Nat /\ rToken[m].accountTokens[a] \in Nat
    BY QuietBooks, QuietShortfall, MarketTypes
<1>2. /\ BorrowBalance(u, a) <= BorrowBalance(rToken[m], a)
      /\ rToken[m].accountTokens[a] <= u.accountTokens[a]
    BY <1>1 DEF SameFor
<1>3. QED
    BY <1>2, BetterInOne

-----------------------------------------------------------------------------
(***************************************************************************)
(* What each operation on the books does to an account.                    *)
(***************************************************************************)
SameDebts(t, u) ==
    u.principal = t.principal /\ u.interestIndex = t.interestIndex /\ u.borrowIndex = t.borrowIndex

LEMMA SameDebtsBalance ==
    ASSUME NEW t, NEW u, SameDebts(t, u), NEW a
    PROVE  BorrowBalance(u, a) = BorrowBalance(t, a)
BY DEF SameDebts, BorrowBalance

LEMMA QuotientExact ==
    ASSUME NEW x \in Nat, NEW m \in Nat \ {0}
    PROVE  (x * m) \div m = x
<1> DEFINE y == x * m
<1>1. y \in Nat /\ x * m <= y
    BY ProductType
<1> HIDE DEF y
<1>2. x <= y \div m
    BY <1>1, QuotientReaches
<1>3. (x + 1) * m = y + m /\ x + 1 \in Nat
    BY DEF y
<1>4. y \div m < x + 1
    BY <1>1, <1>3, QuotientBelow
<1>5. y \div m \in Nat
    BY <1>1, QuotientType
<1>6. y \div m = x
    BY <1>2, <1>4, <1>5
<1>7. QED
    BY <1>6 DEF y

\* A debt that is set is the balance of the account, and nobody else's changes.
LEMMA SetDebtBalance ==
    ASSUME NEW t \in Books, NEW u, NEW a \in Holders, NEW debt \in Nat,
           u.principal = [t.principal EXCEPT ![a] = debt],
           u.interestIndex = [t.interestIndex EXCEPT ![a] = t.borrowIndex],
           u.borrowIndex = t.borrowIndex
    PROVE  /\ BorrowBalance(u, a) = debt
           /\ \A b \in Holders \ {a} : BorrowBalance(u, b) = BorrowBalance(t, b)
<1>1. /\ t.principal \in [Holders -> Nat] /\ t.interestIndex \in [Holders -> Nat]
      /\ t.borrowIndex \in Nat \ {0}
    BY DEF Books
<1>2. BorrowBalance(u, a) = debt
    <2>1. u.principal[a] = debt /\ u.interestIndex[a] = t.borrowIndex
        BY <1>1
    <2>2. (debt * t.borrowIndex) \div t.borrowIndex = debt
        BY <1>1, QuotientExact
    <2>3. QED
        BY <2>1, <2>2 DEF BorrowBalance
<1>3. \A b \in Holders \ {a} : u.principal[b] = t.principal[b] /\ u.interestIndex[b] = t.interestIndex[b]
    BY <1>1
<1>4. \A b \in Holders \ {a} : BorrowBalance(u, b) = BorrowBalance(t, b)
    BY <1>3 DEF BorrowBalance
<1>5. QED
    BY <1>2, <1>4

-----------------------------------------------------------------------------
(***************************************************************************)
(* The operations, one by one.  A market whose block of accrual stays has  *)
(* accrued its interest before the step.                                   *)
(***************************************************************************)
LEMMA AlreadyAccrued ==
    ASSUME TypeOK, NEW M \in SUBSET Markets,
           \A m \in M : AccruedIn(M)[m].accrualBlockNumber = rToken[m].accrualBlockNumber
    PROVE  AccruedIn(M) = rToken
<1>1. ASSUME NEW m \in M PROVE AccruedIn(M)[m] = rToken[m]
    <2>1. rToken[m] \in Books /\ AccruedIn(M)[m] = Accrue(rToken[m], rateModel, block)
        BY DEF TypeOK, AccruedIn
    <2>2. CASE rToken[m].accrualBlockNumber = block
        BY <2>1, <2>2 DEF Accrue
    <2>3. CASE rToken[m].accrualBlockNumber # block
        <3>1. Accrue(rToken[m], rateModel, block).accrualBlockNumber = block
            BY <2>1, <2>3 DEF Accrue, Books
        <3>2. QED
            BY <1>1, <2>1, <2>3, <3>1
    <2>4. QED
        BY <2>2, <2>3
<1>2. \A m \in Markets : AccruedIn(M)[m] = rToken[m]
    BY <1>1 DEF AccruedIn
<1>3. rToken \in [Markets -> Books]
    BY DEF TypeOK
<1>4. AccruedIn(M) = [m \in Markets |-> AccruedIn(M)[m]]
    BY DEF AccruedIn
<1>5. QED
    BY <1>2, <1>3, <1>4

\* A step that writes the books of m after accruing it has accrued nothing, if
\* what it does to them leaves their block of accrual alone.
LEMMA NothingAccrued ==
    ASSUME Quiet, NEW m \in Markets, NEW u,
           rToken' = [AccruedIn({m}) EXCEPT ![m] = u],
           u.accrualBlockNumber = AccruedIn({m})[m].accrualBlockNumber
    PROVE  AccruedIn({m}) = rToken
<1>1. TypeOK
    BY DEF Quiet, IInv
<1>2. rToken'[m] = u
    BY DEF AccruedIn
<1>3. AccruedIn({m})[m].accrualBlockNumber = rToken[m].accrualBlockNumber
    BY <1>2 DEF Quiet, StillMarkets
<1> DEFINE M == {m}
<1>4. M \in SUBSET Markets /\ \A k \in M : AccruedIn(M)[k].accrualBlockNumber = rToken[k].accrualBlockNumber
    BY <1>3
<1> HIDE DEF M
<1>5. AccruedIn(M) = rToken
    BY <1>1, <1>4, AlreadyAccrued
<1>6. QED
    BY <1>5 DEF M

LEMMA AccruedBook ==
    ASSUME IInv, NEW m \in Markets, CanAccrueIn({m})
    PROVE  AccruedIn({m})[m] \in Books
BY AccruedGood DEF AllGood, Good, Sound

\* The books of m were sound, in particular.
LEMMA QuietBook ==
    ASSUME Quiet, NEW m \in Markets
    PROVE  /\ rToken[m] \in Books /\ RateIn(rToken, m) \in Nat \ {0}
           /\ \A a \in Holders : BorrowBalance(rToken[m], a) \in Nat /\ rToken[m].accountTokens[a] \in Nat
<1>1. rToken[m] \in Books /\ Covers(rToken[m], InitialRate[m])
    BY QuietBooks DEF AllGood, Good, Sound
<1>2. RateIn(rToken, m) \in Nat \ {0}
    BY <1>1, RateCovers, InitialRateType DEF RateIn
<1>3. TypeOK
    BY DEF Quiet, IInv
<1>4. \A a \in Holders : BorrowBalance(rToken[m], a) \in Nat /\ rToken[m].accountTokens[a] \in Nat
    BY <1>3, QuietBooks, MarketTypes
<1>5. QED
    BY <1>1, <1>2, <1>4

LEMMA MintQuiet ==
    ASSUME Quiet, NEW m \in Markets, NEW a \in Users, NEW n \in Nat, Mint(m, a, n), NEW b \in Users
    PROVE  ShortfallKept(b)
<1> DEFINE R == AccruedIn({m})
           u == MintFresh(R[m], a, n, RateIn(R, m))
<1>1. CanAccrueIn({m}) /\ rToken' = [R EXCEPT ![m] = u]
    BY DEF Mint, Write
<1>2. R[m] \in Books
    BY <1>1, AccruedBook DEF Quiet
<1>3. u.accrualBlockNumber = R[m].accrualBlockNumber
    BY <1>2 DEF MintFresh, Books
<1>4. R = rToken
    BY <1>1, <1>3, NothingAccrued
<1> DEFINE t == rToken[m]
           tokens == MintTokens(n, RateIn(rToken, m))
<1>5. tokens \in Nat
    <2>1. RateIn(rToken, m) \in Nat \ {0} /\ Scale * n \in Nat
        BY QuietBook, ProductType
    <2>2. GetExp(Scale * n, RateIn(rToken, m)) \in Nat
        BY <2>1, ProductType, QuotientType DEF GetExp
    <2>3. QED
        BY <2>2, QuotientType DEF MintTokens, DivScalarByExpTruncate, Truncate
<1> DEFINE v == MintFresh(t, a, n, RateIn(rToken, m))
<1>6. u = v
    BY <1>4
<1> HIDE DEF R, u
<1>7. t \in Books /\ a \in Holders /\ b \in Holders
    BY QuietBook DEF Holders
<1>8. /\ v.accountTokens = [t.accountTokens EXCEPT ![a] = t.accountTokens[a] + tokens]
      /\ SameDebts(t, v)
    BY <1>7 DEF MintFresh, SameDebts, Books
<1>9. OnlyWritten(m, v)
    BY <1>1, <1>4, <1>6 DEF OnlyWritten
<1>10. t.accountTokens \in [Holders -> Nat]
    BY <1>7 DEF Books
<1> HIDE DEF v, tokens
<1>11. t.accountTokens[b] <= v.accountTokens[b]
    BY <1>5, <1>7, <1>8, <1>10
<1>12. BorrowBalance(v, b) <= BorrowBalance(t, b)
    <2>1. BorrowBalance(t, b) \in Nat
        BY <1>7, QuietBook
    <2>2. QED
        BY <1>8, <2>1, SameDebtsBalance
<1>13. QED
    BY <1>9, <1>11, <1>12, BetterInOne

\* Only one account has less, and it was covered for that.
LEMMA LessInOne ==
    ASSUME Quiet, NEW m \in Markets, NEW u, OnlyWritten(m, u), NEW a \in Users, NEW n \in Nat,
           n <= rToken[m].accountTokens[a], u.accountTokens[a] = rToken[m].accountTokens[a] - n,
           BorrowBalance(u, a) = BorrowBalance(rToken[m], a), RedeemAllowed(rToken, m, a, n)
    PROVE  ShortfallKept(a)
<1>1. m \in Assets /\ Covered(rToken, a, m, n, 0)
    BY DEF RedeemAllowed, Assets
<1>2. a \in Holders /\ TypeOK
    BY DEF Holders, Quiet, IInv
<1>3. OwesNoMore(rToken, rToken', a, m)
    BY <1>2, OtherBooks, QuietBook DEF OwesNoMore
<1>4. \A k \in Assets : OwesNoMore(rToken, rToken', a, k)
    BY <1>3, OtherBooks
<1>5. rToken'[m].accountTokens[a] = rToken[m].accountTokens[a] - n
    BY OtherBooks
<1>6. AllGood(rToken) /\ AllGood(rToken') /\ RatesUp(rToken, rToken', a)
    BY <1>2, QuietBooks
<1>7. \A k \in Assets \ {m} : HasNoLess(rToken, rToken', a, k)
    BY OtherBooks
<1>8. Shortfall(rToken', a) <= 1
    BY <1>1, <1>2, <1>4, <1>5, <1>6, <1>7, LessTokens
<1>9. QED
    BY <1>8, QuietUnit

LEMMA RedeemQuiet ==
    ASSUME Quiet, NEW m \in Markets, NEW a \in Users, NEW n \in Nat, Redeem(m, a, n), NEW b \in Users
    PROVE  ShortfallKept(b)
<1> DEFINE R == AccruedIn({m})
           u == RedeemFresh(R[m], a, n, RateIn(R, m))
           t == rToken[m]
           v == RedeemFresh(t, a, n, RateIn(rToken, m))
<1>1. CanAccrueIn({m}) /\ rToken' = [R EXCEPT ![m] = u]
    BY DEF Redeem, CanRedeem, Write
<1>2. R[m] \in Books
    BY <1>1, AccruedBook DEF Quiet
<1>3. u.accrualBlockNumber = R[m].accrualBlockNumber
    BY <1>2 DEF RedeemFresh, Books
<1>4. R = rToken
    BY <1>1, <1>3, NothingAccrued
<1>5. u = v /\ n <= t.accountTokens[a] /\ RedeemAllowed(rToken, m, a, n)
    BY <1>4 DEF Redeem, CanRedeem
<1> HIDE DEF R, u
<1>6. t \in Books /\ a \in Holders /\ b \in Holders
    BY QuietBook DEF Holders
<1>7. /\ v.accountTokens = [t.accountTokens EXCEPT ![a] = t.accountTokens[a] - n]
      /\ SameDebts(t, v)
    BY <1>6 DEF RedeemFresh, SameDebts, Books
<1>8. OnlyWritten(m, v)
    BY <1>1, <1>4, <1>5 DEF OnlyWritten
<1>9. t.accountTokens \in [Holders -> Nat]
    BY <1>6 DEF Books
<1> HIDE DEF v
<1>10. BorrowBalance(v, b) = BorrowBalance(t, b)
    BY <1>7, SameDebtsBalance
<1>11. CASE b = a
    <2>1. v.accountTokens[a] = t.accountTokens[a] - n
        BY <1>6, <1>7, <1>9
    <2>2. QED
        BY <1>5, <1>8, <1>10, <1>11, <2>1, LessInOne
<1>12. CASE b # a
    <2>1. SameFor(t, v, b)
        BY <1>6, <1>7, <1>9, <1>10, <1>12 DEF SameFor
    <2>2. QED
        BY <1>8, <2>1, SameInOne
<1>13. QED
    BY <1>11, <1>12

LEMMA BorrowQuiet ==
    ASSUME Quiet, NEW m \in Markets, NEW a \in Users, NEW n \in Nat, Borrow(m, a, n), NEW b \in Users
    PROVE  ShortfallKept(b)
<1> DEFINE R == AccruedIn({m})
           u == BorrowFresh(R[m], a, n)
           t == rToken[m]
           v == BorrowFresh(t, a, n)
<1>1. CanAccrueIn({m}) /\ rToken' = [R EXCEPT ![m] = u]
    BY DEF Borrow, Write
<1>2. R[m] \in Books /\ a \in Holders /\ b \in Holders
    BY <1>1, AccruedBook DEF Quiet, Holders
<1>3. u.accrualBlockNumber = R[m].accrualBlockNumber
    BY <1>2 DEF BorrowFresh, SetDebt, Books
<1>4. R = rToken
    BY <1>1, <1>3, NothingAccrued
<1>5. u = v /\ BorrowAllowed(rToken, m, a, n)
    BY <1>4 DEF Borrow
<1>6. t \in Books /\ BorrowBalance(t, a) \in Nat /\ BorrowBalance(t, b) \in Nat
    BY <1>2, QuietBook
<1>7. BorrowBalance(t, a) + n \in Nat
    BY <1>6
<1>8. /\ v.accountTokens = t.accountTokens
      /\ BorrowBalance(v, a) = BorrowBalance(t, a) + n
      /\ \A k \in Holders \ {a} : BorrowBalance(v, k) = BorrowBalance(t, k)
    <2> DEFINE debt == BorrowBalance(t, a) + n
    <2>1. /\ v.accountTokens = t.accountTokens
          /\ v.principal = [t.principal EXCEPT ![a] = debt]
          /\ v.interestIndex = [t.interestIndex EXCEPT ![a] = t.borrowIndex]
          /\ v.borrowIndex = t.borrowIndex
        BY <1>6 DEF BorrowFresh, SetDebt, Books
    <2>2. debt \in Nat
        BY <1>7
    <2> HIDE DEF debt, v
    <2>3. BorrowBalance(v, a) = debt /\ \A k \in Holders \ {a} : BorrowBalance(v, k) = BorrowBalance(t, k)
        BY <1>2, <1>6, <2>1, <2>2, SetDebtBalance
    <2>4. QED
        BY <2>1, <2>3 DEF debt
<1>9. OnlyWritten(m, v)
    BY <1>1, <1>4, <1>5 DEF OnlyWritten
<1> HIDE DEF R, u, v
<1>10. CASE b = a
    <2>1. m \in Assets /\ Covered(rToken, a, m, 0, n)
        BY <1>5 DEF BorrowAllowed, Assets
    <2>2. rToken'[m] = v
        BY <1>9, OtherBooks
    <2>3. BorrowBalance(rToken'[m], a) <= BorrowBalance(rToken[m], a) + n
        BY <1>7, <1>8, <2>2
    <2>4. HasNoLess(rToken, rToken', a, m)
        BY <1>2, <1>8, <2>2, QuietBook DEF HasNoLess
    <2>5. \A k \in Assets : HasNoLess(rToken, rToken', a, k)
        BY <1>9, <2>4, OtherBooks
    <2>6. \A k \in Assets \ {m} : OwesNoMore(rToken, rToken', a, k)
        BY <1>9, OtherBooks
    <2>7. TypeOK /\ AllGood(rToken) /\ AllGood(rToken') /\ RatesUp(rToken, rToken', a)
        BY <1>2, QuietBooks DEF Quiet, IInv
    <2>8. Shortfall(rToken', a) <= 1
        BY <1>2, <2>1, <2>3, <2>5, <2>6, <2>7, MoreDebt
    <2>9. QED
        BY <1>10, <2>8, QuietUnit
<1>11. CASE b # a
    BY <1>2, <1>8, <1>9, <1>11, SameInOne DEF SameFor
<1>12. QED
    BY <1>10, <1>11

\* What repaying does to the books.
LEMMA RepaidBook ==
    ASSUME NEW t \in Books, NEW a \in Holders, NEW n \in Nat, CanRepay(t, a, n),
           BorrowBalance(t, a) \in Nat
    PROVE  LET u == RepayBorrowFresh(t, a, n)
           IN  /\ u.accountTokens = t.accountTokens /\ u.accrualBlockNumber = t.accrualBlockNumber
               /\ n <= BorrowBalance(t, a) /\ BorrowBalance(u, a) = BorrowBalance(t, a) - n
               /\ \A k \in Holders \ {a} : BorrowBalance(u, k) = BorrowBalance(t, k)
<1> DEFINE debt == BorrowBalance(t, a) - n
           u == RepayBorrowFresh(t, a, n)
<1>1. debt \in Nat /\ n <= BorrowBalance(t, a)
    BY DEF CanRepay
<1>2. /\ u.accountTokens = t.accountTokens /\ u.accrualBlockNumber = t.accrualBlockNumber
      /\ u.principal = [t.principal EXCEPT ![a] = debt]
      /\ u.interestIndex = [t.interestIndex EXCEPT ![a] = t.borrowIndex]
      /\ u.borrowIndex = t.borrowIndex
    BY DEF RepayBorrowFresh, SetDebt, Books
<1> HIDE DEF debt, u
<1>3. /\ BorrowBalance(u, a) = debt
      /\ \A k \in Holders \ {a} : BorrowBalance(u, k) = BorrowBalance(t, k)
    BY <1>1, <1>2, SetDebtBalance
<1>4. QED
    BY <1>1, <1>2, <1>3 DEF u, debt

LEMMA RepayQuiet ==
    ASSUME Quiet, NEW m \in Markets, NEW a \in Users, NEW n \in Nat, RepayBorrow(m, a, n), NEW b \in Users
    PROVE  ShortfallKept(b)
<1> DEFINE R == AccruedIn({m})
           u == RepayBorrowFresh(R[m], a, n)
           t == rToken[m]
           v == RepayBorrowFresh(t, a, n)
<1>1. CanAccrueIn({m}) /\ rToken' = [R EXCEPT ![m] = u] /\ CanRepay(R[m], a, n)
    BY DEF RepayBorrow, Write
<1>2. R[m] \in Books /\ a \in Holders /\ b \in Holders
    BY <1>1, AccruedBook DEF Quiet, Holders
<1>3. u.accrualBlockNumber = R[m].accrualBlockNumber
    BY <1>2 DEF RepayBorrowFresh, SetDebt, Books
<1>4. R = rToken
    BY <1>1, <1>3, NothingAccrued
<1>5. u = v /\ CanRepay(t, a, n)
    BY <1>1, <1>4
<1>6. t \in Books /\ BorrowBalance(t, a) \in Nat /\ BorrowBalance(t, b) \in Nat /\ t.accountTokens[b] \in Nat
    BY <1>2, QuietBook
<1>7. /\ v.accountTokens = t.accountTokens
      /\ BorrowBalance(v, a) = BorrowBalance(t, a) - n
      /\ \A k \in Holders \ {a} : BorrowBalance(v, k) = BorrowBalance(t, k)
    BY <1>2, <1>5, <1>6, RepaidBook
<1>8. OnlyWritten(m, v)
    BY <1>1, <1>4, <1>5 DEF OnlyWritten
<1> HIDE DEF R, u, v
<1>9. BorrowBalance(v, b) <= BorrowBalance(t, b) /\ t.accountTokens[b] <= v.accountTokens[b]
    BY <1>2, <1>6, <1>7
<1>10. QED
    BY <1>8, <1>9, BetterInOne

LEMMA RepayAllQuiet ==
    ASSUME Quiet, NEW m \in Markets, NEW a \in Users, RepayAll(m, a), NEW b \in Users
    PROVE  ShortfallKept(b)
<1> DEFINE R == AccruedIn({m})
<1>1. CanAccrueIn({m})
    BY DEF RepayAll, RepayBorrow
<1>2. TypeOK /\ IInv /\ a \in Holders
    BY DEF Quiet, IInv, Holders
<1>3. AllGood(R)
    BY <1>1, <1>2, AccruedGood
<1>4. BorrowBalance(R[m], a) \in Nat
    BY <1>2, <1>3, MarketTypes
<1>5. QED
    BY <1>4, RepayQuiet DEF RepayAll

LEMMA TransferQuiet ==
    ASSUME Quiet, NEW m \in Markets, NEW spender \in Users, NEW src \in Users, NEW dst \in Holders,
           NEW n \in Nat, TransferTokens(m, spender, src, dst, n), NEW b \in Users
    PROVE  ShortfallKept(b)
<1> DEFINE t == rToken[m]
           s == Spend(t, spender, src, n)
           v == MoveTokens(s, src, dst, n)
<1>1. /\ src # dst /\ n <= t.accountTokens[src] /\ RedeemAllowed(rToken, m, src, n)
      /\ rToken' = [rToken EXCEPT ![m] = v]
    BY DEF TransferTokens, Write
<1>2. t \in Books /\ src \in Holders /\ b \in Holders
    BY QuietBook DEF Holders
<1>3. /\ s.accountTokens = t.accountTokens /\ SameDebts(t, s)
      /\ v.accountTokens = [s.accountTokens EXCEPT ![src] = @ - n, ![dst] = @ + n] /\ SameDebts(s, v)
    <2>1. /\ s.accountTokens = t.accountTokens /\ SameDebts(t, s)
          /\ s = [s EXCEPT !.allowances = s.allowances] /\ "accountTokens" \in DOMAIN s
          /\ {"principal", "interestIndex", "borrowIndex"} \subseteq DOMAIN s
        <3>1. CASE s = t
            BY <1>2, <3>1 DEF SameDebts, Books
        <3>2. CASE s = [t EXCEPT !.allowances[src][spender] = @ - n]
            <4> DEFINE f == [t.allowances EXCEPT ![src][spender] = @ - n]
            <4>1. s = [t EXCEPT !.allowances = f]
                BY <3>2
            <4> HIDE DEF f, s
            <4>2. QED
                BY <1>2, <4>1 DEF SameDebts, Books
        <3>3. QED
            BY <3>1, <3>2 DEF Spend
    <2> HIDE DEF s
    <2>2. QED
        BY <2>1 DEF MoveTokens, SameDebts
<1>4. OnlyWritten(m, v)
    BY <1>1 DEF OnlyWritten
<1>5. t.accountTokens \in [Holders -> Nat] /\ t.accountTokens[b] \in Nat /\ BorrowBalance(t, b) \in Nat
    BY <1>2, QuietBook DEF Books
<1> HIDE DEF v, s
<1>6. BorrowBalance(v, b) = BorrowBalance(t, b)
    BY <1>3, SameDebtsBalance
<1>7. CASE b = src
    <2>1. v.accountTokens[src] = t.accountTokens[src] - n
        BY <1>1, <1>2, <1>3, <1>5
    <2>2. QED
        BY <1>1, <1>4, <1>6, <1>7, <2>1, LessInOne
<1>8. CASE b # src
    <2>1. t.accountTokens[b] <= v.accountTokens[b]
        BY <1>1, <1>2, <1>3, <1>5, <1>8
    <2>2. BorrowBalance(v, b) <= BorrowBalance(t, b)
        BY <1>5, <1>6
    <2>3. QED
        BY <1>4, <2>1, <2>2, BetterInOne
<1>9. QED
    BY <1>7, <1>8

\* What leaves tokens and debts alone.
LEMMA AsideQuiet ==
    ASSUME Quiet, NEW m \in Markets, NEW u, OnlyWritten(m, u), SameDebts(rToken[m], u), NEW b \in Users,
           u.accountTokens[b] = rToken[m].accountTokens[b]
    PROVE  ShortfallKept(b)
BY SameDebtsBalance, SameInOne DEF SameFor

LEMMA ApproveQuiet ==
    ASSUME Quiet, NEW m \in Markets, NEW src, NEW spender, NEW n,
           Approve(m, src, spender, n), NEW b \in Users
    PROVE  ShortfallKept(b)
<1> DEFINE t == rToken[m]
           f == [t.allowances EXCEPT ![src][spender] = n]
           u == [t EXCEPT !.allowances = f]
<1>1. OnlyWritten(m, u)
    BY DEF Approve, Write, OnlyWritten
<1>2. t \in Books
    BY QuietBook
<1> HIDE DEF f
<1>3. u.accountTokens = t.accountTokens /\ SameDebts(t, u)
    BY <1>2 DEF SameDebts, Books
<1> HIDE DEF u
<1>4. QED
    BY <1>1, <1>3, AsideQuiet

LEMMA DonateQuiet ==
    ASSUME Quiet, NEW m \in Markets, NEW n, Donate(m, n), NEW b \in Users
    PROVE  ShortfallKept(b)
<1> DEFINE t == rToken[m]
           u == [t EXCEPT !.cash = @ + n]
<1>1. OnlyWritten(m, u)
    BY DEF Donate, Write, OnlyWritten
<1>2. t \in Books
    BY QuietBook
<1>3. u.accountTokens = t.accountTokens /\ SameDebts(t, u)
    BY <1>2 DEF SameDebts, Books
<1> HIDE DEF u
<1>4. QED
    BY <1>1, <1>3, AsideQuiet

LEMMA AddReservesQuiet ==
    ASSUME Quiet, NEW m \in Markets, NEW n, AddReserves(m, n), NEW b \in Users
    PROVE  ShortfallKept(b)
<1> DEFINE R == AccruedIn({m})
           t == rToken[m]
           u == AddToReserves(R[m], n)
           v == AddToReserves(t, n)
<1>1. CanAccrueIn({m}) /\ rToken' = [R EXCEPT ![m] = u]
    BY DEF AddReserves, Write
<1>2. R[m] \in Books /\ t \in Books
    BY <1>1, AccruedBook, QuietBook DEF Quiet
<1>3. u.accrualBlockNumber = R[m].accrualBlockNumber
    BY <1>2 DEF AddToReserves, Books
<1>4. R = rToken
    BY <1>1, <1>3, NothingAccrued
<1>5. u = v
    BY <1>4
<1> HIDE DEF R, u
<1>6. v.accountTokens = t.accountTokens /\ SameDebts(t, v)
    BY <1>2 DEF AddToReserves, SameDebts, Books
<1>7. OnlyWritten(m, v)
    BY <1>1, <1>4, <1>5 DEF OnlyWritten
<1> HIDE DEF v
<1>8. QED
    BY <1>6, <1>7, AsideQuiet

LEMMA UnmovedQuiet ==
    ASSUME Quiet, rToken' = rToken, NEW b \in Users
    PROVE  ShortfallKept(b)
BY QuietShortfall DEF ShortfallKept

LEMMA AccrueInterestQuiet ==
    ASSUME Quiet, NEW m \in Markets, AccrueInterest(m), NEW b \in Users
    PROVE  ShortfallKept(b)
<1> DEFINE M == {m}
<1>1. rToken' = AccruedIn(M) /\ TypeOK /\ M \in SUBSET Markets
    BY DEF AccrueInterest, Write, Quiet, IInv
<1>2. \A k \in M : AccruedIn(M)[k].accrualBlockNumber = rToken[k].accrualBlockNumber
    BY <1>1 DEF Quiet, StillMarkets
<1> HIDE DEF M
<1>3. rToken' = rToken
    BY <1>1, <1>2, AlreadyAccrued
<1>4. QED
    BY <1>3, UnmovedQuiet

\* The system's own supply is not a user's.
LEMMA SystemWritten ==
    ASSUME Quiet, NEW m \in Markets, CanAccrueIn({m}), NEW d, NEW e, NEW f, NEW b \in Users,
           rToken' = [AccruedIn({m}) EXCEPT ![m] =
                        [AccruedIn({m})[m] EXCEPT !.cash = d, !.totalSupply = e, !.accountTokens = f]],
           \A a \in Holders \ {System} : f[a] = AccruedIn({m})[m].accountTokens[a]
    PROVE  ShortfallKept(b)
<1> DEFINE R == AccruedIn({m})
           t == rToken[m]
           u == [R[m] EXCEPT !.cash = d, !.totalSupply = e, !.accountTokens = f]
           v == [t EXCEPT !.cash = d, !.totalSupply = e, !.accountTokens = f]
<1>1. R[m] \in Books /\ t \in Books
    BY AccruedBook, QuietBook DEF Quiet
<1>2. u.accrualBlockNumber = R[m].accrualBlockNumber /\ rToken' = [R EXCEPT ![m] = u]
    BY <1>1 DEF Books
<1>3. R = rToken
    BY <1>2, NothingAccrued
<1>4. u = v /\ \A a \in Holders \ {System} : f[a] = t.accountTokens[a]
    BY <1>3
<1> HIDE DEF R, u
<1>5. v.accountTokens = f /\ SameDebts(t, v)
    BY <1>1 DEF SameDebts, Books
<1>6. OnlyWritten(m, v)
    BY <1>2, <1>3, <1>4 DEF OnlyWritten
<1>7. b \in Holders \ {System}
    BY RTokenAssumption DEF Holders
<1> HIDE DEF v
<1>8. QED
    BY <1>4, <1>5, <1>6, <1>7, AsideQuiet

LEMMA SystemQuiet ==
    ASSUME Quiet, NEW n, IncreaseSystemSupply(n) \/ ReduceSystemSupply(n), NEW b \in Users
    PROVE  ShortfallKept(b)
<1> DEFINE m == SystemMarket
           R == AccruedIn({m})
<1>1. m \in Markets /\ CanAccrueIn({m})
    BY LendingAssumption DEF IncreaseSystemSupply, ReduceSystemSupply
<1>2. R[m].accountTokens \in [Holders -> Nat]
    BY <1>1, AccruedBook DEF Quiet, Books
<1>3. CASE IncreaseSystemSupply(n)
    <2> DEFINE d == R[m].cash + n
               e == R[m].totalSupply + n
               f == [R[m].accountTokens EXCEPT ![System] = @ + n]
    <2>1. rToken' = [R EXCEPT ![m] = [R[m] EXCEPT !.cash = d, !.totalSupply = e, !.accountTokens = f]]
        BY <1>3 DEF IncreaseSystemSupply, IncreaseSystem, Write
    <2>2. \A a \in Holders \ {System} : f[a] = R[m].accountTokens[a]
        BY <1>2
    <2> HIDE DEF d, e, f, m
    <2>3. QED
        BY <1>1, <2>1, <2>2, SystemWritten
<1>4. CASE ReduceSystemSupply(n)
    <2> DEFINE d == R[m].cash - n
               e == R[m].totalSupply - n
               f == [R[m].accountTokens EXCEPT ![System] = @ - n]
    <2>1. rToken' = [R EXCEPT ![m] = [R[m] EXCEPT !.cash = d, !.totalSupply = e, !.accountTokens = f]]
        BY <1>4 DEF ReduceSystemSupply, ReduceSystem, Write
    <2>2. \A a \in Holders \ {System} : f[a] = R[m].accountTokens[a]
        BY <1>2
    <2> HIDE DEF d, e, f, m
    <2>3. QED
        BY <1>1, <2>1, <2>2, SystemWritten
<1>5. QED
    BY <1>3, <1>4

\* What a liquidation does to the books: the debt of the borrower falls by what is
\* repaid, and the liquidator gets the borrower's tokens, at the rate of before.
Seized(m, c, n) == SeizeTokens(rToken, m, c, n)

LiquidatedDebts(m, borrower, n) ==
    /\ n <= BorrowBalance(rToken[m], borrower)
    /\ BorrowBalance(rToken'[m], borrower) = BorrowBalance(rToken[m], borrower) - n
    /\ \A k \in Markets, a \in Holders :
            k # m \/ a # borrower => BorrowBalance(rToken'[k], a) = BorrowBalance(rToken[k], a)

LiquidatedTokens(c, liquidator, borrower, tokens) ==
    /\ tokens \in Nat /\ tokens <= rToken[c].accountTokens[borrower]
    /\ rToken'[c].accountTokens
            = [rToken[c].accountTokens EXCEPT ![borrower] = @ - tokens, ![liquidator] = @ + tokens]
    /\ \A k \in Markets \ {c} : rToken'[k].accountTokens = rToken[k].accountTokens

\* Repaying moves what suppliers own from borrows to cash.
LEMMA RepaidRate ==
    ASSUME NEW t \in Books, NEW a \in Holders, NEW n \in Nat, NEW i
    PROVE  ExchangeRate(RepayBorrowFresh(t, a, n), i) = ExchangeRate(t, i)
<1> DEFINE u == RepayBorrowFresh(t, a, n)
<1>1. /\ t.cash \in Nat /\ t.totalBorrows \in Nat /\ t.totalReserves \in Nat
      /\ u.totalSupply = t.totalSupply /\ u.totalReserves = t.totalReserves
      /\ u.cash = t.cash + n /\ u.totalBorrows = t.totalBorrows - n
    BY DEF RepayBorrowFresh, SetDebt, Books
<1> HIDE DEF u
<1>2. SupplierAssets(u) = SupplierAssets(t)
    BY <1>1 DEF SupplierAssets
<1>3. QED
    BY <1>1, <1>2 DEF ExchangeRate, u

LEMMA LiquidatedBooks ==
    ASSUME Quiet, NEW m \in Markets, NEW c \in Markets, NEW liquidator \in Users,
           NEW borrower \in Users, NEW n \in Nat, LiquidateBorrow(m, c, liquidator, borrower, n)
    PROVE  /\ borrower # liquidator /\ m \in Assets /\ c \in Assets
           /\ CanCalculateSeize(rToken, m, c)
           /\ LiquidatedDebts(m, borrower, n)
           /\ LiquidatedTokens(c, liquidator, borrower, Seized(m, c, n))
<1> DEFINE M == {m, c}
           R == AccruedIn(M)
           v == RepayBorrowFresh(R[m], borrower, n)
           repaid == [R EXCEPT ![m] = v]
           tokens == SeizeTokens(repaid, m, c, n)
           w == MoveTokens(repaid[c], borrower, liquidator, tokens)
<1>1. /\ borrower # liquidator /\ CanAccrueIn(M) /\ CanRepay(R[m], borrower, n)
      /\ CanCalculateSeize(repaid, m, c) /\ tokens <= repaid[c].accountTokens[borrower]
      /\ rToken' = [repaid EXCEPT ![c] = w]
      /\ m \in Assets /\ c \in Assets
    BY DEF LiquidateBorrow, SeizeAllowed, Assets
<1>2. /\ M \in SUBSET Markets /\ DOMAIN R = Markets /\ IInv /\ TypeOK
      /\ borrower \in Holders /\ liquidator \in Holders
    BY DEF AccruedIn, Holders, Quiet, IInv
<1>3. \A k \in Markets : R[k] \in Books
    <2> HIDE DEF M
    <2>1. \A k \in Markets : Good(R[k], InitialRate[k], block)
        BY <1>1, <1>2, AccruedBoth
    <2>2. QED
        BY <2>1 DEF Good, Sound
<1>4. /\ rToken'[c] = w
      /\ \A k \in Markets \ {c} : rToken'[k] = repaid[k]
      /\ repaid[m] = v /\ \A k \in Markets \ {m} : repaid[k] = R[k]
    BY <1>1, <1>2
<1>5. /\ v.accrualBlockNumber = R[m].accrualBlockNumber
      /\ {"accountTokens", "accrualBlockNumber", "principal", "interestIndex", "borrowIndex"} \subseteq DOMAIN v
    BY <1>3 DEF RepayBorrowFresh, SetDebt, Books
<1>6. {"accountTokens", "accrualBlockNumber", "principal", "interestIndex", "borrowIndex"}
        \subseteq DOMAIN repaid[c]
    <2>1. CASE c = m
        BY <1>4, <1>5, <2>1
    <2>2. CASE c # m
        BY <1>3, <1>4, <2>2 DEF Books
    <2>3. QED
        BY <2>1, <2>2
<1> HIDE DEF v, repaid, tokens
<1>7. /\ w.accrualBlockNumber = repaid[c].accrualBlockNumber
      /\ SameDebts(repaid[c], w)
      /\ w.accountTokens
            = [repaid[c].accountTokens EXCEPT ![borrower] = @ - tokens, ![liquidator] = @ + tokens]
    BY <1>6 DEF MoveTokens, SameDebts
<1> HIDE DEF w
<1>8. R = rToken
    <2>1. \A k \in M : R[k].accrualBlockNumber = rToken'[k].accrualBlockNumber
        BY <1>4, <1>5, <1>7
    <2>2. \A k \in M : R[k].accrualBlockNumber = rToken[k].accrualBlockNumber
        BY <1>2, <2>1 DEF Quiet, StillMarkets
    <2> HIDE DEF M
    <2>3. QED
        BY <1>2, <2>2, AlreadyAccrued
<1> HIDE DEF R, M
<1>9. rToken[m] \in Books /\ v = RepayBorrowFresh(rToken[m], borrower, n)
    BY <1>8, QuietBook DEF v
<1>10. /\ v.accountTokens = rToken[m].accountTokens
       /\ n <= BorrowBalance(rToken[m], borrower)
       /\ BorrowBalance(v, borrower) = BorrowBalance(rToken[m], borrower) - n
       /\ \A k \in Holders \ {borrower} : BorrowBalance(v, k) = BorrowBalance(rToken[m], k)
    <2>1. BorrowBalance(rToken[m], borrower) \in Nat
        BY <1>2, QuietBook
    <2>2. QED
        BY <1>1, <1>2, <1>8, <1>9, <2>1, RepaidBook
<1>11. \A k \in Markets : repaid[k].accountTokens = rToken[k].accountTokens
    BY <1>4, <1>8, <1>10
<1>12. \A k \in Markets, a \in Holders : BorrowBalance(rToken'[k], a) = BorrowBalance(repaid[k], a)
    <2>1. \A a \in Holders : BorrowBalance(w, a) = BorrowBalance(repaid[c], a)
        BY <1>7, SameDebtsBalance
    <2>2. QED
        BY <1>4, <2>1
<1>13. LiquidatedDebts(m, borrower, n)
    <2>1. \A k \in Markets, a \in Holders : k # m \/ a # borrower
            => BorrowBalance(repaid[k], a) = BorrowBalance(rToken[k], a)
        BY <1>4, <1>8, <1>10
    <2>2. QED
        BY <1>4, <1>2, <1>10, <1>12, <2>1 DEF LiquidatedDebts
<1>14. RateIn(repaid, c) = RateIn(rToken, c)
    <2>1. CASE c # m
        BY <1>4, <1>8, <2>1 DEF RateIn
    <2>2. CASE c = m
        BY <1>2, <1>4, <1>9, <2>2, RepaidRate DEF RateIn
    <2>3. QED
        BY <2>1, <2>2
<1>15. tokens = Seized(m, c, n) /\ CanCalculateSeize(rToken, m, c)
    BY <1>1, <1>14 DEF tokens, Seized, SeizeTokens, CanCalculateSeize, SeizeDenominator
<1>16. tokens \in Nat
    <2>1. RateIn(rToken, c) \in Nat
        BY QuietBook
    <2>2. QED
        BY <1>2, <1>15, <2>1, SeizeTokensType DEF Seized
<1>17. LiquidatedTokens(c, liquidator, borrower, tokens)
    BY <1>1, <1>4, <1>7, <1>11, <1>16 DEF LiquidatedTokens
<1>18. QED
    BY <1>1, <1>13, <1>15, <1>17

\* A liquidation leaves everybody but the borrower as well off.
LEMMA LiquidateQuiet ==
    ASSUME Quiet, NEW m \in Markets, NEW c \in Markets, NEW liquidator \in Users,
           NEW borrower \in Users, NEW n \in Nat,
           LiquidateBorrow(m, c, liquidator, borrower, n), NEW b \in Users, b # borrower
    PROVE  ShortfallKept(b)
<1> DEFINE tokens == Seized(m, c, n)
<1>1. /\ LiquidatedDebts(m, borrower, n) /\ LiquidatedTokens(c, liquidator, borrower, tokens)
      /\ b \in Holders /\ liquidator \in Holders /\ borrower \in Holders
    BY LiquidatedBooks DEF Holders
<1> HIDE DEF tokens
<1>2. ASSUME NEW k \in Assets
      PROVE  OwesNoMore(rToken, rToken', b, k) /\ HasNoLess(rToken, rToken', b, k)
    <2>1. k \in Markets
        BY DEF Assets
    <2>2. /\ BorrowBalance(rToken[k], b) \in Nat /\ rToken[k].accountTokens[b] \in Nat
          /\ rToken[k].accountTokens \in [Holders -> Nat]
        BY <1>1, <2>1, QuietBook DEF Books
    <2>3. OwesNoMore(rToken, rToken', b, k)
        BY <1>1, <2>1, <2>2 DEF OwesNoMore, LiquidatedDebts
    <2>4. HasNoLess(rToken, rToken', b, k)
        <3>1. CASE k # c
            BY <1>1, <2>1, <2>2, <3>1 DEF HasNoLess, LiquidatedTokens
        <3>2. CASE k = c
            BY <1>1, <2>2, <3>2 DEF HasNoLess, LiquidatedTokens
        <3>3. QED
            BY <3>1, <3>2
    <2>5. QED
        BY <2>3, <2>4
<1>3. QED
    BY <1>2, QuietBetter

\* What is seized for n of a debt is lent against for no more than the debt is
\* worth, when that is so of each unit.
LEMMA SeizedWorth ==
    ASSUME NEW d \in Nat, NEW num \in Nat, NEW p \in Nat, NEW denom \in Nat \ {0}, NEW n \in Nat,
           d * num <= p * denom
    PROVE  MulScalarTruncate(d, MulScalarTruncate(GetExp(num, denom), n)) <= MulScalarTruncate(p, n)
<1> DEFINE q == GetExp(num, denom)
           k == MulScalarTruncate(q, n)
<1>1. q \in Nat /\ q * denom <= num * Scale
    BY ProductType, QuotientType DEF GetExp
<1> HIDE DEF q
<1>2. k \in Nat /\ k * Scale <= q * n
    BY <1>1, TruncateType
<1> HIDE DEF k
<1>3. k * denom <= num * n
    <2>1. (k * Scale) * denom <= (q * n) * denom
        BY <1>1, <1>2, ProductType, ProductMonotone
    <2>2. (q * denom) * n <= (num * Scale) * n
        BY <1>1, ProductType, ProductMonotone
    <2>3. (q * n) * denom = (q * denom) * n
        BY <1>1
    <2>4. (k * Scale) * denom = (k * denom) * Scale /\ (num * Scale) * n = (num * n) * Scale
        BY <1>2
    <2>5. k * denom \in Nat /\ num * n \in Nat
        BY <1>2, ProductType
    <2> DEFINE x == k * denom
               y == num * n
               z == (q * denom) * n
    <2>6. z \in Nat
        BY <1>1, ProductType
    <2>7. x * Scale <= z /\ z <= y * Scale
        BY <2>1, <2>2, <2>3, <2>4
    <2>8. x \in Nat /\ y \in Nat /\ x * Scale \in Nat /\ y * Scale \in Nat
        BY <2>5, ProductType
    <2> HIDE DEF x, y, z
    <2>9. x * Scale <= y * Scale
        BY <2>6, <2>7, <2>8
    <2>10. x <= y
        BY <2>8, <2>9, Cancel
    <2>11. QED
        BY <2>10 DEF x, y
<1>4. d * k <= p * n
    <2>1. d * (k * denom) <= d * (num * n)
        BY <1>2, <1>3, ProductType, ProductMonotone
    <2>2. (d * num) * n <= (p * denom) * n
        BY ProductType, ProductMonotone
    <2>3. d * (num * n) = (d * num) * n
        OBVIOUS
    <2>4. d * (k * denom) = (d * k) * denom /\ (p * denom) * n = (p * n) * denom
        BY <1>2
    <2> DEFINE x == d * k
               y == p * n
               z == (d * num) * n
    <2>5. z \in Nat /\ x \in Nat /\ y \in Nat
        BY <1>2, ProductType
    <2>6. x * denom <= z /\ z <= y * denom
        BY <2>1, <2>2, <2>3, <2>4
    <2>7. x * denom \in Nat /\ y * denom \in Nat
        BY <2>5, ProductType
    <2> HIDE DEF x, y, z
    <2>8. x * denom <= y * denom
        BY <2>5, <2>6, <2>7
    <2>9. x <= y
        BY <2>5, <2>8, Cancel
    <2>10. QED
        BY <2>9 DEF x, y
<1>5. d * k \in Nat /\ p * n \in Nat
    BY <1>2, ProductType
<1>6. QED
    BY <1>4, <1>5, QuotientMonotone DEF MulScalarTruncate, Truncate, k, q

\* Nor is the borrower worse off, but for one unit, while the margin is kept.
LEMMA SeizeQuiet ==
    ASSUME Quiet, NEW m \in Markets, NEW c \in Markets, NEW liquidator \in Users,
           NEW borrower \in Users, NEW n \in Nat,
           LiquidateBorrow(m, c, liquidator, borrower, n), MarginKept(m, c)
    PROVE  ShortfallKept(borrower)
<1> DEFINE a == borrower
           k == Seized(m, c, n)
           denom == TokensToDenom(rToken, c)
           left == rToken'[c].accountTokens[a]
           owed == BorrowBalance(rToken'[m], a)
           lost == MulScalarTruncate(denom, k)
           paid == MulScalarTruncate(price[m], n)
<1>1. /\ LiquidatedDebts(m, a, n) /\ LiquidatedTokens(c, liquidator, a, k)
      /\ CanCalculateSeize(rToken, m, c) /\ m \in Assets /\ c \in Assets /\ a # liquidator
    BY LiquidatedBooks
<1>2. /\ a \in Holders /\ TypeOK /\ AllGood(rToken) /\ AllGood(rToken')
      /\ RatesUp(rToken, rToken', a)
    BY QuietBooks DEF Holders, Quiet, IInv
<1>3. /\ denom \in Nat /\ price[m] \in Nat /\ price[c] \in Nat /\ left \in Nat /\ owed \in Nat
      /\ rToken[c].accountTokens[a] \in Nat /\ BorrowBalance(rToken[m], a) \in Nat
      /\ rToken[c].accountTokens \in [Holders -> Nat]
    BY <1>2, MarketTypes DEF Books
<1>4. k \in Nat /\ rToken[c].accountTokens[a] = left + k
    BY <1>1, <1>2, <1>3 DEF LiquidatedTokens
<1>5. BorrowBalance(rToken[m], a) = owed + n
    BY <1>1, <1>3 DEF LiquidatedDebts
<1>6. lost <= paid /\ lost \in Nat /\ paid \in Nat
    <2>1. liquidationIncentive \in Nat /\ RateIn(rToken, c) \in Nat
        BY <1>2, QuietBook DEF TypeOK
    <2>2. SeizeNumerator(m) \in Nat
        BY <1>3, <2>1, MulExpType DEF SeizeNumerator
    <2>3. SeizeDenominator(rToken, c) \in Nat
        BY <1>3, <2>1, MulExpType DEF SeizeDenominator
    <2>4. SeizeDenominator(rToken, c) \in Nat \ {0}
        BY <1>1, <2>3 DEF CanCalculateSeize
    <2>5. lost <= paid
        BY <1>3, <2>2, <2>4, SeizedWorth DEF Seized, SeizeTokens, MarginKept
    <2>6. QED
        BY <1>3, <1>4, <2>5, TruncateType
<1> DEFINE before == Collaterals(rToken, a)
           after == Collaterals(rToken', a)
           debts == Debts(rToken, a)
           debts2 == Debts(rToken', a)
<1>7. /\ IsFiniteSet(Assets) /\ before \in [Assets -> Nat] /\ after \in [Assets -> Nat]
      /\ debts \in [Assets -> Nat] /\ debts2 \in [Assets -> Nat]
      /\ SumCollateral(rToken, a) = Total(before) /\ SumCollateral(rToken', a) = Total(after)
      /\ SumBorrow(rToken, a) = Total(debts) /\ SumBorrow(rToken', a) = Total(debts2)
      /\ Total(before) \in Nat /\ Total(after) \in Nat /\ Total(debts) \in Nat /\ Total(debts2) \in Nat
    BY <1>2, LedgerTypes
<1>8. before[c] <= after[c] + (lost + 1)
    <2>1. before[c] <= MulScalarTruncate(denom, left) + lost + 1
        BY <1>1, <1>3, <1>4, TruncateSplit DEF Collaterals
    <2>2. left <= rToken[c].accountTokens[a] /\ left <= rToken'[c].accountTokens[a]
        BY <1>3, <1>4
    <2>3. MulScalarTruncate(denom, left) <= MulScalarTruncate(TokensToDenom(rToken', c), rToken'[c].accountTokens[a])
        BY <1>2, <1>3, <2>2, WorthUp
    <2>4. MulScalarTruncate(denom, left) <= after[c]
        BY <1>1, <2>3 DEF Collaterals
    <2>5. MulScalarTruncate(denom, left) \in Nat
        BY <1>3, TruncateType
    <2> HIDE DEF before, after, lost, denom, left
    <2>6. before[c] \in Nat /\ after[c] \in Nat
        BY <1>1, <1>7
    <2>7. QED
        BY <1>6, <2>1, <2>4, <2>5, <2>6
<1>9. \A x \in Assets \ {c} : before[x] <= after[x]
    <2> TAKE x \in Assets \ {c}
    <2>1. x \in Markets \ {c}
        BY DEF Assets
    <2>2. rToken[x].accountTokens[a] \in Nat
        BY <1>2, <2>1, MarketTypes
    <2>3. HasNoLess(rToken, rToken', a, x)
        BY <1>1, <2>1, <2>2 DEF LiquidatedTokens, HasNoLess
    <2>4. QED
        BY <1>2, <2>3, CollateralUp
<1>10. debts2[m] + paid <= debts[m]
    <2>1. MulScalarTruncate(price[m], owed) + paid <= MulScalarTruncate(price[m], owed + n)
        BY <1>3, TruncateJoin
    <2>2. QED
        BY <1>1, <1>5, <2>1 DEF Debts
<1>11. \A x \in Assets \ {m} : debts2[x] <= debts[x]
    <2> TAKE x \in Assets \ {m}
    <2>1. x \in Markets \ {m}
        BY DEF Assets
    <2>2. BorrowBalance(rToken[x], a) \in Nat
        BY <1>2, <2>1, MarketTypes
    <2>3. OwesNoMore(rToken, rToken', a, x)
        BY <1>1, <1>2, <2>1, <2>2 DEF LiquidatedDebts, OwesNoMore
    <2>4. QED
        BY <1>2, <2>3, DebtDown
<1> HIDE DEF before, after, debts, debts2, lost, paid
<1>12. Total(before) <= Total(after) + (lost + 1)
    <2>1. lost + 1 \in Nat
        BY <1>6
    <2>2. QED
        BY <1>1, <1>7, <1>8, <1>9, <2>1, TotalShift
<1>13. Total(debts2) + paid <= Total(debts)
    <2> DEFINE raised == [debts2 EXCEPT ![m] = @ + paid]
    <2>1. /\ raised \in [Assets -> Nat] /\ raised[m] = debts2[m] + paid
          /\ \A x \in Assets \ {m} : raised[x] = debts2[x]
        BY <1>1, <1>6, <1>7
    <2> HIDE DEF raised
    <2>2. Total(raised) = Total(debts2) - debts2[m] + raised[m]
        BY <1>1, <1>7, <2>1, TotalUpdate
    <2>3. \A x \in Assets : raised[x] <= debts[x]
        BY <1>10, <1>11, <2>1
    <2>4. Total(raised) <= Total(debts)
        BY <1>7, <2>1, <2>3, TotalMonotone
    <2>5. debts2[m] \in Nat /\ Total(raised) \in Nat
        BY <1>1, <1>7, <2>1, TotalType
    <2>6. QED
        BY <1>6, <1>7, <2>1, <2>2, <2>4, <2>5
<1> DEFINE B == SumBorrow(rToken, a)
           C == SumCollateral(rToken, a)
           B2 == SumBorrow(rToken', a)
           C2 == SumCollateral(rToken', a)
<1>14. /\ B \in Nat /\ C \in Nat /\ B2 \in Nat /\ C2 \in Nat
       /\ C <= C2 + (lost + 1) /\ B2 + paid <= B
    BY <1>7, <1>12, <1>13
<1>15. Shortfall(rToken, a) = (IF B > C THEN B - C ELSE 0) /\ Shortfall(rToken', a) = (IF B2 > C2 THEN B2 - C2 ELSE 0)
    BY DEF Shortfall
<1> HIDE DEF B, C, B2, C2
<1>16. QED
    BY <1>6, <1>14, <1>15 DEF ShortfallKept

LEMMA UseQuiet ==
    ASSUME Quiet, Use, NEW b \in Users
    PROVE  ShortfallKept(b) \/ LiquidatedWithoutMargin(b)
<1>1. /\ Amounts \subseteq Nat /\ Grants \subseteq Nat /\ Allowances \subseteq Allowance
      /\ Receivers \subseteq Holders
    BY LendingAssumption
<1>2. PICK m \in Markets :
        \/ AccrueInterest(m)
        \/ \E n \in Grants : AddReserves(m, n) \/ Donate(m, n)
        \/ \E a \in Users, n \in Amounts :
            \/ a \in Suppliers[m] /\ Mint(m, a, n)
            \/ a \in Borrowers[m] /\ Borrow(m, a, n)
            \/ Redeem(m, a, n) \/ RepayBorrow(m, a, n)
            \/ \E src \in Users, dst \in Receivers : TransferTokens(m, a, src, dst, n)
            \/ \E c \in Markets, k \in Users : LiquidateBorrow(m, c, a, k, n)
        \/ \E a \in Users : RepayAll(m, a)
        \/ \E a \in Users, n \in Allowances : \E s \in Users \ {a} : Approve(m, a, s, n)
    BY DEF Use
<1>3. CASE AccrueInterest(m)
    BY <1>3, AccrueInterestQuiet
<1>4. CASE \E n \in Grants : AddReserves(m, n) \/ Donate(m, n)
    BY <1>4, AddReservesQuiet, DonateQuiet
<1>5. ASSUME NEW a \in Users, NEW n \in Amounts, Mint(m, a, n) PROVE ShortfallKept(b)
    BY <1>1, <1>5, MintQuiet
<1>6. ASSUME NEW a \in Users, NEW n \in Amounts, Borrow(m, a, n) PROVE ShortfallKept(b)
    BY <1>1, <1>6, BorrowQuiet
<1>7. ASSUME NEW a \in Users, NEW n \in Amounts, Redeem(m, a, n) PROVE ShortfallKept(b)
    BY <1>1, <1>7, RedeemQuiet
<1>8. ASSUME NEW a \in Users, NEW n \in Amounts, RepayBorrow(m, a, n) PROVE ShortfallKept(b)
    BY <1>1, <1>8, RepayQuiet
<1>9. ASSUME NEW a \in Users, NEW n \in Amounts, NEW src \in Users, NEW dst \in Receivers,
             TransferTokens(m, a, src, dst, n)
      PROVE  ShortfallKept(b)
    BY <1>1, <1>9, TransferQuiet
<1>10. ASSUME NEW a \in Users, NEW n \in Amounts, NEW c \in Markets, NEW k \in Users,
              LiquidateBorrow(m, c, a, k, n)
       PROVE  ShortfallKept(b) \/ LiquidatedWithoutMargin(b)
    <2>1. CASE k = b /\ MarginKept(m, c)
        BY <1>1, <1>10, <2>1, SeizeQuiet
    <2>2. CASE k = b /\ ~MarginKept(m, c)
        BY <1>10, <2>2 DEF LiquidatedWithoutMargin
    <2>3. CASE k # b
        BY <1>1, <1>10, <2>3, LiquidateQuiet
    <2>4. QED
        BY <2>1, <2>2, <2>3
<1>11. CASE \E a \in Users : RepayAll(m, a)
    BY <1>11, RepayAllQuiet
<1>12. CASE \E a \in Users, n \in Allowances : \E s \in Users \ {a} : Approve(m, a, s, n)
    BY <1>12, ApproveQuiet
<1>13. QED
    BY <1>2, <1>3, <1>4, <1>5, <1>6, <1>7, <1>8, <1>9, <1>10, <1>11, <1>12

LEMMA NextQuiet ==
    ASSUME Quiet, Next, NEW b \in Users
    PROVE  ShortfallKept(b) \/ LiquidatedWithoutMargin(b)
<1>1. CASE UNCHANGED books
    BY <1>1, UnmovedQuiet DEF books
<1>2. CASE NextBlock
    BY <1>1, <1>2 DEF NextBlock
<1>3. CASE \E m \in Markets : OpenPool(m) \/ \E p \in Prices[m] : SetPrice(m, p)
    BY <1>1, <1>3 DEF OpenPool, SetPrice
<1>4. CASE Govern
    <2>1. CASE \E n \in Grants : IncreaseSystemSupply(n) \/ ReduceSystemSupply(n)
        BY <2>1, SystemQuiet
    <2>2. ASSUME NEW m \in Retirable,
                 SupportMarket(m) \/ CloseMarket(m) \/ LiquidateMarket(m) \/ RemoveMarket(m)
          PROVE  UNCHANGED books
        BY <2>2 DEF SupportMarket, CloseMarket, LiquidateMarket, RemoveMarket
    <2>3. ASSUME NEW m, NEW f, SetCollateralFactor(m, f) PROVE UNCHANGED books
        BY <2>3 DEF SetCollateralFactor
    <2>4. CASE ToogleSuspension
        BY <1>1, <2>4 DEF ToogleSuspension
    <2>5. ASSUME NEW f, SetCloseFactor(f) PROVE UNCHANGED books
        BY <2>5 DEF SetCloseFactor
    <2>6. ASSUME NEW i, SetLiquidationIncentive(i) PROVE UNCHANGED books
        BY <2>6 DEF SetLiquidationIncentive
    <2>7. ASSUME NEW model, UpdateModel(model) PROVE UNCHANGED books
        BY <2>7 DEF UpdateModel
    <2>8. QED
        BY <1>1, <1>4, <2>1, <2>2, <2>3, <2>4, <2>5, <2>6, <2>7 DEF Govern
<1>5. QED
    BY <1>2, <1>3, <1>4, UseQuiet DEF Next

-----------------------------------------------------------------------------
(***************************************************************************)
(* Theorems.                                                               *)
(***************************************************************************)
\* The inductive invariant: the books of every market are sound and covered at
\* the initial rate, and every power is reported but for what was there when the
\* pool opened.
THEOREM Invariant == Spec => [](IInv /\ PowersReported)
<1>1. Init => IInv /\ PowersReported
    BY InitGood
<1>2. IInv /\ PowersReported /\ [Next]_vars => (IInv /\ PowersReported)'
    BY NextStep, StutterStep DEF StepOK
<1>3. QED
    BY <1>1, <1>2, PTL DEF Spec

\* No amount, index nor allowance goes below zero: the checked subtractions of
\* the markets' operations hold wherever their own requirements do.
THEOREM TypeCorrect == Spec => []TypeOK
<1>1. IInv => TypeOK
    BY DEF IInv
<1>2. QED
    BY <1>1, Invariant, PTL

\* The supply of every RToken is the sum of its accounts' tokens.
THEOREM SupplyConserved == Spec => []SupplyConservation
<1>1. IInv => SupplyConservation
    BY DEF IInv, Good, Sound, SupplyConservation
<1>2. QED
    BY <1>1, Invariant, PTL

\* Every RToken is worth at least its initial exchange rate.
THEOREM SupplyIsBacked == Spec => []SupplyBacked
<1>1. IInv => SupplyBacked
    BY DEF IInv, Good, Covers, SupplyBacked
<1>2. QED
    BY <1>1, Invariant, PTL

\* The Distributor knows the power of every account of an active pool, whenever
\* the pool opened, except for tokens and debts that are older than it and have
\* not moved since.
THEOREM PowersAreReported == Spec => []PowersReported
BY Invariant, PTL

\* The exchange rate of a market never falls, a dilution by the system aside.
THEOREM RateNeverDrops == Spec => RateNeverFalls
<1>1. IInv /\ PowersReported /\ [Next]_vars => [RateKept]_vars
    BY NextStep DEF StepOK
<1>2. QED
    BY <1>1, Invariant, PTL DEF Spec, RateNeverFalls

\* Under suspension no user's tokens nor debt move.
THEOREM SuspensionHolds == Spec => SuspensionFreezes
<1>1. IInv /\ PowersReported /\ [Next]_vars => [suspended => Frozen]_vars
    BY NextStep DEF StepOK
<1>2. QED
    BY <1>1, Invariant, PTL DEF Spec, SuspensionFreezes

\* A supplier without debts can always leave for the cash the market holds.
THEOREM DebtFreeLeaves == Spec => []DebtFreeMayLeave
<1>1. IInv => DebtFreeMayLeave
    BY LeavingIsPossible
<1>2. QED
    BY <1>1, Invariant, PTL

\* No account gets into shortfall by tokens or debts that move, nor by its
\* liquidation, while the incentive leaves the margin alone.
THEOREM MovingKeepsCovered == Spec => NoShortfallByMoving
<1>1. IInv /\ PowersReported /\ (IInv /\ PowersReported)' /\ [Next]_vars => [ShortfallKeptByMoving]_vars
    <2> SUFFICES ASSUME IInv, PowersReported, IInv', Next, StillMarkets, NEW a \in Users
                 PROVE  ShortfallKept(a) \/ LiquidatedWithoutMargin(a)
        BY DEF ShortfallKeptByMoving
    <2>1. RateKept
        BY NextStep DEF StepOK
    <2>2. QED
        BY <2>1, NextQuiet DEF Quiet
<1>2. QED
    BY <1>1, Invariant, PTL DEF Spec, NoShortfallByMoving
=============================================================================
