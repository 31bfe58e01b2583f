---------------------------- MODULE DataTheorems ----------------------------
(***************************************************************************)
(* Facts about the data of the models.  First what an update of a ledger   *)
(* does to its total: the facts the conservation invariants of the other   *)
(* modules rest on.  Then induction over the naturals, stated of sets, and *)
(* what follows from it about loops and about sets of positions.           *)
(***************************************************************************)
EXTENDS TokenSums, Integers, Sequences, FiniteSetTheorems, FunctionTheorems,
        WellFoundedInduction, TLAPS

\* One holder's units are as many as its entry says.
LEMMA UnitsOfCount ==
    ASSUME NEW ledger, NEW a, ledger[a] \in Nat
    PROVE  /\ IsFiniteSet(UnitsOf(ledger, a))
           /\ Cardinality(UnitsOf(ledger, a)) = ledger[a]
<1>1. IsFiniteSet({a}) /\ Cardinality({a}) = 1
    BY FS_Singleton
<1>2. IsFiniteSet(1 .. ledger[a]) /\ Cardinality(1 .. ledger[a]) = ledger[a]
    BY FS_Interval
<1>3. /\ IsFiniteSet({a} \X (1 .. ledger[a]))
      /\ Cardinality({a} \X (1 .. ledger[a])) = Cardinality({a}) * Cardinality(1 .. ledger[a])
    BY <1>1, <1>2, FS_Product
<1>4. QED
    BY <1>1, <1>2, <1>3 DEF UnitsOf

\* A ledger over finitely many holders has finitely many units.
LEMMA UnitsFinite ==
    ASSUME NEW S, IsFiniteSet(S), NEW ledger \in [S -> Nat]
    PROVE  IsFiniteSet(Units(ledger))
<1> DEFINE family == {UnitsOf(ledger, a) : a \in S}
           units == [a \in S |-> UnitsOf(ledger, a)]
<1>1. units \in Surjection(S, family)
    BY DEF Surjection
<1>2. IsFiniteSet(family)
    BY <1>1, FS_Surjection
<1>3. \A T \in family : IsFiniteSet(T)
    BY UnitsOfCount
<1>4. DOMAIN ledger = S
    OBVIOUS
<1>5. IsFiniteSet(UNION family)
    BY <1>2, <1>3, FS_UNION
<1>6. QED
    BY <1>4, <1>5 DEF Units

\* A total is a natural number.
THEOREM TotalType ==
    ASSUME NEW S, IsFiniteSet(S), NEW ledger \in [S -> Nat]
    PROVE  Total(ledger) \in Nat
BY UnitsFinite, FS_CardinalityType DEF Total

\* The units of all holders but `a`.
Others(ledger, a) == UNION {UnitsOf(ledger, b) : b \in DOMAIN ledger \ {a}}

\* A total splits into the entry of one holder and the units of the others.
LEMMA TotalSplit ==
    ASSUME NEW S, IsFiniteSet(S), NEW ledger \in [S -> Nat], NEW a \in S
    PROVE  /\ Cardinality(Others(ledger, a)) \in Nat
           /\ Total(ledger) = ledger[a] + Cardinality(Others(ledger, a))
<1>1. Units(ledger) = UnitsOf(ledger, a) \cup Others(ledger, a)
    BY DEF Units, Others
<1>2. UnitsOf(ledger, a) \cap Others(ledger, a) = {}
    BY DEF UnitsOf, Others
<1>3. IsFiniteSet(Others(ledger, a))
    BY <1>1, UnitsFinite, FS_Subset
<1>4. Cardinality({}) = 0
    BY FS_EmptySet
<1>5. /\ IsFiniteSet(UnitsOf(ledger, a))
      /\ Cardinality(UnitsOf(ledger, a)) = ledger[a]
    BY UnitsOfCount
<1>6. Cardinality(Others(ledger, a)) \in Nat
    BY <1>3, FS_CardinalityType
<1>7. Cardinality(UnitsOf(ledger, a) \cup Others(ledger, a))
        = ledger[a] + Cardinality(Others(ledger, a)) - 0
    BY <1>2, <1>3, <1>4, <1>5, FS_Union
<1>8. QED
    BY <1>1, <1>6, <1>7 DEF Total

\* Two ledgers that differ at one holder differ in total by that entry.
THEOREM TotalUpdate ==
    ASSUME NEW S, IsFiniteSet(S), NEW before \in [S -> Nat], NEW after \in [S -> Nat],
           NEW a \in S, \A b \in S \ {a} : after[b] = before[b]
    PROVE  Total(after) = Total(before) - before[a] + after[a]
<1>1. Others(after, a) = Others(before, a)
    BY DEF Others, UnitsOf
<1>2. /\ Cardinality(Others(before, a)) \in Nat
      /\ Total(before) = before[a] + Cardinality(Others(before, a))
      /\ Total(after) = after[a] + Cardinality(Others(before, a))
    BY <1>1, TotalSplit
<1>3. QED
    BY <1>2

\* An update at two holders.
THEOREM TotalUpdate2 ==
    ASSUME NEW S, IsFiniteSet(S), NEW before \in [S -> Nat], NEW after \in [S -> Nat],
           NEW a \in S, NEW b \in S, a # b,
           \A c \in S \ {a, b} : after[c] = before[c]
    PROVE  Total(after) = Total(before) - before[a] + after[a] - before[b] + after[b]
<1> DEFINE middle == [before EXCEPT ![a] = after[a]]
<1>1. middle \in [S -> Nat] /\ middle[a] = after[a] /\ middle[b] = before[b]
    OBVIOUS
<1>2. /\ \A c \in S \ {a} : middle[c] = before[c]
      /\ \A c \in S \ {b} : after[c] = middle[c]
    OBVIOUS
<1> HIDE DEF middle
<1>3. Total(middle) = Total(before) - before[a] + middle[a]
    BY <1>1, <1>2, TotalUpdate
<1>4. Total(after) = Total(middle) - middle[b] + after[b]
    BY <1>1, <1>2, TotalUpdate
<1>5. Total(before) \in Nat /\ Total(middle) \in Nat
    BY <1>1, TotalType
<1>6. QED
    BY <1>1, <1>3, <1>4, <1>5

\* No entry exceeds the total.
THEOREM TotalBound ==
    ASSUME NEW S, IsFiniteSet(S), NEW ledger \in [S -> Nat], NEW a \in S
    PROVE  ledger[a] <= Total(ledger)
BY TotalSplit

\* Nor do two entries together.
THEOREM TotalBound2 ==
    ASSUME NEW S, IsFiniteSet(S), NEW ledger \in [S -> Nat], NEW a \in S, NEW b \in S, a # b
    PROVE  ledger[a] + ledger[b] <= Total(ledger)
<1> DEFINE rest == [ledger EXCEPT ![a] = 0]
<1>1. /\ rest \in [S -> Nat] /\ rest[a] = 0 /\ rest[b] = ledger[b]
      /\ \A c \in S \ {a} : rest[c] = ledger[c]
    OBVIOUS
<1> HIDE DEF rest
<1>2. Total(rest) = Total(ledger) - ledger[a] + rest[a]
    BY <1>1, TotalUpdate
<1>3. rest[b] <= Total(rest)
    BY <1>1, TotalBound
<1>4. Total(ledger) \in Nat /\ Total(rest) \in Nat
    BY <1>1, TotalType
<1>5. QED
    BY <1>1, <1>2, <1>3, <1>4

\* A ledger that is nowhere larger has no larger total.
THEOREM TotalMonotone ==
    ASSUME NEW S, IsFiniteSet(S), NEW small \in [S -> Nat], NEW large \in [S -> Nat],
           \A a \in S : small[a] <= large[a]
    PROVE  Total(small) <= Total(large)
<1>1. \A a \in S : UnitsOf(small, a) \subseteq UnitsOf(large, a)
    BY DEF UnitsOf
<1>2. Units(small) \subseteq Units(large)
    BY <1>1 DEF Units
<1>3. QED
    BY <1>2, UnitsFinite, FS_Subset DEF Total

\* Two ledgers of which the first is larger at one holder only, by k at most.
THEOREM TotalShift ==
    ASSUME NEW S, IsFiniteSet(S), NEW small \in [S -> Nat], NEW large \in [S -> Nat],
           NEW a \in S, NEW k \in Nat, small[a] <= large[a] + k,
           \A b \in S \ {a} : small[b] <= large[b]
    PROVE  Total(small) <= Total(large) + k
<1> DEFINE raised == [large EXCEPT ![a] = large[a] + k]
<1>1. /\ raised \in [S -> Nat] /\ raised[a] = large[a] + k
      /\ \A b \in S \ {a} : raised[b] = large[b]
    OBVIOUS
<1> HIDE DEF raised
<1>2. \A b \in S : small[b] <= raised[b]
    BY <1>1
<1>3. Total(small) <= Total(raised)
    BY <1>1, <1>2, TotalMonotone
<1>4. Total(raised) = Total(large) - large[a] + raised[a]
    BY <1>1, TotalUpdate
<1>5. Total(raised) \in Nat /\ Total(large) \in Nat /\ Total(small) \in Nat /\ large[a] \in Nat
    BY <1>1, TotalType
<1>6. QED
    BY <1>1, <1>3, <1>4, <1>5

\* The total of an empty ledger is zero.
THEOREM TotalZero ==
    ASSUME NEW S, NEW ledger \in [S -> Nat], \A a \in S : ledger[a] = 0
    PROVE  Total(ledger) = 0
<1>1. \A a \in S : UnitsOf(ledger, a) = {}
    BY DEF UnitsOf
<1>2. Units(ledger) = {}
    BY <1>1 DEF Units
<1>3. QED
    BY <1>2, FS_EmptySet DEF Total

\* A ledger that adds two others has no larger total than both.
THEOREM TotalPlus ==
    ASSUME NEW S, IsFiniteSet(S), NEW f \in [S -> Nat], NEW g \in [S -> Nat],
           NEW both \in [S -> Nat], \A a \in S : both[a] = f[a] + g[a]
    PROVE  Total(both) <= Total(f) + Total(g)
<1> DEFINE Above == {u \in Units(both) : u[2] > f[u[1]]}
           shift == [u \in Above |-> <<u[1], u[2] - f[u[1]]>>]
<1>1. ASSUME NEW u \in Units(both)
      PROVE  /\ u[1] \in S /\ u[2] \in 1 .. both[u[1]] /\ u = <<u[1], u[2]>>
             /\ u \notin Above => u \in Units(f)
    BY DEF Units, UnitsOf
<1>2. ASSUME NEW u \in Above
      PROVE  shift[u] \in Units(g)
    <2>1. u[1] \in S /\ u[2] - f[u[1]] \in 1 .. g[u[1]]
        BY <1>1
    <2>2. <<u[1], u[2] - f[u[1]]>> \in UnitsOf(g, u[1])
        BY <2>1 DEF UnitsOf
    <2>3. QED
        BY <2>1, <2>2 DEF Units
<1>3. ASSUME NEW u \in Above, NEW v \in Above, shift[u] = shift[v]
      PROVE  u = v
    <2>1. u[1] = v[1] /\ u[2] - f[u[1]] = v[2] - f[v[1]]
        BY <1>3
    <2>2. u[2] = v[2]
        BY <1>1, <2>1
    <2>3. QED
        BY <1>1, <2>1, <2>2
<1>4. shift \in Injection(Above, Units(g))
    BY <1>2, <1>3 DEF Injection, IsInjective
<1>5. IsFiniteSet(Above) /\ Cardinality(Above) <= Total(g)
    BY <1>4, UnitsFinite, FS_Injection DEF Total
<1>6. Units(both) \subseteq Units(f) \cup Above
    BY <1>1
<1>7. IsFiniteSet(Units(f)) /\ IsFiniteSet(Units(f) \cap Above)
    BY <1>5, UnitsFinite, FS_Subset
<1>8. /\ IsFiniteSet(Units(f) \cup Above)
      /\ Cardinality(Units(f) \cup Above)
           = Total(f) + Cardinality(Above) - Cardinality(Units(f) \cap Above)
    BY <1>5, <1>7, FS_Union DEF Total
<1>9. Total(both) <= Cardinality(Units(f) \cup Above)
    BY <1>6, <1>8, FS_Subset DEF Total
<1>10. /\ Total(both) \in Nat /\ Total(f) \in Nat /\ Total(g) \in Nat
       /\ Cardinality(Above) \in Nat /\ Cardinality(Units(f) \cap Above) \in Nat
    BY <1>5, <1>7, TotalType, FS_CardinalityType
<1>11. QED
    BY <1>5, <1>8, <1>9, <1>10

\* A position below k * n has a row below n and a column below k.
LEMMA RowAndColumn ==
    ASSUME NEW k \in Nat \ {0}, NEW n \in Nat, NEW x \in 0 .. (k * n - 1)
    PROVE  x \div k \in 0 .. n - 1 /\ x % k \in 0 .. k - 1 /\ x = k * (x \div k) + (x % k)
<1>1. k * n \in Nat /\ x \in Nat /\ x < k * n
    OBVIOUS
<1>2. x \div k \in Nat /\ x % k \in 0 .. k - 1 /\ x = k * (x \div k) + (x % k)
    BY <1>1
<1> DEFINE q == x \div k
<1>3. q \in Nat /\ k * q <= x
    BY <1>1, <1>2
<1> HIDE DEF q
<1>4. q >= n => k * q >= k * n
    BY <1>3
<1>5. q < n
    BY <1>1, <1>3, <1>4
<1>6. QED
    BY <1>2, <1>3, <1>5 DEF q

\* A ledger that multiplies another by k has no larger total than k times its total.
THEOREM TotalTimes ==
    ASSUME NEW S, IsFiniteSet(S), NEW g \in [S -> Nat], NEW k \in Nat,
           NEW times \in [S -> Nat], \A a \in S : times[a] = k * g[a]
    PROVE  Total(times) <= k * Total(g)
<1>1. CASE k = 0
    <2>1. \A a \in S : times[a] = 0
        BY <1>1
    <2>2. Total(times) = 0 /\ Total(g) \in Nat
        BY <2>1, TotalZero, TotalType
    <2>3. QED
        BY <1>1, <2>2
<1>2. CASE k # 0
    <2> DEFINE place == [u \in Units(times) |->
                            <<<<u[1], (u[2] - 1) \div k + 1>>, ((u[2] - 1) % k) + 1>>]
               Grid == Units(g) \X (1 .. k)
    <2>1. ASSUME NEW u \in Units(times)
          PROVE  /\ u[1] \in S /\ u[2] \in Nat /\ u = <<u[1], u[2]>>
                 /\ (u[2] - 1) \div k \in 0 .. g[u[1]] - 1 /\ (u[2] - 1) % k \in 0 .. k - 1
                 /\ u[2] - 1 = k * ((u[2] - 1) \div k) + ((u[2] - 1) % k)
        <3>1. u[1] \in S /\ u[2] \in 1 .. times[u[1]] /\ u = <<u[1], u[2]>>
            BY DEF Units, UnitsOf
        <3>2. u[2] - 1 \in 0 .. (k * g[u[1]] - 1)
            BY <3>1
        <3>3. k \in Nat \ {0} /\ g[u[1]] \in Nat
            BY <1>2, <3>1
        <3>4. QED
            BY <3>1, <3>2, <3>3, RowAndColumn
    <2>2. ASSUME NEW u \in Units(times) PROVE place[u] \in Grid
        <3>1. <<u[1], (u[2] - 1) \div k + 1>> \in UnitsOf(g, u[1]) /\ u[1] \in S
            BY <2>1 DEF UnitsOf
        <3>2. <<u[1], (u[2] - 1) \div k + 1>> \in Units(g)
            BY <3>1 DEF Units
        <3>3. ((u[2] - 1) % k) + 1 \in 1 .. k
            BY <2>1
        <3>4. QED
            BY <3>2, <3>3
    <2>3. ASSUME NEW u \in Units(times), NEW v \in Units(times), place[u] = place[v]
          PROVE  u = v
        <3> DEFINE qu == (u[2] - 1) \div k
                   qv == (v[2] - 1) \div k
                   ru == (u[2] - 1) % k
                   rv == (v[2] - 1) % k
        <3>1. u[1] = v[1] /\ qu + 1 = qv + 1 /\ ru + 1 = rv + 1
            BY <2>3
        <3>2. /\ qu \in Int /\ qv \in Int /\ ru \in Int /\ rv \in Int
              /\ u[2] \in Nat /\ v[2] \in Nat
              /\ u[2] - 1 = k * qu + ru /\ v[2] - 1 = k * qv + rv
            BY <2>1
        <3> HIDE DEF qu, qv, ru, rv
        <3>3. qu = qv /\ ru = rv
            BY <3>1, <3>2
        <3>4. u[2] - 1 = v[2] - 1
            BY <3>2, <3>3
        <3>5. u[2] = v[2]
            BY <3>2, <3>4
        <3>6. QED
            BY <2>1, <3>1, <3>5
    <2>4. place \in Injection(Units(times), Grid)
        BY <2>2, <2>3 DEF Injection, IsInjective
    <2>5. IsFiniteSet(Units(g)) /\ IsFiniteSet(1 .. k) /\ Cardinality(1 .. k) = k
        BY UnitsFinite, FS_Interval
    <2>6. IsFiniteSet(Grid) /\ Cardinality(Grid) = Total(g) * k
        BY <2>5, FS_Product DEF Total
    <2>7. Total(times) <= Total(g) * k
        BY <2>4, <2>6, FS_Injection DEF Total
    <2>8. Total(g) \in Nat
        BY TotalType
    <2>9. QED
        BY <2>7, <2>8
<1>3. QED
    BY <1>1, <1>2

-----------------------------------------------------------------------------
(***************************************************************************)
(* Induction.                                                              *)
(***************************************************************************)

\* A set of naturals that is not empty has a least element.
LEMMA LeastNatural ==
    ASSUME NEW T, T \subseteq Nat, T # {}
    PROVE  \E x \in T : \A y \in T : x <= y
<1> DEFINE R == OpToRel(<, Nat)
<1>1. IsWellFoundedOn(R, Nat)
    BY NatLessThanWellFounded
<1>2. \A x, y \in Nat : <<y, x>> \in R <=> y < x
    BY DEF OpToRel
<1> HIDE DEF R
<1>3. PICK x \in T : \A y \in T : ~ (<<y, x>> \in R)
    BY <1>1, WFMin
<1>4. ASSUME NEW y \in T PROVE x <= y
    <2>1. x \in Nat /\ y \in Nat
        OBVIOUS
    <2>2. ~ (y < x)
        BY <1>2, <1>3, <2>1
    <2>3. QED
        BY <2>1, <2>2
<1>5. QED
    BY <1>4

\* Induction up to n, stated of a set.
THEOREM SetInduction ==
    ASSUME NEW n \in Nat, NEW T, 0 \in T, \A i \in 1 .. n : i - 1 \in T => i \in T
    PROVE  0 .. n \subseteq T
<1> DEFINE U == (0 .. n) \ T
<1>1. SUFFICES ASSUME U # {} PROVE FALSE
    OBVIOUS
<1>2. U \subseteq Nat
    OBVIOUS
<1> HIDE DEF U
<1>3. PICK x \in U : \A y \in U : x <= y
    BY <1>1, <1>2, LeastNatural
<1>4. x \in 0 .. n /\ x \notin T /\ x # 0
    BY <1>3 DEF U
<1>5. x - 1 \in 0 .. n /\ x - 1 \notin U
    BY <1>2, <1>3, <1>4
<1>6. x - 1 \in T
    BY <1>5 DEF U
<1>7. QED
    BY <1>4, <1>6

\* A loop of n rounds over states in W, and what its run is.
Rounds(n, W, round) == \A i \in 1 .. n, w \in W : round[i][w] \in W
Loop(n, round, start, run) ==
    run[0] = start /\ \A i \in 1 .. n : run[i] = round[i][run[i - 1]]

\* A loop has a run.
THEOREM LoopRuns ==
    ASSUME NEW W, NEW start \in W, NEW n \in Nat, NEW round, Rounds(n, W, round)
    PROVE  \E run : run \in [0 .. n -> W] /\ Loop(n, round, start, run)
<1> DEFINE T == {m \in 0 .. n : \E run : run \in [0 .. m -> W] /\ Loop(m, round, start, run)}
<1>1. 0 \in T
    <2> DEFINE first == [i \in 0 .. 0 |-> start]
    <2>1. first \in [0 .. 0 -> W] /\ Loop(0, round, start, first)
        BY DEF Loop
    <2> HIDE DEF first
    <2>2. QED
        BY <2>1
<1>2. ASSUME NEW m \in 1 .. n, m - 1 \in T PROVE m \in T
    <2>1. PICK run : run \in [0 .. m - 1 -> W] /\ Loop(m - 1, round, start, run)
        BY <1>2
    <2> DEFINE next == [i \in 0 .. m |-> IF i = m THEN round[m][run[m - 1]] ELSE run[i]]
    <2>2. run[m - 1] \in W /\ round[m][run[m - 1]] \in W
        BY <2>1 DEF Rounds
    <2>3. next \in [0 .. m -> W]
        BY <2>1, <2>2
    <2>4. next[0] = start /\ \A i \in 1 .. m - 1 : next[i] = round[i][next[i - 1]]
        BY <2>1 DEF Loop
    <2>5. next[m] = round[m][next[m - 1]]
        OBVIOUS
    <2> HIDE DEF next
    <2>6. Loop(m, round, start, next)
        BY <2>4, <2>5 DEF Loop
    <2>7. QED
        BY <2>3, <2>6
<1> HIDE DEF T
<1>3. 0 .. n \subseteq T
    BY <1>1, <1>2, SetInduction
<1>4. n \in T
    BY <1>3
<1>5. QED
    BY <1>4 DEF T

\* A set of positions that has all before any it has is counted by its last one.
THEOREM Prefix ==
    ASSUME NEW n \in Nat, NEW S, S \subseteq 1 .. n,
           \A i, j \in 1 .. n : i < j /\ j \in S => i \in S
    PROVE  /\ Cardinality(S) \in 0 .. n
           /\ S = 1 .. Cardinality(S)
<1> DEFINE U == (1 .. n + 1) \ S
<1>1. U \subseteq Nat /\ n + 1 \in U
    OBVIOUS
<1>2. PICK x \in U : \A y \in U : x <= y
    BY <1>1, LeastNatural
<1>3. S = 1 .. x - 1
    <2>1. x \in 1 .. n + 1 /\ x \notin S
        BY <1>2
    <2>2. \A y \in 1 .. x - 1 : y \in S
        BY <1>2, <2>1
    <2>3. \A y \in S : y \in 1 .. x - 1
        <3>1. SUFFICES ASSUME NEW y \in S, y >= x PROVE FALSE
            BY <2>1
        <3>2. y # x /\ y \in 1 .. n
            BY <2>1
        <3>3. x < y /\ x \in 1 .. n
            BY <2>1, <3>1, <3>2
        <3>4. QED
            BY <2>1, <3>2, <3>3
    <2>4. QED
        BY <2>2, <2>3
<1>4. Cardinality(1 .. x - 1) = x - 1
    <2>1. x - 1 \in Nat
        BY <1>1, <1>2
    <2>2. QED
        BY <2>1, FS_Interval
<1>5. QED
    BY <1>1, <1>2, <1>3, <1>4
=============================================================================
