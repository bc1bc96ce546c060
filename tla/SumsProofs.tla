----------------------------- MODULE SumsProofs -----------------------------
(***************************************************************************)
(* How the sums of module Sums change when a balance does: the lemmas that *)
(* every proof about conservation of money rests on.                       *)
(***************************************************************************)
EXTENDS Sums, FiniteSetTheorems, FunctionTheorems, WellFoundedInduction, TLAPS

\* A pair is a unit of f exactly if its second part counts up to f[x].
LEMMA UnitsMember ==
  ASSUME NEW S, NEW f \in [S -> Nat], NEW u
  PROVE  u \in Units(f) <=> \E x \in S : \E i \in 1..f[x] : u = <<x, i>>
BY DEF Units

\* The units of a natural-valued function on a finite set are finite.
LEMMA UnitsFinite ==
  ASSUME NEW S, IsFiniteSet(S), NEW f \in [S -> Nat]
  PROVE  IsFiniteSet(Units(f))
<1> DEFINE column == [x \in S |-> {x} \X (1..f[x])]
           columns == {column[x] : x \in S}
<1>1. column \in Surjection(S, columns)
  BY Fun_IsSurj
<1>2. IsFiniteSet(columns)
  BY <1>1, FS_Surjection
<1>3. \A c \in columns : IsFiniteSet(c)
  <2>1. SUFFICES ASSUME NEW x \in S PROVE IsFiniteSet({x} \X (1..f[x]))
    OBVIOUS
  <2>2. f[x] \in Int /\ 1 \in Int
    OBVIOUS
  <2>3. IsFiniteSet({x}) /\ IsFiniteSet(1..f[x])
    BY <2>2, FS_Singleton, FS_Interval
  <2> QED BY <2>3, FS_Product
<1>4. Units(f) = UNION columns
  BY DEF Units
<1> QED BY <1>2, <1>3, <1>4, FS_UNION

\* A sum is a natural number.
LEMMA TotalType ==
  ASSUME NEW S, IsFiniteSet(S), NEW f \in [S -> Nat]
  PROVE  Total(f) \in Nat
BY UnitsFinite, FS_CardinalityType DEF Total

\* A pointwise smaller function has the smaller sum, even on a smaller domain.
LEMMA TotalMonotone ==
  ASSUME NEW S, IsFiniteSet(S), NEW g \in [S -> Nat],
         NEW R \in SUBSET S, NEW f \in [R -> Nat],
         \A x \in R : f[x] <= g[x]
  PROVE  Total(f) <= Total(g)
<1>1. Units(f) \subseteq Units(g)
  <2>1. SUFFICES ASSUME NEW x \in R, NEW i \in 1..f[x] PROVE <<x, i>> \in Units(g)
    BY UnitsMember
  <2>2. i \in 1..g[x]
    OBVIOUS
  <2> QED BY <2>2, UnitsMember
<1> QED BY <1>1, UnitsFinite, FS_Subset DEF Total

\* One summand is at most the sum.
LEMMA TotalBoundsPoint ==
  ASSUME NEW S, IsFiniteSet(S), NEW f \in [S -> Nat], NEW x \in S
  PROVE  f[x] <= Total(f)
<1> DEFINE levels == 1..f[x]
<1>1. {x} \X levels \subseteq Units(f)
  BY DEF Units
<1>2. IsFiniteSet(levels) /\ Cardinality(levels) = f[x]
  <2>1. f[x] \in Int /\ 1 \in Int
    OBVIOUS
  <2> QED BY <2>1, FS_Interval
<1>3. IsFiniteSet({x}) /\ Cardinality({x}) = 1
  BY FS_Singleton
<1> HIDE DEF levels
<1>4. Cardinality({x} \X levels) = 1 * f[x]
  BY <1>2, <1>3, FS_Product
<1> QED BY <1>1, <1>4, UnitsFinite, FS_Subset DEF Total

\* A sum is zero exactly if every summand is.
LEMMA TotalZero ==
  ASSUME NEW S, IsFiniteSet(S), NEW f \in [S -> Nat]
  PROVE  Total(f) = 0 <=> \A x \in S : f[x] = 0
<1>1. Total(f) = 0 <=> Units(f) = {}
  BY UnitsFinite, FS_EmptySet DEF Total
<1>2. Units(f) = {} <=> \A x \in S : f[x] = 0
  <2>1. ASSUME NEW x \in S, f[x] # 0 PROVE <<x, 1>> \in Units(f)
    BY <2>1, UnitsMember
  <2>2. ASSUME \A x \in S : f[x] = 0 PROVE Units(f) = {}
    BY <2>2, UnitsMember
  <2> QED BY <2>1, <2>2
<1> QED BY <1>1, <1>2

\* n units added to one summand add n to the sum.
LEMMA TotalAdd ==
  ASSUME NEW S, IsFiniteSet(S), NEW f \in [S -> Nat], NEW x \in S, NEW n \in Nat
  PROVE  Total([f EXCEPT ![x] = f[x] + n]) = Total(f) + n
<1> DEFINE g == [f EXCEPT ![x] = f[x] + n]
           extra == {x} \X ((f[x] + 1)..(f[x] + n))
<1>1. /\ g \in [S -> Nat]
      /\ g[x] = f[x] + n
      /\ \A y \in S : y # x => g[y] = f[y]
  OBVIOUS
<1> HIDE DEF g
<1>u. /\ \A u : u \in Units(f) <=> \E y \in S : \E i \in 1..f[y] : u = <<y, i>>
      /\ \A u : u \in Units(g) <=> \E y \in S : \E i \in 1..g[y] : u = <<y, i>>
  BY <1>1, UnitsMember
<1>2. Units(g) = Units(f) \cup extra
  <2>1. ASSUME NEW u PROVE u \in Units(g) <=> u \in Units(f) \cup extra
    <3>1. ASSUME u \in Units(g) PROVE u \in Units(f) \cup extra
      <4>1. PICK y \in S : \E i \in 1..g[y] : u = <<y, i>>
        BY <3>1, <1>u
      <4>2. PICK i \in 1..g[y] : u = <<y, i>>
        BY <4>1
      <4>3. CASE y = x /\ i > f[x]
        BY <4>2, <4>3, <1>1
      <4>4. CASE ~(y = x /\ i > f[x])
        <5>1. i \in 1..f[y]
          BY <4>4, <1>1
        <5> QED BY <5>1, <4>2, <1>u
      <4> QED BY <4>3, <4>4
    <3>2. ASSUME u \in Units(f) PROVE u \in Units(g)
      <4>1. PICK y \in S : \E i \in 1..f[y] : u = <<y, i>>
        BY <3>2, <1>u
      <4>2. PICK i \in 1..f[y] : u = <<y, i>>
        BY <4>1
      <4>3. i \in 1..g[y]
        BY <1>1
      <4> QED BY <4>2, <4>3, <1>u
    <3>3. ASSUME u \in extra PROVE u \in Units(g)
      <4>1. PICK i \in (f[x] + 1)..(f[x] + n) : u = <<x, i>>
        BY <3>3
      <4>2. i \in 1..g[x]
        BY <1>1
      <4> QED BY <4>1, <4>2, <1>u
    <3> QED BY <3>1, <3>2, <3>3
  <2> QED BY <2>1
<1>3. Units(f) \cap extra = {}
  <2>1. SUFFICES ASSUME NEW u \in Units(f), u \in extra PROVE FALSE
    OBVIOUS
  <2>2. PICK y \in S : \E i \in 1..f[y] : u = <<y, i>>
    BY <1>u
  <2>3. PICK i \in 1..f[y] : u = <<y, i>>
    BY <2>2
  <2>4. y = x /\ i \in (f[x] + 1)..(f[x] + n)
    BY <2>1, <2>3
  <2> QED BY <2>3, <2>4
<1>4. IsFiniteSet(extra) /\ Cardinality(extra) = n
  <2>1. /\ f[x] + 1 \in Int
        /\ f[x] + n \in Int
        /\ (IF f[x] + 1 > f[x] + n THEN 0 ELSE (f[x] + n) - (f[x] + 1) + 1) = n
    OBVIOUS
  <2> DEFINE levels == (f[x] + 1)..(f[x] + n)
  <2>2. IsFiniteSet(levels) /\ Cardinality(levels) = n
    BY <2>1, FS_Interval
  <2>3. IsFiniteSet({x}) /\ Cardinality({x}) = 1
    BY FS_Singleton
  <2> HIDE DEF levels
  <2>4. IsFiniteSet({x} \X levels) /\ Cardinality({x} \X levels) = 1 * n
    BY <2>2, <2>3, FS_Product
  <2> QED BY <2>4 DEF levels
<1>5. Cardinality({}) = 0
  BY FS_EmptySet
<1>6. IsFiniteSet(Units(f)) /\ Cardinality(Units(f)) \in Nat
  BY UnitsFinite, FS_CardinalityType
<1> HIDE DEF extra
<1>7. Cardinality(Units(g)) = Cardinality(Units(f)) + n - 0
  BY <1>2, <1>3, <1>4, <1>5, <1>6, FS_Union
<1> QED BY <1>6, <1>7 DEF Total, g

\* n units taken from one summand that has them lower the sum by n.
LEMMA TotalSubtract ==
  ASSUME NEW S, IsFiniteSet(S), NEW f \in [S -> Nat], NEW x \in S,
         NEW n \in Nat, n <= f[x]
  PROVE  Total([f EXCEPT ![x] = f[x] - n]) = Total(f) - n
<1> DEFINE g == [f EXCEPT ![x] = f[x] - n]
<1>1. g \in [S -> Nat]
  OBVIOUS
<1>2. [g EXCEPT ![x] = g[x] + n] = f
  <2>1. g[x] + n = f[x] /\ \A y \in S : y # x => g[y] = f[y]
    OBVIOUS
  <2> HIDE DEF g
  <2> QED BY <1>1, <2>1
<1> HIDE DEF g
<1>3. Total(f) = Total(g) + n
  BY <1>1, <1>2, TotalAdd
<1>4. Total(g) \in Nat /\ Total(f) \in Nat
  BY <1>1, TotalType
<1>5. Total(g) = Total(f) - n
  BY <1>3, <1>4
<1> QED BY <1>5 DEF g

\* A sum is the summand at x and the sum of the others.
LEMMA TotalSplit ==
  ASSUME NEW S, IsFiniteSet(S), NEW x \in S, NEW g \in [S -> Nat]
  PROVE  Total(g) = Total([g EXCEPT ![x] = 0]) + g[x]
<1>1. g[x] \in Nat /\ g[x] <= g[x] /\ g[x] - g[x] = 0
  OBVIOUS
<1>2. Total([g EXCEPT ![x] = g[x] - g[x]]) = Total(g) - g[x]
  BY <1>1, TotalSubtract
<1>3. Total([g EXCEPT ![x] = 0]) = Total(g) - g[x]
  BY <1>1, <1>2
<1>4. Total(g) \in Nat
  BY TotalType
<1> HIDE DEF Total
<1> QED BY <1>1, <1>3, <1>4

\* A new summand adds itself to the sum.
LEMMA TotalExtend ==
  ASSUME NEW S, IsFiniteSet(S), NEW x, x \notin S,
         NEW f \in [S -> Nat], NEW g \in [S \cup {x} -> Nat],
         \A y \in S : g[y] = f[y]
  PROVE  Total(g) = Total(f) + g[x]
<1> DEFINE base == [g EXCEPT ![x] = 0]
<1>1. IsFiniteSet(S \cup {x}) /\ x \in S \cup {x}
  BY FS_AddElement
<1>2. base \in [S \cup {x} -> Nat] /\ base[x] = 0 /\ \A y \in S : base[y] = f[y]
  OBVIOUS
<1>3. Total(g) = Total(base) + g[x]
  BY <1>1, TotalSplit
<1> HIDE DEF base
<1>u. /\ \A u : u \in Units(f) <=> \E y \in S : \E i \in 1..f[y] : u = <<y, i>>
      /\ \A u : u \in Units(base) <=> \E y \in S \cup {x} : \E i \in 1..base[y] : u = <<y, i>>
  BY <1>2, UnitsMember
<1>4. Units(base) = Units(f)
  <2>1. ASSUME NEW u PROVE u \in Units(base) <=> u \in Units(f)
    <3>1. ASSUME u \in Units(base) PROVE u \in Units(f)
      <4>1. PICK y \in S \cup {x} : \E i \in 1..base[y] : u = <<y, i>>
        BY <3>1, <1>u
      <4>2. y \in S /\ base[y] = f[y]
        BY <4>1, <1>2
      <4> QED BY <4>1, <4>2, <1>u
    <3>2. ASSUME u \in Units(f) PROVE u \in Units(base)
      <4>1. PICK y \in S : \E i \in 1..f[y] : u = <<y, i>>
        BY <3>2, <1>u
      <4>2. y \in S \cup {x} /\ base[y] = f[y]
        BY <1>2
      <4> QED BY <4>1, <4>2, <1>u
    <3> QED BY <3>1, <3>2
  <2> QED BY <2>1
<1> QED BY <1>3, <1>4 DEF Total
\* A summand replaced by another number.
LEMMA TotalReplace ==
  ASSUME NEW S, IsFiniteSet(S), NEW f \in [S -> Nat], NEW x \in S, NEW n \in Nat
  PROVE  Total([f EXCEPT ![x] = n]) = Total(f) - f[x] + n
<1> DEFINE g == [f EXCEPT ![x] = n]
<1>1. g \in [S -> Nat] /\ g[x] = n
  OBVIOUS
<1>2. [g EXCEPT ![x] = 0] = [f EXCEPT ![x] = 0]
  OBVIOUS
<1> HIDE DEF g
<1>3. Total(g) = Total([g EXCEPT ![x] = 0]) + n
  BY <1>1, TotalSplit
<1>4. Total(f) = Total([f EXCEPT ![x] = 0]) + f[x]
  BY TotalSplit
<1>5. [f EXCEPT ![x] = 0] \in [S -> Nat] /\ f[x] \in Nat
  OBVIOUS
<1>6. Total([f EXCEPT ![x] = 0]) \in Nat
  BY <1>5, TotalType
<1>7. Total(g) = Total(f) - f[x] + n
  BY <1>2, <1>3, <1>4, <1>5, <1>6
<1> QED BY <1>7 DEF g

\* What a list of payments pays, to everybody and to any one payee.
LEMMA PaymentsType ==
  ASSUME NEW allocs, IsFiniteSet(DOMAIN allocs),
         \A i \in DOMAIN allocs : allocs[i].amount \in Nat
  PROVE  AllocationSum(allocs) \in Nat /\ \A a : PaidTo(allocs, a) \in Nat
<1> DEFINE places(a) == {j \in DOMAIN allocs : allocs[j].buyer = a}
           own(a) == [i \in places(a) |-> allocs[i].amount]
<1>1. AllocationSum(allocs) \in Nat
  BY TotalType DEF AllocationSum
<1>2. ASSUME NEW a PROVE PaidTo(allocs, a) \in Nat
  <2>1. IsFiniteSet(places(a))
    BY FS_Subset
  <2>2. own(a) \in [places(a) -> Nat]
    OBVIOUS
  <2> HIDE DEF places
  <2>3. Total(own(a)) \in Nat
    BY <2>1, <2>2, TotalType
  <2> QED BY <2>3 DEF PaidTo, places
<1> QED BY <1>1, <1>2

-----------------------------------------------------------------------------
\* A set of naturals has a least element, and a bounded one a greatest.
LEMMA LeastNatural ==
  \A T \in SUBSET Nat : T # {} => \E x \in T : \A y \in T : x <= y
<1> DEFINE R == OpToRel(<, Nat)
<1>1. IsWellFoundedOn(R, Nat)
  BY NatLessThanWellFounded
<1>2. \A x, y \in Nat : <<x, y>> \in R <=> x < y
  BY DEF OpToRel
<1> HIDE DEF R
<1>3. SUFFICES ASSUME NEW T \in SUBSET Nat, T # {}
               PROVE  \E x \in T : \A y \in T : x <= y
  OBVIOUS
<1>4. PICK x \in T : \A y \in T : ~ (<<y, x>> \in R)
  BY <1>1, <1>3, WFMin
<1>5. ASSUME NEW y \in T PROVE x <= y
  <2>1. x \in Nat /\ y \in Nat
    BY <1>3
  <2>2. ~(y < x)
    BY <1>2, <1>4, <2>1
  <2> QED BY <2>1, <2>2
<1> QED BY <1>5

LEMMA GreatestNatural ==
  \A n \in Nat : \A T \in SUBSET (0..n) : T # {} => \E x \in T : \A y \in T : x >= y
<1> SUFFICES ASSUME NEW n \in Nat, NEW T \in SUBSET (0..n), T # {}
             PROVE  \E x \in T : \A y \in T : x >= y
  OBVIOUS
<1> DEFINE U == {n - t : t \in T}
<1>1. U \in SUBSET Nat /\ U # {}
  <2>1. ASSUME NEW t \in T PROVE n - t \in Nat
    <3>1. t \in 0..n
      OBVIOUS
    <3> QED BY <3>1
  <2>2. U # {}
    OBVIOUS
  <2> QED BY <2>1, <2>2
<1>2. PICK u \in U : \A v \in U : u <= v
  BY <1>1, LeastNatural
<1>3. PICK x \in T : u = n - x
  BY <1>2
<1>4. ASSUME NEW y \in T PROVE x >= y
  <2>1. n - y \in U
    OBVIOUS
  <2>2. n - x <= n - y
    BY <2>1, <1>2, <1>3
  <2>3. x \in 0..n /\ y \in 0..n
    OBVIOUS
  <2> QED BY <2>2, <2>3
<1> QED BY <1>4

-----------------------------------------------------------------------------
\* The sum is linear: a multiple of g added to f pointwise adds that multiple of
\* the sum of g.  By the least sum of g for which that fails.
LEMMA TotalLinear ==
  ASSUME NEW S, IsFiniteSet(S), NEW k \in Nat,
         NEW f \in [S -> Nat], NEW g \in [S -> Nat], NEW h \in [S -> Nat],
         \A x \in S : h[x] = f[x] + k * g[x]
  PROVE  Total(h) = Total(f) + k * Total(g)
<1> DEFINE Linear(p, q) == \A x \in S : q[x] = f[x] + k * p[x]
           Fails(n) == \E p, q \in [S -> Nat] :
                         /\ Linear(p, q)
                         /\ Total(p) = n
                         /\ Total(q) # Total(f) + k * n
           T == {n \in Nat : Fails(n)}
<1>0. \A r \in [S -> Nat], y \in S, d \in Nat :
        d <= r[y] => Total([r EXCEPT ![y] = r[y] - d]) = Total(r) - d
  BY TotalSubtract, Zenon
<1>1. SUFFICES ASSUME T # {} PROVE FALSE
  <2>1. Total(g) \in Nat
    BY TotalType
  <2>2. ~Fails(Total(g)) => Total(h) = Total(f) + k * Total(g)
    OBVIOUS
  <2> HIDE DEF Fails
  <2> QED BY <2>1, <2>2
<1>2. PICK n \in T : \A m \in T : n <= m
  <2>1. T \in SUBSET Nat
    OBVIOUS
  <2> HIDE DEF T
  <2> QED BY <1>1, <2>1, LeastNatural
<1>3. PICK p \in [S -> Nat], q \in [S -> Nat] :
        Linear(p, q) /\ Total(p) = n /\ Total(q) # Total(f) + k * n
  OBVIOUS
<1>4. n \in Nat /\ Total(f) \in Nat /\ Total(q) \in Nat
  BY TotalType
<1>5. CASE n = 0
  <2>1. \A x \in S : p[x] = 0
    BY <1>3, <1>5, TotalZero
  <2>2. \A x \in S : q[x] = f[x]
    BY <1>3, <2>1
  <2>3. q = f
    BY <2>2
  <2> QED BY <1>3, <1>4, <1>5, <2>3
<1>6. CASE n # 0
  <2>1. PICK x \in S : p[x] # 0
    <3>1. Total(p) # 0
      BY <1>3, <1>6
    <3> HIDE DEF T, Fails, Linear
    <3> QED BY <3>1, TotalZero, Zenon
  <2> DEFINE p1 == [p EXCEPT ![x] = p[x] - 1]
             q1 == [q EXCEPT ![x] = q[x] - k]
  <2>2. q[x] = f[x] + k * p[x] /\ p[x] \in Nat /\ q[x] \in Nat /\ f[x] \in Nat
    BY <1>3
  <2>3. k * p[x] = k * (p[x] - 1) + k /\ k * (p[x] - 1) \in Nat
    <3>1. p[x] - 1 \in Nat
      BY <2>1, <2>2
    <3>2. PICK m \in Nat : m = p[x] - 1
      BY <3>1
    <3>3. k * (m + 1) = k * m + k /\ k * m \in Nat
      OBVIOUS
    <3> QED BY <2>2, <3>2, <3>3
  <2>4. 1 <= p[x] /\ k <= q[x]
    BY <2>1, <2>2, <2>3
  <2>5. p1 \in [S -> Nat] /\ q1 \in [S -> Nat]
    BY <2>2, <2>4
  <2>6. Total(p1) = n - 1 /\ Total(q1) = Total(q) - k
    <3> HIDE DEF Linear
    <3>1. Total(p1) = Total(p) - 1
      BY <1>0, <2>4
    <3>2. Total(q1) = Total(q) - k
      BY <1>0, <2>4
    <3> QED BY <3>1, <3>2, <1>3
  <2>7. Linear(p1, q1)
    <3>1. ASSUME NEW y \in S PROVE q1[y] = f[y] + k * p1[y]
      <4>1. CASE y = x
        BY <4>1, <2>2, <2>3
      <4>2. CASE y # x
        BY <4>2, <1>3
      <4> QED BY <4>1, <4>2
    <3> QED BY <3>1
  <2>8. k * n = k * (n - 1) + k /\ k * (n - 1) \in Nat
    <3>1. PICK m \in Nat : m = n - 1
      BY <1>4, <1>6
    <3>2. k * (m + 1) = k * m + k /\ k * m \in Nat
      OBVIOUS
    <3> QED BY <1>4, <3>1, <3>2
  <2> HIDE DEF p1, q1, Linear
  <2>9. Total(q1) # Total(f) + k * (n - 1)
    BY <1>3, <1>4, <2>6, <2>8
  <2>10. Fails(n - 1)
    BY <2>5, <2>6, <2>7, <2>9
  <2> HIDE DEF Fails
  <2>11. n - 1 \in T
    BY <1>4, <1>6, <2>10
  <2> QED BY <1>2, <1>4, <2>11
<1> QED BY <1>5, <1>6
\* Summands of zero may be left out.
LEMMA TotalSupport ==
  ASSUME NEW S, NEW g \in [S -> Nat], NEW R \in SUBSET S,
         \A x \in S \ R : g[x] = 0
  PROVE  Total([x \in R |-> g[x]]) = Total(g)
<1> DEFINE f == [x \in R |-> g[x]]
<1>1. f \in [R -> Nat]
  OBVIOUS
<1>2. \A u : u \in Units(f) <=> \E x \in R : \E i \in 1..f[x] : u = <<x, i>>
  <2> HIDE DEF f
  <2> QED BY <1>1, UnitsMember
<1>3. \A u : u \in Units(g) <=> \E x \in S : \E i \in 1..g[x] : u = <<x, i>>
  BY UnitsMember
<1>4. \A x \in S \ R : 1..g[x] = {}
  OBVIOUS
<1>5. \A u : u \in Units(f) <=> u \in Units(g)
  BY <1>2, <1>3, <1>4
<1>6. Units(f) = Units(g)
  BY <1>5
<1> QED BY <1>6 DEF Total

\* A sum over pairs is the sum of the sums of the rows.  By the least sum for
\* which that fails.
LEMMA TotalOfRows ==
  ASSUME NEW X, NEW Y, IsFiniteSet(X), IsFiniteSet(Y), NEW g \in [X \X Y -> Nat]
  PROVE  Total(g) = Total([x \in X |-> Total([y \in Y |-> g[<<x, y>>]])])
<1> DEFINE Row(f, x) == [y \in Y |-> f[<<x, y>>]]
           Rows(f) == [x \in X |-> Total(Row(f, x))]
           Fails(n) == \E f \in [X \X Y -> Nat] : Total(f) = n /\ Total(Rows(f)) # n
           T == {n \in Nat : Fails(n)}
<1>1. IsFiniteSet(X \X Y)
  BY FS_Product
<1>0. \A S : IsFiniteSet(S) =>
        \A r \in [S -> Nat], y \in S :
          1 <= r[y] => Total([r EXCEPT ![y] = r[y] - 1]) = Total(r) - 1
  <2>1. ASSUME NEW S, IsFiniteSet(S), NEW r \in [S -> Nat], NEW y \in S, NEW d \in Nat,
               d <= r[y], d = 1
        PROVE  Total([r EXCEPT ![y] = r[y] - 1]) = Total(r) - 1
    <3>1. Total([r EXCEPT ![y] = r[y] - d]) = Total(r) - d
      BY <2>1, TotalSubtract
    <3> QED BY <2>1, <3>1
  <2>2. 1 \in Nat
    OBVIOUS
  <2> QED BY <2>1, <2>2
<1>a. \A r \in [X \X Y -> Nat], y \in X \X Y :
        1 <= r[y] => Total([r EXCEPT ![y] = r[y] - 1]) = Total(r) - 1
  BY <1>0, <1>1, Zenon
<1>b. /\ \A r \in [X -> Nat], y \in X :
           1 <= r[y] => Total([r EXCEPT ![y] = r[y] - 1]) = Total(r) - 1
      /\ \A r \in [Y -> Nat], y \in Y :
           1 <= r[y] => Total([r EXCEPT ![y] = r[y] - 1]) = Total(r) - 1
  BY <1>0, Zenon
<1>2. \A f \in [X \X Y -> Nat] : /\ \A x \in X : /\ Row(f, x) \in [Y -> Nat]
                                               /\ Total(Row(f, x)) \in Nat
                                /\ Rows(f) \in [X -> Nat]
  <2>1. ASSUME NEW f \in [X \X Y -> Nat], NEW x \in X
        PROVE  Row(f, x) \in [Y -> Nat] /\ Total(Row(f, x)) \in Nat
    <3>1. Row(f, x) \in [Y -> Nat]
      OBVIOUS
    <3> HIDE DEF Row
    <3> QED BY <3>1, TotalType
  <2> HIDE DEF Row
  <2> QED BY <2>1
<1>3. SUFFICES ASSUME T # {} PROVE FALSE
  <2>1. Total(g) \in Nat
    BY <1>1, TotalType
  <2>2. ~Fails(Total(g)) => Total(g) = Total(Rows(g))
    OBVIOUS
  <2> HIDE DEF Fails
  <2> QED BY <2>1, <2>2
<1>4. PICK n \in T : \A m \in T : n <= m
  <2>1. T \in SUBSET Nat
    OBVIOUS
  <2> HIDE DEF T
  <2> QED BY <1>3, <2>1, LeastNatural
<1>5. PICK f \in [X \X Y -> Nat] : Total(f) = n /\ Total(Rows(f)) # n
  OBVIOUS
<1>6. n \in Nat
  OBVIOUS
<1>7. CASE n = 0
  <2>1. \A p \in X \X Y : f[p] = 0
    BY <1>1, <1>5, <1>7, TotalZero
  <2>2. ASSUME NEW x \in X PROVE Rows(f)[x] = 0
    <3>1. \A y \in Y : Row(f, x)[y] = 0
      BY <2>1
    <3>2. Row(f, x) \in [Y -> Nat]
      BY <1>2
    <3> HIDE DEF Row
    <3>3. Total(Row(f, x)) = 0
      BY <3>1, <3>2, TotalZero
    <3> QED BY <3>3
  <2>3. Rows(f) \in [X -> Nat]
    BY <1>2
  <2> HIDE DEF Rows
  <2> QED BY <1>5, <1>7, <2>2, <2>3, TotalZero
<1>8. CASE n # 0
  <2>1. PICK p \in X \X Y : f[p] # 0
    BY <1>1, <1>5, <1>8, TotalZero
  <2>2. PICK x \in X, y \in Y : p = <<x, y>>
    OBVIOUS
  <2> DEFINE f1 == [f EXCEPT ![p] = f[p] - 1]
             row == Row(f, x)
             rows == Rows(f)
  <2>3. f[p] \in Nat /\ 1 <= f[p] /\ f1 \in [X \X Y -> Nat]
    BY <2>1
  <2>4. Total(f1) = n - 1
    <3>1. Total(f1) = Total(f) - 1
      BY <1>a, <2>3
    <3> QED BY <1>5, <3>1
  <2>5. Row(f1, x) = [row EXCEPT ![y] = row[y] - 1] /\ row[y] = f[p]
    BY <2>2, <2>3
  <2>6. \A z \in X : z # x => Row(f1, z) = Row(f, z)
    BY <2>2
  <2>7. row \in [Y -> Nat] /\ rows \in [X -> Nat] /\ rows[x] = Total(row)
    BY <1>2
  <2> HIDE DEF f1
  <2>8. Total(Row(f1, x)) = Total(row) - 1 /\ 1 <= Total(row)
    <3> HIDE DEF row, Row
    <3>1. row[y] <= Total(row) /\ row[y] \in Nat
      BY <2>7, TotalBoundsPoint
    <3>2. Total([row EXCEPT ![y] = row[y] - 1]) = Total(row) - 1
      BY <1>b, <2>3, <2>5, <2>7
    <3>3. Total(row) \in Nat
      BY <2>7, TotalType
    <3> QED BY <2>3, <2>5, <3>1, <3>2, <3>3
  <2> HIDE DEF row
  <2>9. Rows(f1) = [rows EXCEPT ![x] = rows[x] - 1]
    <3> HIDE DEF Row
    <3> QED BY <2>6, <2>7, <2>8
  <2>10. Total(Rows(f1)) = Total(rows) - 1 /\ Total(rows) \in Nat
    <3> HIDE DEF rows, Rows
    <3>1. 1 <= rows[x]
      BY <2>7, <2>8
    <3>2. Total([rows EXCEPT ![x] = rows[x] - 1]) = Total(rows) - 1
      BY <1>b, <2>7, <3>1
    <3>3. Total(rows) \in Nat
      BY <2>7, TotalType
    <3> QED BY <2>9, <3>2, <3>3
  <2>11. n - 1 \in T
    <3>1. Total(Rows(f1)) # n - 1
      BY <1>5, <1>6, <2>10
    <3>2. n - 1 \in Nat
      BY <1>6, <1>8
    <3> HIDE DEF Rows
    <3> QED BY <2>3, <2>4, <3>1, <3>2
  <2> HIDE DEF T
  <2> QED BY <1>4, <1>6, <2>11
<1> QED BY <1>7, <1>8

\* Claims p, each worth no more than e in units of 1/k, are together worth no
\* more than the sum of e.
LEMMA TotalWorth ==
  ASSUME NEW S, IsFiniteSet(S), NEW k \in Nat,
         NEW p \in [S -> Nat], NEW e \in [S -> Nat],
         \A x \in S : p[x] * k <= e[x]
  PROVE  Total(p) * k <= Total(e)
<1> DEFINE zero == [x \in S |-> 0]
           worth == [x \in S |-> k * p[x]]
<1>1. zero \in [S -> Nat] /\ worth \in [S -> Nat] /\ \A x \in S : zero[x] = 0
  OBVIOUS
<1>2. \A x \in S : worth[x] = zero[x] + k * p[x] /\ worth[x] <= e[x]
  OBVIOUS
<1> HIDE DEF zero, worth
<1>3. Total(worth) = Total(zero) + k * Total(p)
  BY <1>1, <1>2, TotalLinear
<1>4. Total(zero) = 0
  BY <1>1, TotalZero
<1>5. Total(worth) <= Total(e)
  BY <1>1, <1>2, TotalMonotone
<1>6. Total(p) \in Nat
  BY TotalType
<1> QED BY <1>3, <1>4, <1>5, <1>6

\* Rounding a grant down loses less than one unit of the scale.
LEMMA GrantRounding ==
  ASSUME NEW n \in Nat, NEW scale \in Nat \ {0}
  PROVE  /\ n \div scale \in Nat /\ n % scale \in Nat
         /\ n = (n \div scale) * scale + (n % scale)
OBVIOUS

\* A product of naturals is a natural, and so is its quotient.
LEMMA ScaledType ==
  ASSUME NEW a \in Nat, NEW b \in Nat, NEW d \in Nat \ {0}
  PROVE  (a * b) \div d \in Nat
<1>1. a * b \in Nat
  OBVIOUS
<1> QED BY <1>1

\* A product grows with its factor, and a quotient with its dividend.
LEMMA ProductMonotone ==
  ASSUME NEW c \in Nat, NEW s \in Nat, NEW t \in Nat, s <= t
  PROVE  c * s <= c * t
<1>1. PICK d \in Nat : t = s + d
  <2>1. t - s \in Nat /\ t = s + (t - s)
    OBVIOUS
  <2> QED BY <2>1
<1>2. c * t = c * s + c * d
  BY <1>1
<1>3. c * d \in Nat /\ c * s \in Nat
  OBVIOUS
<1> QED BY <1>2, <1>3

LEMMA QuotientMonotone ==
  ASSUME NEW a \in Nat, NEW b \in Nat, a <= b, NEW d \in Nat \ {0}
  PROVE  a \div d <= b \div d
<1> DEFINE p == a \div d
           q == b \div d
<1>1. p \in Nat /\ q \in Nat
  OBVIOUS
<1>2. d * p <= a /\ b < d * (q + 1)
  OBVIOUS
<1> HIDE DEF p, q
<1>3. SUFFICES ASSUME ~(p <= q) PROVE FALSE
  BY DEF p, q
<1>4. q + 1 <= p
  BY <1>1, <1>3
<1>5. d * (q + 1) <= d * p
  BY <1>1, <1>4, ProductMonotone
<1>6. d * p \in Nat /\ d * (q + 1) \in Nat
  BY <1>1
<1> QED BY <1>2, <1>5, <1>6

\* A quotient lies between the multiples of the divisor that the number does.
LEMMA QuotientBounds ==
  ASSUME NEW x \in Nat, NEW q \in Nat, NEW d \in Nat \ {0}
  PROVE  /\ x \div d \in Nat
         /\ q * d <= x => q <= x \div d
         /\ x <= q * d => x \div d <= q
<1> DEFINE y == x \div d
<1>1. y \in Nat /\ y * d <= x /\ x < y * d + d
  BY GrantRounding, x % d < d
<1> HIDE DEF y
<1>2. ASSUME NEW a \in Nat, NEW b \in Nat, a < b PROVE a * d + d <= b * d
  <2>1. PICK k \in Nat : b = a + 1 + k
    <3>1. b - a - 1 \in Nat /\ b = a + 1 + (b - a - 1)
      BY <1>2
    <3> QED BY <3>1
  <2>2. b * d = a * d + d + k * d /\ k * d \in Nat /\ a * d \in Nat
    BY <2>1
  <2> QED BY <2>2
<1>3. q * d <= x => ~(y < q)
  <2>1. y < q => y * d + d <= q * d
    BY <1>1, <1>2
  <2>2. y * d \in Nat /\ q * d \in Nat
    BY <1>1
  <2> QED BY <1>1, <2>1, <2>2
<1>4. x <= q * d => ~(q < y)
  <2>1. q < y => q * d + d <= y * d
    BY <1>1, <1>2
  <2>2. y * d \in Nat /\ q * d \in Nat
    BY <1>1
  <2> QED BY <1>1, <2>1, <2>2
<1> QED BY <1>1, <1>3, <1>4 DEF y

\* What each of n shares is granted of an amount, in units of 1/scale, is
\* together at most the amount.
LEMMA PerShareFunded ==
  ASSUME NEW amount \in Nat, NEW scale \in Nat \ {0}, NEW n \in Nat \ {0}
  PROVE  /\ (amount * scale) \div n \in Nat
         /\ ((amount * scale) \div n) * n <= amount * scale
<1>1. amount * scale \in Nat
  OBVIOUS
<1> QED BY <1>1, GrantRounding

\* A stake c with debt d under accumulator a, restaked as c2: the premium it has
\* earned, exactly and in units of 1/scale, is kept up to what the new debt is
\* rounded down by.
LEMMA Regrant ==
  ASSUME NEW c \in Nat, NEW c2 \in Nat, NEW a \in Nat, NEW d \in Nat,
         NEW scale \in Nat \ {0}, d * scale <= c * a
  PROVE  /\ (c * a) \div scale - d \in Nat /\ (c2 * a) \div scale \in Nat
         /\ (c * a) % scale \in Nat /\ (c2 * a) % scale \in Nat
         /\ ((c2 * a) \div scale) * scale <= c2 * a
         /\ c * a - d * scale = ((c * a) \div scale - d) * scale + ((c * a) % scale)
         /\ c2 * a - ((c2 * a) \div scale) * scale = (c2 * a) % scale
<1> DEFINE x == c * a
           y == c2 * a
           q == x \div scale
<1>1. x \in Nat /\ y \in Nat
  OBVIOUS
<1> HIDE DEF x, y
<1>2. /\ q \in Nat /\ x % scale \in Nat /\ x = q * scale + (x % scale)
      /\ x % scale < scale
      /\ y \div scale \in Nat /\ y % scale \in Nat
      /\ y = (y \div scale) * scale + (y % scale)
  BY <1>1
<1> HIDE DEF q
<1>3. d <= q
  <2>1. SUFFICES ASSUME q + 1 <= d PROVE FALSE
    BY <1>2
  <2>2. (q + 1) * scale <= d * scale
    BY <2>1, <1>2
  <2>3. (q + 1) * scale = q * scale + scale
    BY <1>2
  <2>4. d * scale <= x /\ q * scale \in Nat /\ d * scale \in Nat
    BY <1>2 DEF x
  <2> QED BY <1>1, <1>2, <2>2, <2>3, <2>4
<1>4. (q - d) * scale = q * scale - d * scale
  BY <1>2, <1>3
<1>5. q * scale \in Nat /\ d * scale \in Nat /\ (y \div scale) * scale \in Nat
  BY <1>2
<1> QED BY <1>1, <1>2, <1>3, <1>4, <1>5 DEF x, y, q
-----------------------------------------------------------------------------
(***************************************************************************)
(* Stakes under an accumulator, as every vault and the router keep them: a *)
(* stake is granted stake * a \div scale, less the debt set when it was    *)
(* last changed.  The rounding makes what is owed follow no simple law, so *)
(* it is counted exactly, in units of 1/scale: Earnings change by nothing  *)
(* but the rounding of a new debt, and grow with the accumulator by the    *)
(* stakes it is granted to.                                                *)
(***************************************************************************)
Stakes == [stake : Nat, debt : Nat, claimable : Nat]

\* No stake has been granted less than its debt.
IsLedger(S, l, a, scale) ==
  /\ IsFiniteSet(S)
  /\ l \in [S -> Stakes]
  /\ a \in Nat /\ scale \in Nat \ {0}
  /\ \A x \in S : l[x].debt * scale <= l[x].stake * a

StakesIn(l) == [x \in DOMAIN l |-> l[x].stake]

Earnings(l, a, scale) ==
  [x \in DOMAIN l |-> l[x].claimable * scale + (l[x].stake * a - l[x].debt * scale)]

\* What may be claimed, in whole tokens.
Claims(l, a, scale) ==
  [x \in DOMAIN l |-> l[x].claimable + ((l[x].stake * a) \div scale - l[x].debt)]

\* The stake of x set to n with its debt reset and p left to claim.
Restaked(l, x, n, p, a, scale) ==
  [l EXCEPT ![x] = [stake |-> n, debt |-> (n * a) \div scale, claimable |-> p]]

\* All of a ledger's figures are natural numbers, and what has been earned is
\* what may be claimed and what was rounded off.
LEMMA LedgerTypes ==
  ASSUME NEW S, NEW l, NEW a, NEW scale, IsLedger(S, l, a, scale)
  PROVE  /\ StakesIn(l) \in [S -> Nat] /\ Total(StakesIn(l)) \in Nat
         /\ Earnings(l, a, scale) \in [S -> Nat] /\ Total(Earnings(l, a, scale)) \in Nat
         /\ Claims(l, a, scale) \in [S -> Nat] /\ Total(Claims(l, a, scale)) \in Nat
         /\ \A x \in S : Earnings(l, a, scale)[x] =
                           Claims(l, a, scale)[x] * scale + ((l[x].stake * a) % scale)
<1> USE DEF IsLedger
<1>1. ASSUME NEW x \in S
      PROVE  /\ StakesIn(l)[x] \in Nat
             /\ Earnings(l, a, scale)[x] \in Nat
             /\ Claims(l, a, scale)[x] \in Nat
             /\ Earnings(l, a, scale)[x] =
                  Claims(l, a, scale)[x] * scale + ((l[x].stake * a) % scale)
  <2> DEFINE c == l[x].stake
             d == l[x].debt
             p == l[x].claimable
             q == (c * a) \div scale - d
  <2>1. c \in Nat /\ d \in Nat /\ p \in Nat /\ d * scale <= c * a
    BY DEF Stakes
  <2>2. /\ StakesIn(l)[x] = c
        /\ Earnings(l, a, scale)[x] = p * scale + (c * a - d * scale)
        /\ Claims(l, a, scale)[x] = p + q
    BY DEF StakesIn, Earnings, Claims
  <2> HIDE DEF c, d, p
  <2>3. q \in Nat /\ (c * a) % scale \in Nat /\ c * a - d * scale = q * scale + ((c * a) % scale)
    BY <2>1, Regrant
  <2> HIDE DEF q
  <2>4. (p + q) * scale = p * scale + q * scale /\ p * scale \in Nat /\ q * scale \in Nat
    BY <2>1, <2>3
  <2>5. p * scale + (q * scale + ((c * a) % scale)) = (p + q) * scale + ((c * a) % scale)
    BY <2>3, <2>4
  <2> QED BY <2>1, <2>2, <2>3, <2>4, <2>5 DEF c
<1>2. /\ StakesIn(l) \in [S -> Nat]
      /\ Earnings(l, a, scale) \in [S -> Nat]
      /\ Claims(l, a, scale) \in [S -> Nat]
  BY <1>1 DEF StakesIn, Earnings, Claims
<1> QED BY <1>1, <1>2, TotalType

\* Restaking: the earnings of that stake become what is left to claim and the
\* rounding of the new debt; all others keep theirs.
LEMMA LedgerRestake ==
  ASSUME NEW S, NEW l, NEW a, NEW scale, IsLedger(S, l, a, scale),
         NEW x \in S, NEW n \in Nat, NEW p \in Nat
  PROVE  LET l2 == Restaked(l, x, n, p, a, scale)
         IN  /\ IsLedger(S, l2, a, scale)
             /\ (n * a) % scale \in Nat
             /\ Total(StakesIn(l2)) = Total(StakesIn(l)) - l[x].stake + n
             /\ Total(Earnings(l2, a, scale)) =
                  Total(Earnings(l, a, scale)) - Earnings(l, a, scale)[x]
                    + (p * scale + ((n * a) % scale))
             /\ Claims(l2, a, scale) = [Claims(l, a, scale) EXCEPT ![x] = p]
<1> DEFINE l2 == Restaked(l, x, n, p, a, scale)
           debt == (n * a) \div scale
           earned == p * scale + ((n * a) % scale)
<1>1. IsFiniteSet(S) /\ l \in [S -> Stakes] /\ a \in Nat /\ scale \in Nat \ {0}
  BY DEF IsLedger
<1>2. /\ debt \in Nat /\ (n * a) % scale \in Nat /\ debt * scale <= n * a
      /\ n * a - debt * scale = (n * a) % scale
  BY <1>1, 0 \in Nat, 0 * scale <= n * a, Regrant
<1>3. /\ l2 \in [S -> Stakes]
      /\ l2[x] = [stake |-> n, debt |-> debt, claimable |-> p]
      /\ \A y \in S : y # x => l2[y] = l[y]
  BY <1>1, <1>2 DEF Restaked, Stakes
<1> HIDE DEF l2
<1>4. IsLedger(S, l2, a, scale)
  BY <1>1, <1>2, <1>3 DEF IsLedger
<1>5. StakesIn(l2) = [StakesIn(l) EXCEPT ![x] = n]
  <2>1. StakesIn(l2)[x] = n /\ \A y \in S : y # x => StakesIn(l2)[y] = StakesIn(l)[y]
    BY <1>1, <1>3 DEF StakesIn
  <2>2. StakesIn(l2) = [y \in S |-> StakesIn(l2)[y]]
    BY <1>3 DEF StakesIn
  <2>3. StakesIn(l) = [y \in S |-> StakesIn(l)[y]]
    BY <1>1 DEF StakesIn
  <2> QED BY <2>1, <2>2, <2>3
<1>6. Earnings(l2, a, scale) = [Earnings(l, a, scale) EXCEPT ![x] = earned]
  <2>1. Earnings(l2, a, scale)[x] = earned
    BY <1>2, <1>3 DEF Earnings
  <2> QED BY <1>1, <1>3, <2>1 DEF Earnings
<1>7. Claims(l2, a, scale) = [Claims(l, a, scale) EXCEPT ![x] = p]
  <2>1. Claims(l2, a, scale)[x] = p
    BY <1>2, <1>3 DEF Claims
  <2> QED BY <1>1, <1>3, <2>1 DEF Claims
<1>8. earned \in Nat /\ StakesIn(l)[x] = l[x].stake
  BY <1>1, <1>2 DEF StakesIn
<1> HIDE DEF earned
<1>9. \A f \in [S -> Nat], m \in Nat : Total([f EXCEPT ![x] = m]) = Total(f) - f[x] + m
  BY <1>1, TotalReplace
<1>10. Total(StakesIn(l2)) = Total(StakesIn(l)) - l[x].stake + n
  BY <1>5, <1>8, <1>9, LedgerTypes
<1>11. Total(Earnings(l2, a, scale)) =
         Total(Earnings(l, a, scale)) - Earnings(l, a, scale)[x] + earned
  BY <1>6, <1>8, <1>9, LedgerTypes
<1> QED BY <1>2, <1>4, <1>7, <1>10, <1>11 DEF l2, earned

\* An accumulator that grows by k.
LEMMA LedgerGrant ==
  ASSUME NEW S, NEW l, NEW a, NEW scale, IsLedger(S, l, a, scale), NEW k \in Nat
  PROVE  /\ IsLedger(S, l, a + k, scale)
         /\ Total(Earnings(l, a + k, scale)) =
              Total(Earnings(l, a, scale)) + k * Total(StakesIn(l))
<1>1. IsFiniteSet(S) /\ l \in [S -> Stakes] /\ a \in Nat /\ scale \in Nat \ {0}
  BY DEF IsLedger
<1>2. ASSUME NEW x \in S
      PROVE  /\ l[x].debt * scale <= l[x].stake * (a + k)
             /\ Earnings(l, a + k, scale)[x] = Earnings(l, a, scale)[x] + k * StakesIn(l)[x]
  <2> DEFINE c == l[x].stake
             d == l[x].debt
             p == l[x].claimable
  <2>1. c \in Nat /\ d \in Nat /\ p \in Nat /\ d * scale <= c * a
    BY DEF Stakes, IsLedger
  <2>2. /\ StakesIn(l)[x] = c
        /\ Earnings(l, a, scale)[x] = p * scale + (c * a - d * scale)
        /\ Earnings(l, a + k, scale)[x] = p * scale + (c * (a + k) - d * scale)
    BY <1>1 DEF StakesIn, Earnings
  <2> HIDE DEF c, d, p
  <2>3. /\ c * (a + k) = c * a + k * c
        /\ c * a \in Nat /\ k * c \in Nat /\ d * scale \in Nat /\ p * scale \in Nat
    BY <1>1, <2>1
  <2> QED BY <2>1, <2>2, <2>3 DEF c, d
<1>3. IsLedger(S, l, a + k, scale)
  BY <1>1, <1>2 DEF IsLedger
<1> DEFINE before == Earnings(l, a, scale)
           after == Earnings(l, a + k, scale)
           stakes == StakesIn(l)
<1>4. before \in [S -> Nat] /\ after \in [S -> Nat] /\ stakes \in [S -> Nat]
  BY <1>3, LedgerTypes
<1>5. \A x \in S : after[x] = before[x] + k * stakes[x]
  BY <1>2
<1> HIDE DEF before, after, stakes
<1>6. Total(after) = Total(before) + k * Total(stakes)
  BY <1>1, <1>4, <1>5, TotalLinear
<1> QED BY <1>3, <1>6 DEF before, after, stakes

\* What may be claimed is worth no more than what has been earned.
LEMMA LedgerClaims ==
  ASSUME NEW S, NEW l, NEW a, NEW scale, IsLedger(S, l, a, scale)
  PROVE  Total(Claims(l, a, scale)) * scale <= Total(Earnings(l, a, scale))
<1> DEFINE claims == Claims(l, a, scale)
           earnings == Earnings(l, a, scale)
<1>1. IsFiniteSet(S) /\ scale \in Nat
  BY DEF IsLedger
<1>2. claims \in [S -> Nat] /\ earnings \in [S -> Nat]
  BY LedgerTypes
<1>3. \A x \in S : claims[x] * scale <= earnings[x]
  <2>1. ASSUME NEW x \in S PROVE claims[x] * scale <= earnings[x]
    <3>1. earnings[x] = claims[x] * scale + ((l[x].stake * a) % scale)
      BY LedgerTypes
    <3>2. l[x].stake * a \in Nat /\ scale \in Nat \ {0}
      BY DEF IsLedger, Stakes
    <3>3. (l[x].stake * a) % scale \in Nat
      BY <3>2, GrantRounding
    <3>4. claims[x] * scale \in Nat
      BY <1>1, <1>2
    <3> QED BY <3>1, <3>3, <3>4
  <2> QED BY <2>1
<1> HIDE DEF claims, earnings
<1> QED BY <1>1, <1>2, <1>3, TotalWorth DEF claims, earnings
-----------------------------------------------------------------------------
\* The tokens beyond everything else that is owed, and what debts were rounded
\* down by, make up for all earnings.
Funded(l, a, scale, spare, rounded) ==
  /\ spare \in Int /\ rounded \in Nat
  /\ Total(Earnings(l, a, scale)) <= spare * scale + rounded

\* They pay all claims.
LEMMA ClaimsCovered ==
  ASSUME NEW S, NEW l, NEW a, NEW scale, IsLedger(S, l, a, scale),
         NEW spare, NEW rounded, Funded(l, a, scale, spare, rounded)
  PROVE  Total(Claims(l, a, scale)) * scale <= spare * scale + rounded
<1>1. scale \in Nat /\ Total(Claims(l, a, scale)) \in Nat /\ Total(Earnings(l, a, scale)) \in Nat
  BY LedgerTypes DEF IsLedger
<1>2. spare * scale \in Int /\ rounded \in Nat /\ Total(Claims(l, a, scale)) * scale \in Nat
  BY <1>1 DEF Funded
<1> QED BY <1>1, <1>2, LedgerClaims DEF Funded

\* A stake changed, its claims kept, at the cost of the new debt's rounding.
LEMMA FundedRestake ==
  ASSUME NEW S, NEW l, NEW a, NEW scale, IsLedger(S, l, a, scale),
         NEW spare, NEW rounded, NEW x \in S, NEW n \in Nat
  PROVE  LET l2 == Restaked(l, x, n, Claims(l, a, scale)[x], a, scale)
         IN  /\ IsLedger(S, l2, a, scale)
             /\ Total(StakesIn(l2)) = Total(StakesIn(l)) - l[x].stake + n
             /\ Claims(l2, a, scale) = Claims(l, a, scale)
             /\ Funded(l, a, scale, spare, rounded) =>
                  Funded(l2, a, scale, spare, rounded + ((n * a) % scale))
<1> DEFINE p == Claims(l, a, scale)[x]
           l2 == Restaked(l, x, n, p, a, scale)
           rest == (l[x].stake * a) % scale
           new == (n * a) % scale
<1>1. /\ p \in Nat /\ Claims(l, a, scale) \in [S -> Nat]
      /\ Earnings(l, a, scale)[x] = p * scale + rest
      /\ Total(Earnings(l, a, scale)) \in Nat
  BY LedgerTypes
<1>2. rest \in Nat /\ scale \in Nat
  <2>1. l[x].stake * a \in Nat /\ scale \in Nat \ {0}
    BY DEF IsLedger, Stakes
  <2> QED BY <2>1, GrantRounding
<1>3. /\ IsLedger(S, l2, a, scale)
      /\ new \in Nat
      /\ Total(StakesIn(l2)) = Total(StakesIn(l)) - l[x].stake + n
      /\ Total(Earnings(l2, a, scale)) =
           Total(Earnings(l, a, scale)) - Earnings(l, a, scale)[x] + (p * scale + new)
      /\ Claims(l2, a, scale) = [Claims(l, a, scale) EXCEPT ![x] = p]
  <2>1. p \in Nat
    BY <1>1
  <2> HIDE DEF p
  <2> QED BY <2>1, LedgerRestake
<1>4. Claims(l2, a, scale) = Claims(l, a, scale)
  BY <1>1, <1>3
<1> HIDE DEF p, l2, rest, new
<1>5. ASSUME Funded(l, a, scale, spare, rounded)
      PROVE  Funded(l2, a, scale, spare, rounded + new)
  <2>1. p * scale \in Nat /\ spare \in Int /\ spare * scale \in Int /\ rounded \in Nat
    BY <1>1, <1>2, <1>5 DEF Funded
  <2>2. Total(Earnings(l2, a, scale)) <= spare * scale + (rounded + new)
    BY <1>1, <1>2, <1>3, <1>5, <2>1 DEF Funded
  <2> QED BY <1>3, <2>1, <2>2 DEF Funded
<1> QED BY <1>3, <1>4, <1>5 DEF p, l2, new

\* A claim paid.
LEMMA FundedClaim ==
  ASSUME NEW S, NEW l, NEW a, NEW scale, IsLedger(S, l, a, scale),
         NEW spare, NEW rounded, NEW x \in S
  PROVE  LET l2 == Restaked(l, x, l[x].stake, 0, a, scale)
         IN  /\ IsLedger(S, l2, a, scale)
             /\ Total(StakesIn(l2)) = Total(StakesIn(l))
             /\ Funded(l, a, scale, spare, rounded) =>
                  Funded(l2, a, scale, spare - Claims(l, a, scale)[x], rounded)
<1> DEFINE p == Claims(l, a, scale)[x]
           n == l[x].stake
           l2 == Restaked(l, x, n, 0, a, scale)
           rest == (n * a) % scale
<1>1. /\ p \in Nat
      /\ Earnings(l, a, scale)[x] = p * scale + rest
      /\ Total(Earnings(l, a, scale)) \in Nat /\ Total(StakesIn(l)) \in Nat
  BY LedgerTypes
<1>2. n \in Nat /\ scale \in Nat
  BY DEF IsLedger, Stakes
<1>3. /\ IsLedger(S, l2, a, scale)
      /\ rest \in Nat
      /\ Total(StakesIn(l2)) = Total(StakesIn(l)) - n + n
      /\ Total(Earnings(l2, a, scale)) =
           Total(Earnings(l, a, scale)) - Earnings(l, a, scale)[x] + (0 * scale + rest)
  <2> HIDE DEF n
  <2>1. 0 \in Nat /\ n \in Nat
    BY <1>2
  <2>2. /\ IsLedger(S, l2, a, scale)
        /\ rest \in Nat
        /\ Total(StakesIn(l2)) = Total(StakesIn(l)) - l[x].stake + n
        /\ Total(Earnings(l2, a, scale)) =
             Total(Earnings(l, a, scale)) - Earnings(l, a, scale)[x] + (0 * scale + rest)
    BY <2>1, LedgerRestake
  <2> QED BY <2>2 DEF n
<1> HIDE DEF p, l2, rest, n
<1>4. ASSUME Funded(l, a, scale, spare, rounded)
      PROVE  Funded(l2, a, scale, spare - p, rounded)
  <2>1. /\ p * scale \in Nat /\ spare \in Int /\ spare * scale \in Int /\ rounded \in Nat
        /\ (spare - p) * scale = spare * scale - p * scale
        /\ 0 * scale = 0
    BY <1>1, <1>2, <1>4 DEF Funded
  <2>2. Total(Earnings(l2, a, scale)) <= (spare - p) * scale + rounded
    BY <1>1, <1>2, <1>3, <1>4, <2>1 DEF Funded
  <2> QED BY <1>1, <2>1, <2>2 DEF Funded
<1>5. Total(StakesIn(l2)) = Total(StakesIn(l))
  BY <1>1, <1>2, <1>3
<1> QED BY <1>3, <1>4, <1>5 DEF p, l2, n

\* An amount that has come in, granted to the stakes share by share.
LEMMA FundedGrant ==
  ASSUME NEW S, NEW l, NEW a, NEW scale, IsLedger(S, l, a, scale),
         NEW spare, NEW rounded, Funded(l, a, scale, spare, rounded),
         NEW amount \in Nat, NEW k \in Nat, k * Total(StakesIn(l)) <= amount * scale
  PROVE  /\ IsLedger(S, l, a + k, scale)
         /\ Funded(l, a + k, scale, spare + amount, rounded)
<1>1. /\ IsLedger(S, l, a + k, scale)
      /\ Total(Earnings(l, a + k, scale)) =
           Total(Earnings(l, a, scale)) + k * Total(StakesIn(l))
  BY LedgerGrant
<1>2. /\ scale \in Nat
      /\ Total(Earnings(l, a, scale)) \in Nat /\ Total(StakesIn(l)) \in Nat
  BY LedgerTypes DEF IsLedger
<1>3. /\ k * Total(StakesIn(l)) \in Nat /\ amount * scale \in Nat
      /\ spare \in Int /\ rounded \in Nat /\ spare * scale \in Int
      /\ (spare + amount) * scale = spare * scale + amount * scale
  BY <1>2 DEF Funded
<1>4. Total(Earnings(l, a + k, scale)) <= (spare + amount) * scale + rounded
  BY <1>1, <1>2, <1>3 DEF Funded
<1> QED BY <1>1, <1>3, <1>4 DEF Funded
=============================================================================
