--------------------------- MODULE StarCard_proofs ---------------------------
(***************************************************************************)
(* Theorems about what a card shows: the points its line is drawn through, *)
(* the events of its journey and the growth of its metrics.                *)
(***************************************************************************)
EXTENDS StarCard, StarSeries_proofs

-----------------------------------------------------------------------------
(* Smallest, largest, sums and ranks *)

LEMMA MinOfFinite ==
    ASSUME NEW S, IsFiniteSet(S), S \subseteq Int, S # {}
    PROVE  Min(S) \in S /\ \A y \in S : Min(S) <= y
<1> DEFINE T == {-x : x \in S}
           f == [x \in S |-> -x]
<1>1. f \in Surjection(S, T)
  BY DEF Surjection
<1>2. T \subseteq Int /\ T # {}
  OBVIOUS
<1> HIDE DEF f
<1>3. IsFiniteSet(T)
  <2> HIDE DEF T
  <2> QED BY <1>1, FS_Surjection
<1>4. Max(T) \in T /\ \A y \in T : y <= Max(T)
  <2> HIDE DEF T
  <2> QED BY <1>2, <1>3, MaxOfFinite
<1>5. PICK x \in S : Max(T) = -x
  BY <1>4
<1>6. \A y \in S : x <= y
  <2> SUFFICES ASSUME NEW y \in S PROVE x <= y
    OBVIOUS
  <2>1. -y <= -x
    BY <1>4, <1>5
  <2> QED BY <2>1
<1> QED BY <1>6 DEF Min

Values(value, D) == DOMAIN value = D /\ \A i \in D : value[i] \in Int

\* There is a first largest value.
LEMMA LargestExists ==
    ASSUME NEW D, IsFiniteSet(D), D \subseteq Int, D # {},
           NEW value, Values(value, D)
    PROVE  FirstLargest(value) \in D
<1> DEFINE Best(i, s) == \A j \in s : value[j] < value[i] \/ (value[j] = value[i] /\ i <= j)
           F == {s \in SUBSET D : s # {} => \E i \in s : Best(i, s)}
<1>1. {} \in F
  OBVIOUS
<1>2. ASSUME NEW s \in SUBSET D, s # {}, \A x \in s : s \ {x} \in F PROVE s \in F
  <2> PICK x \in s : s \ {x} \in F
    BY <1>2
  <2>1. CASE s \ {x} = {}
    <3>1. Best(x, s)
      BY <2>1
    <3> HIDE DEF Best
    <3> QED BY <3>1
  <2>2. CASE s \ {x} # {}
    <3>1. PICK m \in s \ {x} : Best(m, s \ {x})
      BY <2>2
    <3>2. x \in Int /\ m \in Int /\ value[x] \in Int /\ value[m] \in Int
      BY DEF Values
    <3>3. CASE value[x] < value[m] \/ (value[x] = value[m] /\ m <= x)
      <4>1. Best(m, s)
        BY <3>1, <3>3
      <4> HIDE DEF Best
      <4> QED BY <4>1
    <3>4. CASE value[m] < value[x] \/ (value[x] = value[m] /\ x <= m)
      <4>1. \A j \in s \ {x} : j \in Int /\ value[j] \in Int
        BY DEF Values
      <4>2. \A j \in s \ {x} : value[j] < value[x] \/ (value[j] = value[x] /\ x <= j)
        BY <3>1, <3>2, <3>4, <4>1
      <4>3. Best(x, s)
        BY <3>2, <4>2
      <4> HIDE DEF Best
      <4> QED BY <4>3
    <3> QED BY <3>2, <3>3, <3>4
  <2> QED BY <2>1, <2>2
<1>3. SUBSET D \subseteq F
  <2> HIDE DEF F, Best
  <2> QED BY <1>1, <1>2, SubsetInduction
<1>4. \E i \in D : Best(i, D)
  <2>1. D \in F
    BY <1>3
  <2> QED BY <2>1
<1> QED BY <1>4 DEF FirstLargest, Values

LEMMA SumIsInteger ==
    ASSUME NEW S, IsFiniteSet(S), NEW f, \A x \in S : f[x] \in Int
    PROVE  SumFunctionOnSet(f, S) \in Int
<1> DEFINE iter == CHOOSE g : IsSumming(g, f, SUBSET S)
           F == {s \in SUBSET S : iter[s] \in Int}
<1>1. SumFunctionOnSet(f, S) = iter[S]
  BY DEF SumFunctionOnSet, FoldFunctionOnSet, MapThenFoldSet, IsSumming
<1>2. IsSumming(iter, f, SUBSET S)
  BY SummingExists
<1> HIDE DEF iter
<1>3. {} \in F
  BY <1>2 DEF IsSumming
<1>4. ASSUME NEW s \in SUBSET S, s # {}, \A x \in s : s \ {x} \in F PROVE s \in F
  <2> DEFINE y == CHOOSE x \in s : TRUE
  <2>1. y \in s
    BY <1>4
  <2>2. iter[s] = f[y] + iter[s \ {y}]
    BY <1>2, <1>4 DEF IsSumming
  <2> HIDE DEF y
  <2>3. f[y] \in Int /\ iter[s \ {y}] \in Int
    BY <1>4, <2>1
  <2> QED BY <2>2, <2>3
<1>5. SUBSET S \subseteq F
  <2> HIDE DEF F
  <2> QED BY <1>3, <1>4, SubsetInduction
<1> QED BY <1>1, <1>5

\* A strict order of all members of a set, given by those before each.
IsOrder(before, S) ==
    /\ before \in [S -> SUBSET S]
    /\ \A x \in S : x \notin before[x]
    /\ \A x, y \in S : y \in before[x] => before[y] \subseteq before[x]
    /\ \A x, y \in S : x # y => x \in before[y] \/ y \in before[x]

\* The members, each at the place that its rank gives it.
Listed(rank, S) == [i \in 1 .. Cardinality(S) |-> CHOOSE x \in S : rank[x] = i - 1]

\* Each member of a finite set is at one place, after those before it.
LEMMA RanksAreListed ==
    ASSUME NEW S, IsFiniteSet(S), NEW before, IsOrder(before, S),
           NEW rank, \A x \in S : rank[x] = Cardinality(before[x])
    PROVE  LET n == Cardinality(S)
               listed == Listed(rank, S)
           IN /\ n \in Nat /\ listed \in Seq(S) /\ Len(listed) = n
              /\ \A x \in S : \E i \in 1 .. n : listed[i] = x
              /\ \A i, j \in 1 .. n : i < j => listed[i] \in before[listed[j]]
<1> DEFINE n == Cardinality(S)
           f == [x \in S |-> rank[x]]
           listed == Listed(rank, S)
<1>1. n \in Nat
  BY FS_CardinalityType
<1>2. \A x \in S : before[x] \subseteq S /\ IsFiniteSet(before[x]) /\ rank[x] \in Nat
  <2> SUFFICES ASSUME NEW x \in S
               PROVE  before[x] \subseteq S /\ IsFiniteSet(before[x]) /\ rank[x] \in Nat
    OBVIOUS
  <2>1. before[x] \subseteq S
    BY DEF IsOrder
  <2> QED BY <2>1, FS_Subset, FS_CardinalityType
<1>3. ASSUME NEW x \in S, NEW y \in S, x \in before[y] PROVE rank[x] < rank[y]
  <2>1. before[x] \subseteq before[y] \ {x}
    BY <1>3 DEF IsOrder
  <2>2. IsFiniteSet(before[y] \ {x}) /\ Cardinality(before[y] \ {x}) = rank[y] - 1
    BY <1>2, <1>3, FS_RemoveElement
  <2>3. rank[x] <= rank[y] - 1
    BY <2>1, <2>2, FS_Subset
  <2> QED BY <1>2, <2>3
<1>4. \A x \in S : rank[x] \in 0 .. n - 1
  <2> SUFFICES ASSUME NEW x \in S PROVE rank[x] \in 0 .. n - 1
    OBVIOUS
  <2>1. before[x] \subseteq S \ {x}
    BY <1>2 DEF IsOrder
  <2>2. IsFiniteSet(S \ {x}) /\ Cardinality(S \ {x}) = n - 1
    BY FS_RemoveElement
  <2>3. rank[x] <= n - 1
    BY <2>1, <2>2, FS_Subset
  <2> QED BY <1>1, <1>2, <2>3
<1>5. \A x, y \in S : x # y => rank[x] # rank[y]
  <2> SUFFICES ASSUME NEW x \in S, NEW y \in S, x # y PROVE rank[x] # rank[y]
    OBVIOUS
  <2>1. x \in before[y] \/ y \in before[x]
    BY DEF IsOrder
  <2>2. rank[x] < rank[y] \/ rank[y] < rank[x]
    BY <1>3, <2>1
  <2> QED BY <1>2, <2>2
<1> HIDE DEF n
<1>6. f \in Injection(S, 0 .. n - 1)
  BY <1>4, <1>5 DEF Injection, IsInjective
<1>7. f \in Surjection(S, 0 .. n - 1)
  <2> HIDE DEF f
  <2>1. IsFiniteSet(0 .. n - 1) /\ Cardinality(0 .. n - 1) = n
    BY <1>1, FS_Interval
  <2> QED BY <1>6, <2>1, FS_Injection DEF n
<1>8. ASSUME NEW i \in 1 .. n PROVE listed[i] \in S /\ rank[listed[i]] = i - 1
  <2>1. i - 1 \in 0 .. n - 1
    BY <1>1
  <2>2. \E x \in S : rank[x] = i - 1
    BY <1>7, <2>1 DEF Surjection
  <2>3. listed[i] = CHOOSE x \in S : rank[x] = i - 1
    BY DEF Listed, n
  <2> HIDE DEF listed
  <2> QED BY <2>2, <2>3
<1>9. DOMAIN listed = 1 .. n /\ listed = [i \in 1 .. n |-> listed[i]]
  BY DEF Listed, n
<1> HIDE DEF listed
<1>10. listed \in Seq(S) /\ Len(listed) = n
  <2>1. listed \in [1 .. n -> S]
    BY <1>8, <1>9
  <2> QED BY <1>1, <2>1
<1>11. ASSUME NEW x \in S PROVE \E i \in 1 .. n : listed[i] = x
  <2>1. rank[x] \in 0 .. n - 1
    BY <1>4
  <2>2. rank[x] + 1 \in 1 .. n /\ (rank[x] + 1) - 1 = rank[x]
    BY <1>1, <2>1
  <2>3. listed[rank[x] + 1] = x
    BY <1>5, <1>8, <2>2
  <2> QED BY <2>2, <2>3
<1>12. ASSUME NEW i \in 1 .. n, NEW j \in 1 .. n, i < j PROVE listed[i] \in before[listed[j]]
  <2>1. listed[i] # listed[j] /\ ~(rank[listed[j]] < rank[listed[i]])
    BY <1>1, <1>8, <1>12
  <2>2. listed[i] \in before[listed[j]] \/ listed[j] \in before[listed[i]]
    BY <1>8, <2>1 DEF IsOrder
  <2> QED BY <1>3, <1>8, <2>1, <2>2
<1> QED BY <1>1, <1>10, <1>11, <1>12 DEF n, listed

-----------------------------------------------------------------------------
(* The sampled line *)

BucketStart(n, threshold, b) == (b * (n - 2)) \div (threshold - 2) + 1

Across(points) == [i \in 0 .. Len(points) - 1 |-> points[i + 1].day - First(points).day]
Upward(points) == [i \in 0 .. Len(points) - 1 |-> points[i + 1].count]

Averaged(points, threshold, b) ==
    LET n == Len(points)
        from == Smaller(BucketStart(n, threshold, b + 1), n - 1)
        to == Smaller(BucketStart(n, threshold, b + 2), n)
    IN from .. Larger(to, from + 1) - 1

InBucket(points, threshold, b) ==
    LET n == Len(points)
        from == Smaller(BucketStart(n, threshold, b), n - 2)
        to == Smaller(BucketStart(n, threshold, b + 1), n - 1)
    IN from .. Larger(to, from + 1) - 1

Triangle(points, threshold, b, previous, i) ==
    LET X == Across(points)
        Y == Upward(points)
        next == Averaged(points, threshold, b)
        size == Cardinality(next)
        sumX == SumFunctionOnSet(X, next)
        sumY == SumFunctionOnSet(Y, next)
        area == (size * X[previous] - sumX) * (Y[i] - Y[previous])
                - (X[previous] - X[i]) * (sumY - size * Y[previous])
    IN IF area < 0 THEN -area ELSE area

Triangles(points, threshold, b, previous) ==
    [i \in InBucket(points, threshold, b) |-> Triangle(points, threshold, b, previous, i)]

\* The recursion of the indexes that are drawn.
IsDrawing(g, points, threshold, m) ==
    g = [k \in 1 .. m |->
            IF k = 1 THEN 0 ELSE FirstLargest(Triangles(points, threshold, k - 2, g[k - 1]))]

LEMMA SampledLine ==
    ASSUME NEW points, NEW threshold
    PROVE  LargestTriangleThreeBuckets(points, threshold) =
              LET drawn == CHOOSE g : IsDrawing(g, points, threshold, threshold - 1)
              IN IF threshold >= Len(points) \/ threshold < 3
                 THEN points
                 ELSE [k \in 1 .. threshold |->
                          IF k = threshold THEN Latest(points) ELSE points[drawn[k] + 1]]
BY DEF LargestTriangleThreeBuckets, IsDrawing, Triangles, Triangle, InBucket, Averaged,
       Upward, Across, BucketStart

LEMMA DrawingExists ==
    ASSUME NEW points, NEW threshold, NEW m \in Nat
    PROVE  \E g : IsDrawing(g, points, threshold, m)
<1> DEFINE Drawn(k, previous) == FirstLargest(Triangles(points, threshold, k - 2, previous))
           S == {j \in Nat : \E g : IsDrawing(g, points, threshold, j)}
<1>1. 0 \in S
  <2> DEFINE g == [k \in 1 .. 0 |-> 0]
  <2>1. IsDrawing(g, points, threshold, 0)
    BY DEF IsDrawing
  <2> QED BY <2>1
<1>2. ASSUME NEW j \in Nat, j \in S PROVE j + 1 \in S
  <2> PICK g : IsDrawing(g, points, threshold, j)
    BY <1>2
  <2>1. g = [k \in 1 .. j |-> IF k = 1 THEN 0 ELSE Drawn(k, g[k - 1])]
    BY DEF IsDrawing
  <2> DEFINE h == [k \in 1 .. j + 1 |->
                      IF k = j + 1 THEN (IF j = 0 THEN 0 ELSE Drawn(j + 1, g[j])) ELSE g[k]]
  <2> HIDE DEF Drawn
  <2>2. ASSUME NEW k \in 1 .. j + 1 PROVE h[k] = IF k = 1 THEN 0 ELSE Drawn(k, h[k - 1])
    <3>1. CASE k = j + 1
      <4>1. j # 0 => h[j] = g[j]
        OBVIOUS
      <4> QED BY <3>1, <4>1
    <3>2. CASE k # j + 1
      <4>1. k \in 1 .. j
        BY <3>2
      <4>2. h[k] = g[k] /\ (k # 1 => h[k - 1] = g[k - 1])
        BY <4>1
      <4>3. g[k] = IF k = 1 THEN 0 ELSE Drawn(k, g[k - 1])
        BY <2>1, <4>1
      <4> HIDE DEF h
      <4> QED BY <4>2, <4>3
    <3> QED BY <3>1, <3>2
  <2>3. h = [k \in 1 .. j + 1 |-> h[k]]
    OBVIOUS
  <2> HIDE DEF h
  <2>4. h = [k \in 1 .. j + 1 |-> IF k = 1 THEN 0 ELSE Drawn(k, h[k - 1])]
    BY <2>2, <2>3
  <2>5. IsDrawing(h, points, threshold, j + 1)
    BY <2>4 DEF IsDrawing, Drawn
  <2> QED BY <2>5
<1>3. Nat \subseteq S
  <2> HIDE DEF S
  <2> QED BY <1>1, <1>2, Induction
<1> QED BY <1>3

LEMMA BucketsGrow ==
    ASSUME NEW n \in Nat, NEW threshold \in Nat, 3 <= threshold, threshold < n
    PROVE  /\ BucketStart(n, threshold, 0) = 1
           /\ BucketStart(n, threshold, threshold - 2) = n - 1
           /\ \A b \in Nat : BucketStart(n, threshold, b) \in Nat \ {0}
           /\ \A b, c \in Nat : b < c =>
                 BucketStart(n, threshold, b) < BucketStart(n, threshold, c)
<1> DEFINE u == threshold - 2
           d == n - 2
           Start(b) == (b * d) \div u + 1
<1>1. u \in Nat \ {0} /\ d \in Nat /\ d >= u
  OBVIOUS
<1>2. \A b : BucketStart(n, threshold, b) = Start(b)
  BY DEF BucketStart
<1>3. n - 1 = d + 1
  OBVIOUS
<1> HIDE DEF u, d
<1>4. Start(0) = 1 /\ Start(u) = d + 1
  <2>1. (0 * d) \div u = 0
    BY <1>1
  <2>2. (u * d) \div u = d
    BY <1>1
  <2> QED BY <1>1, <2>1, <2>2
<1>5. ASSUME NEW b \in Nat PROVE Start(b) \in Nat \ {0} /\ (b * d) \div u \in Nat
  <2>1. b * d \in Int /\ b * d >= 0
    BY <1>1
  <2>2. (b * d) \div u \in Nat
    BY <1>1, <2>1, ModAndDiv
  <2> QED BY <2>2
<1>6. ASSUME NEW b \in Nat, NEW c \in Nat, b < c PROVE Start(b) < Start(c)
  <2> DEFINE a == b * d
             e == (c - b) * d
  <2>1. a \in Nat /\ e \in Nat /\ c * d = a + e /\ e >= d
    <3>1. c - b \in Nat /\ c - b >= 1 /\ c = b + (c - b)
      BY <1>6
    <3>2. a \in Nat /\ e \in Nat
      BY <1>1, <3>1
    <3>3. c * d = a + e
      BY <1>1, <3>1
    <3>4. e >= d
      BY <1>1, <3>1
    <3> QED BY <3>2, <3>3, <3>4
  <2>2. Start(b) = a \div u + 1 /\ Start(c) = (a + e) \div u + 1
    BY <2>1
  <2>3. Start(b) \in Nat /\ Start(c) \in Nat /\ a \div u \in Nat
    BY <1>5
  <2> HIDE DEF a, e, Start
  <2>4. (a + e) \div u >= a \div u + 1
    <3>1. e >= u
      BY <1>1, <2>1
    <3> QED BY <1>1, <2>1, <3>1, NextUnit
  <2>5. (a + e) \div u \in Int
    <3>1. a + e \in Int
      BY <2>1
    <3> QED BY <1>1, <3>1, ModAndDiv
  <2> QED BY <2>2, <2>3, <2>4, <2>5
<1> HIDE DEF Start
<1> QED BY <1>2, <1>3, <1>4, <1>5, <1>6 DEF u

\* The bucket of a drawn point has the indexes up to the next bucket.
BucketIsRange(points, threshold, b) ==
    LET n == Len(points)
        from == BucketStart(n, threshold, b)
        next == BucketStart(n, threshold, b + 1)
    IN /\ InBucket(points, threshold, b) = from .. next - 1
       /\ from \in 1 .. n - 2 /\ next \in 1 .. n - 1 /\ from < next
       /\ \E i, j \in 0 .. n - 1 : Averaged(points, threshold, b) = i .. j

LEMMA BucketsAreRanges ==
    ASSUME NEW points, Len(points) \in Nat, NEW threshold \in Nat,
           3 <= threshold, threshold < Len(points), NEW b \in 0 .. threshold - 3
    PROVE  BucketIsRange(points, threshold, b)
<1> DEFINE n == Len(points)
           from == BucketStart(n, threshold, b)
           next == BucketStart(n, threshold, b + 1)
           after == BucketStart(n, threshold, b + 2)
           last == BucketStart(n, threshold, threshold - 2)
<1>1. b \in Nat /\ b + 1 \in Nat /\ b + 2 \in Nat /\ threshold - 2 \in Nat /\ b < b + 1
      /\ (b + 1 < threshold - 2 \/ b + 1 = threshold - 2)
  OBVIOUS
<1>2. /\ from \in Nat \ {0} /\ next \in Nat \ {0} /\ after \in Nat \ {0} /\ last = n - 1
      /\ from < next
      /\ b + 1 < threshold - 2 => next < last
      /\ b + 1 = threshold - 2 => next = last
  <2> HIDE DEF n
  <2>1. n \in Nat /\ threshold < n
    BY DEF n
  <2> QED BY <1>1, <2>1, BucketsGrow
<1> HIDE DEF from, next, after, last, n
<1>3. n \in Nat /\ from \in 1 .. n - 2 /\ next \in 1 .. n - 1
  BY <1>1, <1>2 DEF n
<1>4. Smaller(from, n - 2) = from /\ Smaller(next, n - 1) = next /\ Larger(next, from + 1) = next
  BY <1>2, <1>3 DEF Smaller, Larger
<1>5. InBucket(points, threshold, b) = from .. next - 1
  BY <1>4 DEF InBucket, from, next, n
<1>6. \E i, j \in 0 .. n - 1 : Averaged(points, threshold, b) = i .. j
  <2> DEFINE to == Smaller(after, n)
             j == Larger(to, next + 1) - 1
  <2>1. j \in 0 .. n - 1
    BY <1>2, <1>3 DEF Smaller, Larger
  <2>2. b + 1 + 1 = b + 2
    OBVIOUS
  <2>3. Averaged(points, threshold, b) = next .. j
    BY <1>4, <2>2 DEF Averaged, next, after, n
  <2>4. next \in 0 .. n - 1
    BY <1>3
  <2> HIDE DEF j
  <2> QED BY <2>1, <2>3, <2>4
<1> QED BY <1>2, <1>3, <1>5, <1>6 DEF n, from, next, BucketIsRange

LEMMA AreaIsInteger ==
    ASSUME NEW size \in Int, NEW x \in Int, NEW y \in Int, NEW sumX \in Int, NEW sumY \in Int,
           NEW xi \in Int, NEW yi \in Int
    PROVE  (size * x - sumX) * (yi - y) - (x - xi) * (sumY - size * y) \in Int
<1>1. size * x - sumX \in Int /\ sumY - size * y \in Int
  OBVIOUS
<1>2. \A a, b, c, d \in Int : a * b - c * d \in Int
  OBVIOUS
<1> QED BY <1>1, <1>2

\* A point of each bucket can be selected, whatever the areas are.
LEMMA SelectedFromBucket ==
    ASSUME NEW points \in Seq(Point), NEW threshold \in Nat,
           3 <= threshold, threshold < Len(points), NEW b \in 0 .. threshold - 3,
           NEW previous \in 0 .. Len(points) - 1
    PROVE  FirstLargest(Triangles(points, threshold, b, previous))
              \in BucketStart(Len(points), threshold, b)
                  .. BucketStart(Len(points), threshold, b + 1) - 1
<1> DEFINE n == Len(points)
           X == Across(points)
           Y == Upward(points)
           D == InBucket(points, threshold, b)
           next == Averaged(points, threshold, b)
           value == Triangles(points, threshold, b, previous)
<1>1. n \in Nat /\ \A i \in 1 .. n : points[i].day \in Int /\ points[i].count \in Int
  <2>1. n \in Nat /\ \A i \in 1 .. n : points[i] \in Point
    OBVIOUS
  <2> HIDE DEF n
  <2>2. \A p \in Point : p.day \in Int /\ p.count \in Int
    BY DEF Point
  <2> QED BY <2>1, <2>2, Zenon
<1>2. \A i \in 0 .. n - 1 : X[i] \in Int /\ Y[i] \in Int
  <2> SUFFICES ASSUME NEW i \in 0 .. n - 1 PROVE X[i] \in Int /\ Y[i] \in Int
    OBVIOUS
  <2>1. i + 1 \in 1 .. n /\ 1 \in 1 .. n
    BY <1>1
  <2>2. X[i] = points[i + 1].day - points[1].day /\ Y[i] = points[i + 1].count
    BY DEF Across, Upward, First
  <2> DEFINE there == points[i + 1].day
             here == points[1].day
  <2>3. there \in Int /\ here \in Int /\ points[i + 1].count \in Int
    BY <1>1, <2>1
  <2>4. X[i] = there - here
    BY <2>2
  <2> HIDE DEF X, Y, n, there, here
  <2>5. X[i] \in Int
    BY <2>3, <2>4
  <2> QED BY <2>2, <2>3, <2>5
<1>3. /\ D = BucketStart(n, threshold, b) .. BucketStart(n, threshold, b + 1) - 1
      /\ BucketStart(n, threshold, b) \in 1 .. n - 2
      /\ BucketStart(n, threshold, b + 1) \in 1 .. n - 1
      /\ BucketStart(n, threshold, b) < BucketStart(n, threshold, b + 1)
      /\ \E i, j \in 0 .. n - 1 : next = i .. j
  <2>1. Len(points) \in Nat
    BY <1>1
  <2>2. BucketIsRange(points, threshold, b)
    BY <2>1, BucketsAreRanges, Zenon
  <2> QED BY <2>2, Zenon DEF BucketIsRange
<1>4. /\ IsFiniteSet(D) /\ D \subseteq 0 .. n - 1 /\ D \subseteq Int /\ D # {}
  <2> DEFINE from == BucketStart(n, threshold, b)
             end == BucketStart(n, threshold, b + 1)
  <2>1. /\ n \in Nat /\ D = from .. end - 1
        /\ from \in 1 .. n - 2 /\ end \in 1 .. n - 1 /\ from < end
    BY <1>1, <1>3
  <2> HIDE DEF n, D, from, end
  <2>2. from \in Int /\ end - 1 \in Int
    BY <2>1
  <2>3. from \in from .. end - 1 /\ \A i \in from .. end - 1 : i \in Int /\ 0 <= i /\ i <= n - 1
    BY <2>1
  <2>4. IsFiniteSet(from .. end - 1)
    BY <2>2, FS_Interval
  <2>5. \A i \in D : i \in 0 .. n - 1 /\ i \in Int
    BY <2>1, <2>3
  <2> QED BY <2>1, <2>3, <2>4, <2>5
<1>5. IsFiniteSet(next) /\ next \subseteq 0 .. n - 1
  <2> HIDE DEF n, next
  <2>1. PICK i \in 0 .. n - 1, j \in 0 .. n - 1 : next = i .. j
    BY <1>3
  <2>2. i \in Int /\ j \in Int
    BY <1>1
  <2>3. IsFiniteSet(i .. j)
    BY <2>2, FS_Interval
  <2>4. next \subseteq 0 .. n - 1
    BY <1>1, <2>1
  <2> QED BY <2>1, <2>3, <2>4
<1>6. Cardinality(next) \in Int /\ SumFunctionOnSet(X, next) \in Int /\ SumFunctionOnSet(Y, next) \in Int
  <2>1. \A i \in next : X[i] \in Int /\ Y[i] \in Int
    BY <1>2, <1>5
  <2>2. Cardinality(next) \in Int
    BY <1>5, FS_CardinalityType
  <2> HIDE DEF next, X, Y
  <2>3. SumFunctionOnSet(X, next) \in Int
    BY <1>5, <2>1, SumIsInteger
  <2>4. SumFunctionOnSet(Y, next) \in Int
    BY <1>5, <2>1, SumIsInteger
  <2> QED BY <2>2, <2>3, <2>4
<1>7. DOMAIN value = D /\ \A i \in D : value[i] = Triangle(points, threshold, b, previous, i)
  BY DEF Triangles
<1>8. ASSUME NEW i \in D PROVE Triangle(points, threshold, b, previous, i) \in Int
  <2> DEFINE size == Cardinality(next)
             sumX == SumFunctionOnSet(X, next)
             sumY == SumFunctionOnSet(Y, next)
             area == (size * X[previous] - sumX) * (Y[i] - Y[previous])
                     - (X[previous] - X[i]) * (sumY - size * Y[previous])
  <2>1. X[i] \in Int /\ Y[i] \in Int /\ X[previous] \in Int /\ Y[previous] \in Int
    BY <1>2, <1>4
  <2>2. size \in Int /\ sumX \in Int /\ sumY \in Int
    BY <1>6
  <2>3. Triangle(points, threshold, b, previous, i) = IF area < 0 THEN -area ELSE area
    BY DEF Triangle
  <2> HIDE DEF size, sumX, sumY, X, Y
  <2>4. area \in Int
    BY <2>1, <2>2, AreaIsInteger
  <2> HIDE DEF area
  <2> QED BY <2>3, <2>4 DEF size, sumX, sumY, X, Y
<1> HIDE DEF D, value, n, next, X, Y
<1>9. Values(value, D)
  BY <1>7, <1>8 DEF Values
<1>10. FirstLargest(value) \in D
  BY <1>4, <1>9, LargestExists
<1> QED BY <1>3, <1>10 DEF n, value

\* A sampled line has points of the line in their order, not more than it was to
\* have, with the first and the last (render.go 836-878).
THEOREM SampledIsLine ==
    ASSUME NEW stars \in Nat, NEW points, IsLine(points, stars), Len(points) > 0,
           NEW threshold \in Nat, 3 <= threshold
    PROVE  LET sampled == LargestTriangleThreeBuckets(points, threshold)
           IN /\ IsLine(sampled, stars) /\ Len(sampled) <= threshold
              /\ ToSet(sampled) \subseteq ToSet(points)
              /\ First(points) \in ToSet(sampled) /\ Latest(points) \in ToSet(sampled)
<1> DEFINE n == Len(points)
           sampled == LargestTriangleThreeBuckets(points, threshold)
           drawn == CHOOSE g : IsDrawing(g, points, threshold, threshold - 1)
           source == [k \in 1 .. threshold |-> IF k = threshold THEN n ELSE drawn[k] + 1]
           Start(b) == BucketStart(n, threshold, b)
<1>1. n \in Nat \ {0} /\ points \in Seq(Point) /\ DOMAIN points = 1 .. n
  BY DEF IsLine
<1>2. sampled = IF threshold >= n \/ threshold < 3
                THEN points
                ELSE [k \in 1 .. threshold |->
                         IF k = threshold THEN Latest(points) ELSE points[drawn[k] + 1]]
  BY SampledLine
<1> HIDE DEF sampled
<1>3. CASE threshold >= n
  <2>1. sampled = points
    BY <1>2, <1>3
  <2>2. First(points) \in ToSet(points) /\ Latest(points) \in ToSet(points)
    <3>1. 1 \in DOMAIN points /\ Len(points) \in DOMAIN points
      BY <1>1
    <3> QED BY <3>1 DEF First, Latest, ToSet
  <2> QED BY <1>1, <1>3, <2>1, <2>2 DEF sampled
<1>4. CASE threshold < n
  <2>1. IsDrawing(drawn, points, threshold, threshold - 1)
    <3>1. threshold - 1 \in Nat
      OBVIOUS
    <3> QED BY <3>1, DrawingExists
  <2> HIDE DEF drawn
  <2>2. /\ Start(0) = 1 /\ Start(threshold - 2) = n - 1
        /\ \A b \in Nat : Start(b) \in Nat \ {0}
        /\ \A b, c \in Nat : b < c => Start(b) < Start(c)
    <3> HIDE DEF n
    <3> QED BY <1>1, <1>4, BucketsGrow
  <2>3. drawn[1] = 0
    <3>1. 1 \in 1 .. threshold - 1
      OBVIOUS
    <3> QED BY <2>1, <3>1 DEF IsDrawing
  <2>4. ASSUME NEW k \in 2 .. threshold - 1, drawn[k - 1] \in 0 .. n - 1
        PROVE  drawn[k] \in Start(k - 2) .. Start(k - 1) - 1
    <3>1. k \in 1 .. threshold - 1 /\ k # 1 /\ k - 2 \in 0 .. threshold - 3 /\ (k - 2) + 1 = k - 1
      OBVIOUS
    <3>2. drawn[k] = FirstLargest(Triangles(points, threshold, k - 2, drawn[k - 1]))
      BY <2>1, <3>1 DEF IsDrawing
    <3>3. FirstLargest(Triangles(points, threshold, k - 2, drawn[k - 1]))
             \in BucketStart(Len(points), threshold, k - 2)
                    .. BucketStart(Len(points), threshold, (k - 2) + 1) - 1
      BY <1>1, <1>4, <2>4, <3>1, SelectedFromBucket
    <3> QED BY <3>1, <3>2, <3>3
  <2> HIDE DEF Start
  <2>5. \A b \in 0 .. threshold - 2 : Start(b) \in 1 .. n - 1
    <3> SUFFICES ASSUME NEW b \in 0 .. threshold - 2 PROVE Start(b) \in 1 .. n - 1
      OBVIOUS
    <3>1. b \in Nat /\ threshold - 2 \in Nat /\ (b = threshold - 2 \/ b < threshold - 2)
      OBVIOUS
    <3>2. Start(b) \in Nat \ {0}
      BY <2>2, <3>1
    <3>3. Start(b) = n - 1 \/ Start(b) < n - 1
      BY <2>2, <3>1
    <3> QED BY <1>1, <3>2, <3>3
  <2> HIDE DEF n
  <2> DEFINE S == {k \in Nat : k \in 2 .. threshold - 1 => drawn[k] \in Start(k - 2) .. Start(k - 1) - 1}
  <2>6. 0 \in S
    OBVIOUS
  <2>7. ASSUME NEW k \in Nat, k \in S PROVE k + 1 \in S
    <3> SUFFICES ASSUME k + 1 \in 2 .. threshold - 1
                 PROVE  drawn[k + 1] \in Start((k + 1) - 2) .. Start((k + 1) - 1) - 1
      OBVIOUS
    <3>1. drawn[k] \in 0 .. n - 1
      <4>1. CASE k = 1
        BY <1>1, <2>3, <4>1
      <4>2. CASE k # 1
        <5>1. k \in 2 .. threshold - 1 /\ k - 2 \in 0 .. threshold - 2 /\ k - 1 \in 0 .. threshold - 2
          BY <4>2
        <5>2. drawn[k] \in Start(k - 2) .. Start(k - 1) - 1
          BY <2>7, <5>1
        <5>3. Start(k - 2) \in 1 .. n - 1 /\ Start(k - 1) \in 1 .. n - 1
          BY <2>5, <5>1
        <5> QED BY <1>1, <5>2, <5>3
      <4> QED BY <4>1, <4>2
    <3>2. (k + 1) - 1 = k
      OBVIOUS
    <3> QED BY <2>4, <3>1, <3>2
  <2>8. Nat \subseteq S
    <3> HIDE DEF S
    <3> QED BY <2>6, <2>7, Induction
  <2>9. ASSUME NEW k \in 1 .. threshold - 1
        PROVE  /\ drawn[k] \in Nat /\ drawn[k] < Start(k - 1) /\ Start(k - 1) \in 1 .. n - 1
               /\ k # 1 => Start(k - 2) <= drawn[k] /\ Start(k - 2) \in 1 .. n - 1
    <3>1. k \in Nat /\ k - 1 \in 0 .. threshold - 2
      OBVIOUS
    <3>2. Start(k - 1) \in 1 .. n - 1
      BY <2>5, <3>1
    <3>3. CASE k = 1
      <4>1. k - 1 = 0
        BY <3>3
      <4>2. Start(k - 1) = 1 /\ drawn[k] = 0
        BY <2>2, <2>3, <3>3, <4>1
      <4> QED BY <3>2, <3>3, <4>2
    <3>4. CASE k # 1
      <4>1. k \in 2 .. threshold - 1 /\ k - 2 \in 0 .. threshold - 2
        BY <3>4
      <4>2. Start(k - 2) \in 1 .. n - 1
        BY <2>5, <4>1
      <4>3. drawn[k] \in Start(k - 2) .. Start(k - 1) - 1
        BY <2>8, <3>1, <4>1
      <4> QED BY <1>1, <3>2, <4>2, <4>3
    <3> QED BY <3>3, <3>4
  <2>10. ASSUME NEW j \in 1 .. threshold - 1, NEW k \in 1 .. threshold - 1, j < k
         PROVE  drawn[j] < drawn[k]
    <3>1. j - 1 \in Nat /\ k - 2 \in Nat /\ k # 1 /\ (j - 1 = k - 2 \/ j - 1 < k - 2)
      BY <2>10
    <3>2. j - 1 = k - 2 \/ Start(j - 1) < Start(k - 2)
      BY <2>2, <3>1
    <3>3. /\ drawn[j] \in Nat /\ drawn[j] < Start(j - 1) /\ Start(j - 1) \in Nat
          /\ drawn[k] \in Nat /\ Start(k - 2) <= drawn[k] /\ Start(k - 2) \in Nat
      <4>1. drawn[j] \in Nat /\ drawn[j] < Start(j - 1) /\ Start(j - 1) \in 1 .. n - 1
        BY <2>9
      <4>2. drawn[k] \in Nat /\ Start(k - 2) <= drawn[k] /\ Start(k - 2) \in 1 .. n - 1
        BY <2>9, <3>1
      <4>3. 1 .. n - 1 \subseteq Nat
        BY <1>1
      <4> QED BY <4>1, <4>2, <4>3
    <3>4. CASE j - 1 = k - 2
      BY <3>3, <3>4
    <3>5. CASE Start(j - 1) < Start(k - 2)
      BY <3>3, <3>5
    <3> QED BY <3>2, <3>4, <3>5
  <2>11. ASSUME NEW k \in 1 .. threshold
         PROVE  /\ source[k] \in 1 .. n
                /\ k = threshold => source[k] = n
                /\ k # threshold => k \in 1 .. threshold - 1 /\ source[k] = drawn[k] + 1 /\ source[k] < n
    <3>1. CASE k = threshold
      BY <1>1, <3>1
    <3>2. CASE k # threshold
      <4>1. k \in 1 .. threshold - 1
        BY <3>2
      <4>2. drawn[k] \in Nat /\ drawn[k] < Start(k - 1) /\ Start(k - 1) \in 1 .. n - 1
        BY <2>9, <4>1
      <4>3. source[k] = drawn[k] + 1
        BY <3>2
      <4> HIDE DEF source
      <4> QED BY <1>1, <3>2, <4>1, <4>2, <4>3
    <3> QED BY <3>1, <3>2
  <2>12. source = [k \in 1 .. threshold |-> source[k]]
    OBVIOUS
  <2>13. source[1] = 1 /\ source[threshold] = n /\ 1 \in 1 .. threshold /\ threshold \in 1 .. threshold
    BY <2>3
  <2> HIDE DEF source
  <2>14. source \in [1 .. threshold -> 1 .. n]
    BY <2>11, <2>12
  <2>15. ASSUME NEW j \in 1 .. threshold, NEW k \in 1 .. threshold, j < k
         PROVE  source[j] < source[k]
    <3>1. j # threshold /\ j \in 1 .. threshold - 1
      BY <2>15
    <3>2. source[j] = drawn[j] + 1 /\ source[j] < n /\ drawn[j] \in Nat
      BY <2>9, <2>11, <3>1
    <3>3. CASE k = threshold
      BY <2>11, <3>2, <3>3
    <3>4. CASE k # threshold
      <4>1. k \in 1 .. threshold - 1 /\ source[k] = drawn[k] + 1 /\ drawn[k] \in Nat
        BY <2>9, <2>11, <3>4
      <4>2. drawn[j] < drawn[k]
        BY <2>10, <2>15, <3>1, <4>1
      <4> QED BY <3>2, <4>1, <4>2
    <3> QED BY <3>3, <3>4
  <2>16. sampled = Kept(points, source, threshold)
    <3>1. ~(threshold >= n \/ threshold < 3)
      BY <1>1, <1>4 DEF n
    <3>2. \A k \in 1 .. threshold :
             points[source[k]] = IF k = threshold THEN Latest(points) ELSE points[drawn[k] + 1]
      BY <2>11 DEF Latest, n
    <3> QED BY <1>2, <3>1, <3>2 DEF Kept
  <2>17. IsLine(sampled, stars)
    BY <2>13, <2>14, <2>15, <2>16, KeptLine DEF n
  <2>18. Len(sampled) = threshold /\ DOMAIN sampled = 1 .. threshold
         /\ \A k \in 1 .. threshold : sampled[k] = points[source[k]]
    BY <2>16 DEF Kept
  <2>19. ToSet(sampled) \subseteq ToSet(points)
    BY <1>1, <2>14, <2>18 DEF ToSet
  <2>20. First(points) \in ToSet(sampled) /\ Latest(points) \in ToSet(sampled)
    BY <2>13, <2>18 DEF ToSet, First, Latest, n
  <2> QED BY <2>17, <2>18, <2>19, <2>20 DEF sampled
<1> QED BY <1>1, <1>3, <1>4

-----------------------------------------------------------------------------
(* The drawn line *)

\* The line that begins at the creation is the curve with at most one point more,
\* without stars and before all others (render.go 784-799).
LEMMA BaselineIsLine ==
    ASSUME NEW stars \in Nat, NEW points, IsLine(points, stars), Len(points) > 0,
           NEW created \in Nat \cup {None}
    PROVE  LET plotted == AddingCreationBaseline(points, created)
           IN /\ IsLine(plotted, stars) /\ Len(plotted) > 0
              /\ ToSet(points) \subseteq ToSet(plotted)
              /\ \A p \in ToSet(plotted) :
                    p \in ToSet(points) \/ (p.count = 0 /\ p.day < First(points).day)
<1> DEFINE n == Len(points)
           baseline == [day |-> created, count |-> 0]
           plotted == <<baseline>> \o points
<1>1. CASE created = None \/ created >= First(points).day
  <2>1. AddingCreationBaseline(points, created) = points
    BY <1>1 DEF AddingCreationBaseline
  <2> QED BY <2>1
<1>2. CASE ~(created = None \/ created >= First(points).day)
  <2>1. AddingCreationBaseline(points, created) = plotted
    BY <1>2 DEF AddingCreationBaseline
  <2>2. /\ n \in Nat \ {0} /\ points \in Seq(Point) /\ DOMAIN points = 1 .. n
        /\ \A i, j \in 1 .. n : i < j =>
              points[i].day < points[j].day /\ points[i].count <= points[j].count
        /\ \A i \in 1 .. n : points[i].count <= stars
        /\ points[n].count = stars
    BY DEF IsLine
  <2>3. \A i \in 1 .. n : points[i] \in Point
    BY <2>2
  <2>4. \A i \in 1 .. n : points[i].day \in Nat /\ points[i].count \in Nat
    BY <2>3 DEF Point
  <2>5. created \in Nat /\ created < points[1].day
    <3>1. created \in Nat
      BY <1>2
    <3>2. 1 \in 1 .. n
      BY <2>2
    <3>3. points[1].day \in Nat /\ ~(created >= points[1].day)
      BY <1>2, <2>4, <3>2 DEF First
    <3> QED BY <3>1, <3>3
  <2>6. baseline \in Point
    BY <2>5 DEF Point
  <2>7. /\ plotted \in Seq(Point) /\ Len(plotted) = n + 1 /\ plotted[1] = baseline
        /\ \A i \in 2 .. n + 1 : plotted[i] = points[i - 1]
    BY <2>2, <2>6
  <2>8. baseline.day = created /\ baseline.count = 0
    OBVIOUS
  <2> HIDE DEF plotted, n, baseline
  <2>9. ASSUME NEW i \in 1 .. n PROVE created < points[i].day
    <3>1. CASE i = 1
      BY <2>5, <3>1
    <3>2. CASE i # 1
      <4>1. 1 \in 1 .. n /\ 1 < i
        BY <2>2, <3>2
      <4>2. points[1].day < points[i].day
        BY <2>2, <4>1
      <4> QED BY <2>4, <2>5, <4>1, <4>2
    <3> QED BY <3>1, <3>2
  <2>10. ASSUME NEW i \in 1 .. n + 1, NEW j \in 1 .. n + 1, i < j
         PROVE  plotted[i].day < plotted[j].day /\ plotted[i].count <= plotted[j].count
    <3>1. j \in 2 .. n + 1 /\ j - 1 \in 1 .. n
      BY <2>2, <2>10
    <3>2. CASE i = 1
      BY <2>4, <2>7, <2>8, <2>9, <3>1, <3>2
    <3>3. CASE i # 1
      <4>1. i \in 2 .. n + 1 /\ i - 1 \in 1 .. n /\ i - 1 < j - 1
        BY <2>2, <2>10, <3>3
      <4> QED BY <2>2, <2>7, <3>1, <4>1
    <3> QED BY <3>2, <3>3
  <2>11. ASSUME NEW i \in 1 .. n + 1 PROVE plotted[i].count <= stars
    <3>1. CASE i = 1
      BY <2>7, <2>8, <3>1
    <3>2. CASE i # 1
      <4>1. i \in 2 .. n + 1 /\ i - 1 \in 1 .. n
        BY <2>2, <3>2
      <4> QED BY <2>2, <2>7, <4>1
    <3> QED BY <3>1, <3>2
  <2>12. plotted[n + 1].count = stars
    <3>1. n + 1 \in 2 .. n + 1 /\ (n + 1) - 1 = n
      BY <2>2
    <3> QED BY <2>2, <2>7, <3>1
  <2>13. IsLine(plotted, stars) /\ Len(plotted) > 0
    BY <2>2, <2>7, <2>10, <2>11, <2>12 DEF IsLine
  <2>14. DOMAIN plotted = 1 .. n + 1
    BY <2>2, <2>7
  <2>15. ToSet(points) \subseteq ToSet(plotted)
    <3> SUFFICES ASSUME NEW i \in 1 .. n PROVE points[i] \in ToSet(plotted)
      BY <2>2 DEF ToSet
    <3>1. i + 1 \in 2 .. n + 1 /\ i + 1 \in 1 .. n + 1 /\ (i + 1) - 1 = i
      BY <2>2
    <3>2. plotted[i + 1] = points[i]
      BY <2>7, <3>1
    <3> QED BY <2>14, <3>1, <3>2 DEF ToSet
  <2>16. ASSUME NEW i \in 1 .. n + 1
         PROVE  plotted[i] \in ToSet(points)
                \/ (plotted[i].count = 0 /\ plotted[i].day < First(points).day)
    <3>1. CASE i = 1
      BY <2>5, <2>7, <2>8, <3>1 DEF First
    <3>2. CASE i # 1
      <4>1. i \in 2 .. n + 1 /\ i - 1 \in 1 .. n
        BY <2>2, <3>2
      <4> QED BY <2>2, <2>7, <4>1 DEF ToSet
    <3> QED BY <3>1, <3>2
  <2> QED BY <2>1, <2>13, <2>14, <2>15, <2>16 DEF ToSet, plotted, n, baseline
<1> QED BY <1>1, <1>2

\* The points of a line differ in their days.
LEMMA PointsOfLine ==
    ASSUME NEW stars, NEW points, IsLine(points, stars),
           NEW p \in ToSet(points), NEW q \in ToSet(points)
    PROVE  /\ p \in Point /\ p.day \in Nat /\ p.count \in Nat
           /\ p.day = q.day => p = q
           /\ p.day < q.day => p.count <= q.count
           /\ First(points).day <= p.day /\ p.day <= Latest(points).day
           /\ First(points) \in ToSet(points) /\ Latest(points) \in ToSet(points)
<1> DEFINE n == Len(points)
<1>1. /\ n \in Nat /\ points \in Seq(Point) /\ DOMAIN points = 1 .. n
      /\ \A i, j \in 1 .. n : i < j =>
            points[i].day < points[j].day /\ points[i].count <= points[j].count
  BY DEF IsLine
<1>2. \A i \in 1 .. n : points[i] \in Point
  BY <1>1
<1>3. \A i \in 1 .. n : points[i].day \in Nat /\ points[i].count \in Nat
  BY <1>2 DEF Point
<1>4. PICK i \in 1 .. n, j \in 1 .. n : p = points[i] /\ q = points[j]
  BY <1>1 DEF ToSet
<1> HIDE DEF n
<1>5. 1 \in 1 .. n /\ n \in 1 .. n /\ (i = 1 \/ 1 < i) /\ (i = n \/ i < n)
      /\ (i = j \/ i < j \/ j < i)
  BY <1>1, <1>4
<1>6. /\ p.day = q.day => p = q
      /\ p.day < q.day => p.count <= q.count
  <2>1. CASE i = j
    BY <1>3, <1>4, <2>1
  <2>2. CASE i < j
    BY <1>1, <1>3, <1>4, <2>2
  <2>3. CASE j < i
    BY <1>1, <1>3, <1>4, <2>3
  <2> QED BY <1>5, <2>1, <2>2, <2>3
<1>7. points[1].day <= p.day /\ p.day <= points[n].day
  BY <1>1, <1>3, <1>4, <1>5
<1>8. points[1] \in ToSet(points) /\ points[n] \in ToSet(points)
  BY <1>1, <1>5 DEF ToSet
<1> QED BY <1>2, <1>3, <1>4, <1>6, <1>7, <1>8 DEF First, Latest, n

\* Points in the order of their days.
InDays(S) == Sorted(S, LAMBDA p, q : p.day < q.day)

LEMMA DaysAreListed ==
    ASSUME NEW stars, NEW points, IsLine(points, stars),
           NEW S \in SUBSET ToSet(points), IsFiniteSet(S)
    PROVE  LET n == Cardinality(S)
               listed == InDays(S)
           IN /\ n \in Nat /\ listed \in Seq(S) /\ Len(listed) = n
              /\ \A x \in S : \E i \in 1 .. n : listed[i] = x
              /\ \A i, j \in 1 .. n : i < j => listed[i].day < listed[j].day
<1> DEFINE before == [x \in S |-> {y \in S : y.day < x.day}]
           rank == [x \in S |-> Cardinality({y \in S : y.day < x.day})]
<1>1. \A x \in S : x.day \in Nat
  BY PointsOfLine
<1>2. \A x, y \in S : x.day = y.day => x = y
  BY PointsOfLine
<1>3. IsOrder(before, S)
  <2>1. before \in [S -> SUBSET S]
    OBVIOUS
  <2>2. \A x \in S : before[x] = {y \in S : y.day < x.day}
    OBVIOUS
  <2> HIDE DEF before
  <2>3. \A x \in S : x \notin before[x]
    BY <1>1, <2>2
  <2>4. \A x, y \in S : y \in before[x] => before[y] \subseteq before[x]
    <3> SUFFICES ASSUME NEW x \in S, NEW y \in S, y \in before[x], NEW z \in before[y]
                 PROVE  z \in before[x]
      OBVIOUS
    <3>1. z \in S /\ z.day < y.day /\ y.day < x.day
      BY <2>2
    <3>2. z.day < x.day
      BY <1>1, <3>1
    <3> QED BY <2>2, <3>1, <3>2
  <2>5. \A x, y \in S : x # y => x \in before[y] \/ y \in before[x]
    <3> SUFFICES ASSUME NEW x \in S, NEW y \in S, x # y PROVE x \in before[y] \/ y \in before[x]
      OBVIOUS
    <3>1. x.day < y.day \/ y.day < x.day
      BY <1>1, <1>2
    <3> QED BY <2>2, <3>1
  <2> QED BY <2>1, <2>3, <2>4, <2>5 DEF IsOrder
<1>4. \A x \in S : rank[x] = Cardinality(before[x])
  OBVIOUS
<1>5. InDays(S) = Listed(rank, S)
  BY DEF InDays, Sorted, Listed
<1>6. \A x \in S, y \in S : y \in before[x] => y.day < x.day
  OBVIOUS
<1> HIDE DEF before, rank
<1>7. LET n == Cardinality(S)
          listed == InDays(S)
      IN /\ n \in Nat /\ listed \in Seq(S) /\ Len(listed) = n
         /\ \A x \in S : \E i \in 1 .. n : listed[i] = x
         /\ \A i, j \in 1 .. n : i < j => listed[i] \in before[listed[j]]
  BY <1>3, <1>4, <1>5, RanksAreListed
<1>8. \A i \in 1 .. Cardinality(S) : InDays(S)[i] \in S
  BY <1>7
<1> QED BY <1>6, <1>7, <1>8

LEMMA MembersOfList ==
    ASSUME NEW list, NEW n \in Nat, DOMAIN list = 1 .. n
    PROVE  IsFiniteSet(ToSet(list)) /\ Cardinality(ToSet(list)) <= n
<1> DEFINE f == [i \in 1 .. n |-> list[i]]
<1>1. f \in Surjection(1 .. n, ToSet(list))
  BY DEF Surjection, ToSet
<1> HIDE DEF f
<1>2. IsFiniteSet(1 .. n) /\ Cardinality(1 .. n) = n
  BY FS_Interval
<1> QED BY <1>1, <1>2, FS_Surjection

Anchors(events) == {e.point : e \in {x \in ToSet(events) : x.point # None}}
MissingFrom(anchors, base) == {p \in anchors : \A q \in ToSet(base) : q.day # p.day}

\* What is drawn of a curve: its first and its last point and others between them,
\* in order.
IsDrawnOf(drawn, points) ==
    /\ Len(drawn) \in Nat /\ DOMAIN drawn = 1 .. Len(drawn)
    /\ ToSet(drawn) \subseteq ToSet(points)
    /\ First(drawn) = First(points) /\ Latest(drawn) = Latest(points)
    /\ \A i, j \in 1 .. Len(drawn) : i < j =>
          drawn[i].day < drawn[j].day /\ drawn[i].count <= drawn[j].count

\* The anchors that are missing from a sampled line are put in their places.
LEMMA AnchorsAreAdded ==
    ASSUME NEW stars, NEW points, IsLine(points, stars),
           NEW base, IsLine(base, stars), ToSet(base) \subseteq ToSet(points),
           First(points) \in ToSet(base), Latest(points) \in ToSet(base),
           NEW anchors \in SUBSET ToSet(points), IsFiniteSet(anchors)
    PROVE  LET missing == MissingFrom(anchors, base)
               drawn == InDays(ToSet(base) \cup missing)
           IN /\ IsDrawnOf(drawn, points) /\ anchors \subseteq ToSet(drawn)
              /\ IsFiniteSet(missing) /\ Cardinality(missing) <= Cardinality(anchors)
              /\ Len(drawn) <= Len(base) + Cardinality(missing)
<1> DEFINE missing == MissingFrom(anchors, base)
           S == ToSet(base) \cup missing
           drawn == InDays(S)
           n == Cardinality(S)
<1>1. missing \subseteq anchors
  BY DEF MissingFrom
<1>2. IsFiniteSet(missing) /\ Cardinality(missing) <= Cardinality(anchors)
  <2> HIDE DEF missing
  <2> QED BY <1>1, FS_Subset
<1>3. /\ IsFiniteSet(ToSet(base)) /\ Cardinality(ToSet(base)) <= Len(base)
      /\ Len(base) \in Nat
  <2>1. Len(base) \in Nat /\ DOMAIN base = 1 .. Len(base)
    BY DEF IsLine
  <2> QED BY <2>1, MembersOfList
<1>4. IsFiniteSet(S) /\ n <= Len(base) + Cardinality(missing) /\ n \in Nat
  <2> HIDE DEF missing
  <2>1. /\ IsFiniteSet(S)
        /\ n = Cardinality(ToSet(base)) + Cardinality(missing)
               - Cardinality(ToSet(base) \cap missing)
    BY <1>2, <1>3, FS_Union
  <2>2. IsFiniteSet(ToSet(base) \cap missing)
    BY <1>3, FS_Subset
  <2>3. /\ Cardinality(ToSet(base)) \in Nat /\ Cardinality(missing) \in Nat
        /\ Cardinality(ToSet(base) \cap missing) \in Nat
    BY <1>2, <1>3, <2>2, FS_CardinalityType
  <2>4. n \in Nat
    BY <2>1, FS_CardinalityType
  <2> HIDE DEF S
  <2> QED BY <1>3, <2>1, <2>3, <2>4
<1>5. S \in SUBSET ToSet(points)
  BY <1>1
<1>6. First(points) \in S /\ Latest(points) \in S
  OBVIOUS
<1>7. anchors \subseteq S
  <2> SUFFICES ASSUME NEW p \in anchors, p \notin missing PROVE p \in ToSet(base)
    OBVIOUS
  <2>1. PICK q \in ToSet(base) : q.day = p.day
    BY DEF MissingFrom
  <2>2. q = p
    BY <2>1, PointsOfLine
  <2> QED BY <2>2
<1> HIDE DEF S, n, missing
<1>8. /\ drawn \in Seq(S) /\ Len(drawn) = n
      /\ \A x \in S : \E i \in 1 .. n : drawn[i] = x
      /\ \A i, j \in 1 .. n : i < j => drawn[i].day < drawn[j].day
  BY <1>4, <1>5, DaysAreListed DEF n
<1> HIDE DEF drawn
<1>9. DOMAIN drawn = 1 .. n /\ \A i \in 1 .. n : drawn[i] \in S
  BY <1>4, <1>8
<1>10. ToSet(drawn) = S
  BY <1>8, <1>9 DEF ToSet
<1>11. \A p \in S : p.day \in Nat /\ First(points).day <= p.day /\ p.day <= Latest(points).day
  BY <1>5, PointsOfLine
<1>12. PICK i \in 1 .. n : drawn[i] = First(points)
  BY <1>6, <1>8
<1>13. PICK j \in 1 .. n : drawn[j] = Latest(points)
  BY <1>6, <1>8
<1>14. 1 \in 1 .. n /\ n \in 1 .. n /\ (i = 1 \/ 1 < i) /\ (j = n \/ j < n)
  BY <1>4, <1>12
<1>15. drawn[1] = First(points)
  <2>1. drawn[1] \in S
    BY <1>9, <1>14
  <2>2. ~(drawn[1].day < drawn[i].day)
    BY <1>6, <1>11, <1>12, <2>1
  <2> QED BY <1>8, <1>12, <1>14, <2>2
<1>16. drawn[n] = Latest(points)
  <2>1. drawn[n] \in S
    BY <1>9, <1>14
  <2>2. ~(drawn[j].day < drawn[n].day)
    BY <1>6, <1>11, <1>13, <2>1
  <2> QED BY <1>8, <1>13, <1>14, <2>2
<1>17. ASSUME NEW k \in 1 .. n, NEW m \in 1 .. n, k < m PROVE drawn[k].count <= drawn[m].count
  <2>1. drawn[k] \in ToSet(points) /\ drawn[m] \in ToSet(points) /\ drawn[k].day < drawn[m].day
    BY <1>5, <1>8, <1>9, <1>17
  <2> QED BY <2>1, PointsOfLine
<1>18. IsDrawnOf(drawn, points)
  BY <1>4, <1>5, <1>8, <1>9, <1>10, <1>15, <1>16, <1>17 DEF IsDrawnOf, First, Latest
<1> QED BY <1>2, <1>4, <1>7, <1>8, <1>10, <1>18 DEF drawn, S, missing

\* The line is drawn through at most maximumDrawnPoints of the curve's points, in
\* order, with the first, the last and all anchors, of which there are at most
\* four (render.go 801-835).
THEOREM LineIsSampled ==
    ASSUME NEW stars \in Nat, NEW points, IsLine(points, stars), Len(points) > 0,
           NEW events, IsFiniteSet(Anchors(events)), Cardinality(Anchors(events)) <= 4,
           Anchors(events) \subseteq ToSet(points)
    PROVE  LET drawn == RenderedPointsWithAnchors(points, events)
           IN /\ IsDrawnOf(drawn, points)
              /\ Len(drawn) <= MaximumDrawn
              /\ Anchors(events) \subseteq ToSet(drawn)
<1> DEFINE anchors == Anchors(events)
           room == MaximumDrawn - Cardinality(anchors)
           sampled == LargestTriangleThreeBuckets(points, MaximumDrawn)
           smaller == LargestTriangleThreeBuckets(points, room)
           Drawn(base) == InDays(ToSet(base) \cup MissingFrom(anchors, base))
<1>1. RenderedPointsWithAnchors(points, events) =
         IF Len(sampled) + Cardinality(MissingFrom(anchors, sampled)) > MaximumDrawn
         THEN Drawn(smaller) ELSE Drawn(sampled)
  BY DEF RenderedPointsWithAnchors, InDays, MissingFrom, Anchors
<1> HIDE DEF anchors
<1>2. /\ anchors \in SUBSET ToSet(points) /\ IsFiniteSet(anchors)
      /\ Cardinality(anchors) \in Nat /\ Cardinality(anchors) <= 4
  BY FS_CardinalityType DEF anchors
<1>3. MaximumDrawn \in Nat /\ 3 <= MaximumDrawn /\ room \in Nat /\ 3 <= room
  BY <1>2, CardAssumption
<1> HIDE DEF room
<1>4. /\ IsLine(sampled, stars) /\ Len(sampled) <= MaximumDrawn
      /\ ToSet(sampled) \subseteq ToSet(points)
      /\ First(points) \in ToSet(sampled) /\ Latest(points) \in ToSet(sampled)
  BY <1>3, SampledIsLine
<1>5. /\ IsLine(smaller, stars) /\ Len(smaller) <= room
      /\ ToSet(smaller) \subseteq ToSet(points)
      /\ First(points) \in ToSet(smaller) /\ Latest(points) \in ToSet(smaller)
  BY <1>3, SampledIsLine
<1> HIDE DEF sampled, smaller
<1>6. ASSUME NEW base \in {sampled, smaller}
      PROVE  /\ IsDrawnOf(Drawn(base), points) /\ anchors \subseteq ToSet(Drawn(base))
             /\ Len(Drawn(base)) \in Nat /\ Len(base) \in Nat
             /\ Cardinality(MissingFrom(anchors, base)) \in Nat
             /\ Cardinality(MissingFrom(anchors, base)) <= Cardinality(anchors)
             /\ Len(Drawn(base)) <= Len(base) + Cardinality(MissingFrom(anchors, base))
  <2>1. /\ IsLine(base, stars) /\ ToSet(base) \subseteq ToSet(points)
        /\ First(points) \in ToSet(base) /\ Latest(points) \in ToSet(base)
    BY <1>4, <1>5
  <2>2. /\ IsDrawnOf(Drawn(base), points) /\ anchors \subseteq ToSet(Drawn(base))
        /\ IsFiniteSet(MissingFrom(anchors, base))
        /\ Cardinality(MissingFrom(anchors, base)) <= Cardinality(anchors)
        /\ Len(Drawn(base)) <= Len(base) + Cardinality(MissingFrom(anchors, base))
    BY <1>2, <2>1, AnchorsAreAdded
  <2>3. Len(base) \in Nat
    BY <2>1 DEF IsLine
  <2> HIDE DEF Drawn
  <2> QED BY <2>2, <2>3, FS_CardinalityType DEF IsDrawnOf
<1> HIDE DEF Drawn
<1>7. CASE Len(sampled) + Cardinality(MissingFrom(anchors, sampled)) > MaximumDrawn
  <2>1. Len(Drawn(smaller)) <= MaximumDrawn
    <3> DEFINE drawn == Len(Drawn(smaller))
               length == Len(smaller)
               missing == Cardinality(MissingFrom(anchors, smaller))
               size == Cardinality(anchors)
    <3>1. /\ drawn \in Nat /\ length \in Nat /\ missing \in Nat
          /\ missing <= size /\ drawn <= length + missing
      BY <1>6
    <3>2. size \in Nat /\ MaximumDrawn \in Nat /\ length <= MaximumDrawn - size
      BY <1>2, <1>3, <1>5 DEF room
    <3> HIDE DEF drawn, length, missing, size
    <3>3. drawn <= MaximumDrawn
      BY <3>1, <3>2
    <3> QED BY <3>3 DEF drawn
  <2> QED BY <1>1, <1>6, <1>7, <2>1 DEF anchors
<1>8. CASE ~(Len(sampled) + Cardinality(MissingFrom(anchors, sampled)) > MaximumDrawn)
  <2>1. Len(Drawn(sampled)) <= MaximumDrawn
    BY <1>3, <1>6, <1>8
  <2> QED BY <1>1, <1>6, <1>8, <2>1 DEF anchors
<1> QED BY <1>7, <1>8

-----------------------------------------------------------------------------
(* The journey's order *)

IsList(list) == list \in Seq(ToSet(list))

LEMMA ListsJoin ==
    ASSUME NEW a, NEW b, IsList(a), IsList(b)
    PROVE  IsList(a \o b) /\ ToSet(a \o b) = ToSet(a) \cup ToSet(b)
<1> DEFINE E == ToSet(a) \cup ToSet(b)
           c == a \o b
<1>1. a \in Seq(E) /\ b \in Seq(E)
  BY DEF IsList
<1>2. /\ c \in Seq(E) /\ Len(c) = Len(a) + Len(b) /\ Len(a) \in Nat /\ Len(b) \in Nat
      /\ \A i \in 1 .. Len(a) : c[i] = a[i]
      /\ \A i \in 1 .. Len(b) : c[Len(a) + i] = b[i]
      /\ \A i \in 1 .. Len(c) : i <= Len(a) \/ (i - Len(a) \in 1 .. Len(b) /\ i = Len(a) + (i - Len(a)))
  <2> HIDE DEF E
  <2> QED BY <1>1
<1>3. DOMAIN a = 1 .. Len(a) /\ DOMAIN b = 1 .. Len(b) /\ DOMAIN c = 1 .. Len(c)
  BY <1>1, <1>2
<1> HIDE DEF c, E
<1>4. ToSet(c) \subseteq E
  BY <1>2, <1>3 DEF ToSet
<1>5. E \subseteq ToSet(c)
  <2>1. ASSUME NEW i \in 1 .. Len(a) PROVE a[i] \in ToSet(c)
    <3>1. i \in 1 .. Len(c)
      BY <1>2
    <3> QED BY <1>2, <1>3, <3>1 DEF ToSet
  <2>2. ASSUME NEW i \in 1 .. Len(b) PROVE b[i] \in ToSet(c)
    <3>1. Len(a) + i \in 1 .. Len(c)
      BY <1>2
    <3> QED BY <1>2, <1>3, <3>1 DEF ToSet
  <2> QED BY <1>3, <2>1, <2>2 DEF E, ToSet
<1> QED BY <1>2, <1>4, <1>5 DEF IsList, E, c

LEMMA ListOfFunction ==
    ASSUME NEW list, NEW n \in Nat, list = [i \in 1 .. n |-> list[i]]
    PROVE  IsList(list) /\ Len(list) = n /\ DOMAIN list = 1 .. n
<1>1. list \in [1 .. n -> ToSet(list)] /\ DOMAIN list = 1 .. n
  BY DEF ToSet
<1> QED BY <1>1 DEF IsList

LEMMA ListDomain ==
    ASSUME NEW list, IsList(list)
    PROVE  Len(list) \in Nat /\ DOMAIN list = 1 .. Len(list)
BY DEF IsList

\* The first events of a list.
LEMMA FirstEvents ==
    ASSUME NEW list, IsList(list), NEW n \in Nat
    PROVE  LET short == AtMost(list, n)
           IN /\ IsList(short) /\ Len(short) <= n
              /\ ToSet(short) \subseteq ToSet(list)
              /\ \A i \in 1 .. Len(short) : short[i] = list[i]
<1> DEFINE m == Smaller(n, Len(list))
           short == [i \in 1 .. m |-> list[i]]
<1>1. Len(list) \in Nat /\ DOMAIN list = 1 .. Len(list)
  BY ListDomain
<1>2. m \in 0 .. Len(list) /\ m <= n
  BY <1>1 DEF Smaller
<1>3. AtMost(list, n) = short
  <2>1. m - 1 + 1 = m
    BY <1>2
  <2> HIDE DEF m
  <2> QED BY <1>2, <2>1 DEF AtMost, m
<1>4. \A i \in 1 .. m : short[i] = list[i] /\ i \in 1 .. Len(list)
  BY <1>1, <1>2
<1>5. short = [i \in 1 .. m |-> short[i]]
  OBVIOUS
<1> HIDE DEF short, m
<1>6. IsList(short) /\ Len(short) = m /\ DOMAIN short = 1 .. m
  BY <1>1, <1>2, <1>5, ListOfFunction
<1>7. ToSet(short) \subseteq ToSet(list)
  BY <1>1, <1>4, <1>6 DEF ToSet
<1> QED BY <1>2, <1>3, <1>4, <1>6, <1>7

LEMMA ListAtPlaces ==
    ASSUME NEW list, IsList(list), NEW places \in SUBSET (DOMAIN list)
    PROVE  /\ IsList(AtPlaces(list, places))
           /\ ToSet(AtPlaces(list, places)) = {list[i] : i \in places}
<1> DEFINE listed == InOrder(places)
           n == Cardinality(places)
           picked == [i \in 1 .. n |-> list[listed[i]]]
<1>1. Len(list) \in Nat /\ DOMAIN list = 1 .. Len(list)
  BY ListDomain
<1>2. IsFiniteSet(places) /\ places \subseteq Int
  <2>1. IsFiniteSet(1 .. Len(list)) /\ 1 .. Len(list) \subseteq Int
    BY <1>1, FS_Interval
  <2> QED BY <1>1, <2>1, FS_Subset
<1>3. Lists(listed, places) /\ n \in Nat
  BY <1>2, InOrderLists, FS_CardinalityType
<1> HIDE DEF listed
<1>4. /\ listed \in Seq(places) /\ Len(listed) = n /\ DOMAIN listed = 1 .. n
      /\ \A x \in places : \E i \in 1 .. n : listed[i] = x
  <2>1. listed \in Seq(places) /\ Len(listed) = n /\ \A x \in places : \E i \in 1 .. n : listed[i] = x
    BY <1>3 DEF Lists
  <2> HIDE DEF n
  <2> QED BY <2>1
<1>5. AtPlaces(list, places) = picked
  BY <1>4 DEF AtPlaces, listed
<1>6. \A i \in 1 .. n : picked[i] = list[listed[i]] /\ listed[i] \in places
  BY <1>4
<1>7. picked = [i \in 1 .. n |-> picked[i]]
  OBVIOUS
<1> HIDE DEF picked, n
<1>8. IsList(picked) /\ DOMAIN picked = 1 .. n
  BY <1>3, <1>7, ListOfFunction
<1>9. ToSet(picked) = {list[i] : i \in places}
  BY <1>4, <1>6, <1>8 DEF ToSet
<1> QED BY <1>5, <1>8, <1>9

\* The score of an event that is still to be chosen.
Scores(events, chosen) ==
    LET days == {events[i].day : i \in DOMAIN events}
        duration == Larger(1, Max(days) - Min(days))
        Distance(i, j) == IF events[i].day < events[j].day
                          THEN events[j].day - events[i].day
                          ELSE events[i].day - events[j].day
    IN [i \in DOMAIN events \ ToSet(chosen) |->
            events[i].priority * duration
            + (IF chosen = << >> THEN 0
               ELSE 32 * Min({Distance(i, j) : j \in ToSet(chosen)}))]

\* The recursion of the order in which events are chosen.
IsRanking(g, events, m) ==
    g = [k \in 0 .. m |->
            IF k = 0 THEN << >> ELSE Append(g[k - 1], FirstLargest(Scores(events, g[k - 1])))]

LEMMA RankingExists ==
    ASSUME NEW events, NEW m \in Nat
    PROVE  \E g : IsRanking(g, events, m)
<1> DEFINE Chosen(before) == Append(before, FirstLargest(Scores(events, before)))
           S == {j \in Nat : \E g : IsRanking(g, events, j)}
<1>1. 0 \in S
  <2> DEFINE g == [k \in 0 .. 0 |-> << >>]
  <2>1. IsRanking(g, events, 0)
    BY DEF IsRanking
  <2> QED BY <2>1
<1>2. ASSUME NEW j \in Nat, j \in S PROVE j + 1 \in S
  <2> PICK g : IsRanking(g, events, j)
    BY <1>2
  <2>1. g = [k \in 0 .. j |-> IF k = 0 THEN << >> ELSE Chosen(g[k - 1])]
    BY DEF IsRanking
  <2> DEFINE h == [k \in 0 .. j + 1 |-> IF k = j + 1 THEN Chosen(g[j]) ELSE g[k]]
  <2> HIDE DEF Chosen
  <2>2. ASSUME NEW k \in 0 .. j + 1 PROVE h[k] = IF k = 0 THEN << >> ELSE Chosen(h[k - 1])
    <3>1. CASE k = j + 1
      <4>1. h[j] = g[j]
        OBVIOUS
      <4> QED BY <3>1, <4>1
    <3>2. CASE k # j + 1
      <4>1. k \in 0 .. j
        BY <3>2
      <4>2. h[k] = g[k] /\ (k # 0 => h[k - 1] = g[k - 1])
        BY <4>1
      <4>3. g[k] = IF k = 0 THEN << >> ELSE Chosen(g[k - 1])
        BY <2>1, <4>1
      <4> HIDE DEF h
      <4> QED BY <4>2, <4>3
    <3> QED BY <3>1, <3>2
  <2>3. h = [k \in 0 .. j + 1 |-> h[k]]
    OBVIOUS
  <2> HIDE DEF h
  <2>4. h = [k \in 0 .. j + 1 |-> IF k = 0 THEN << >> ELSE Chosen(h[k - 1])]
    BY <2>2, <2>3
  <2>5. IsRanking(h, events, j + 1)
    BY <2>4 DEF IsRanking, Chosen
  <2> QED BY <2>5
<1>3. Nat \subseteq S
  <2> HIDE DEF S
  <2> QED BY <1>1, <1>2, Induction
<1> QED BY <1>3

\* Chosen events in the order of their days, and of their choice on the same day.
InTime(events, order) ==
    Sorted(DOMAIN order, LAMBDA k, m :
        LET a == events[order[k]].day
            b == events[order[m]].day
        IN a < b \/ (a = b /\ k < m))

LEMMA JourneyRanked ==
    ASSUME NEW events
    PROVE  RankJourney(events) =
              LET ranking == CHOOSE g : IsRanking(g, events, Len(events))
                  order == ranking[Len(events)]
                  places == InTime(events, order)
              IN [k \in DOMAIN places |-> events[order[places[k]]]]
BY DEF RankJourney, IsRanking, Scores, InTime

Dated(events) == \A i \in DOMAIN events : events[i].day \in Int /\ events[i].priority \in Int

\* Another event can be chosen as long as one is left.
LEMMA EventIsChosen ==
    ASSUME NEW n \in Nat, NEW events, DOMAIN events = 1 .. n, Dated(events),
           NEW chosen \in Seq(1 .. n), Len(chosen) < n
    PROVE  FirstLargest(Scores(events, chosen)) \in 1 .. n
<1> DEFINE days == {events[i].day : i \in 1 .. n}
           duration == Larger(1, Max(days) - Min(days))
           Distance(i, j) == IF events[i].day < events[j].day
                             THEN events[j].day - events[i].day
                             ELSE events[i].day - events[j].day
           D == (1 .. n) \ ToSet(chosen)
           Nearest(i) == IF chosen = << >> THEN 0
                         ELSE 32 * Min({Distance(i, j) : j \in ToSet(chosen)})
           value == Scores(events, chosen)
<1>1. \A i \in 1 .. n : events[i].day \in Int /\ events[i].priority \in Int
  BY DEF Dated
<1>2. IsFiniteSet(1 .. n) /\ Cardinality(1 .. n) = n
  BY FS_Interval
<1>3. /\ IsFiniteSet(ToSet(chosen)) /\ Cardinality(ToSet(chosen)) <= Len(chosen)
      /\ Len(chosen) \in Nat /\ DOMAIN chosen = 1 .. Len(chosen)
      /\ ToSet(chosen) \subseteq 1 .. n
  <2>1. Len(chosen) \in Nat /\ DOMAIN chosen = 1 .. Len(chosen)
        /\ \A i \in 1 .. Len(chosen) : chosen[i] \in 1 .. n
    OBVIOUS
  <2>2. ToSet(chosen) \subseteq 1 .. n
    BY <2>1 DEF ToSet
  <2> QED BY <2>1, <2>2, MembersOfList
<1>4. IsFiniteSet(D) /\ D \subseteq Int /\ D # {} /\ D \subseteq 1 .. n
  <2>1. IsFiniteSet(D)
    BY <1>2, FS_Subset
  <2>2. ASSUME D = {} PROVE FALSE
    <3>1. ToSet(chosen) = 1 .. n
      BY <1>3, <2>2
    <3> QED BY <1>2, <1>3, <3>1
  <2> QED BY <2>1, <2>2
<1>5. duration \in Int
  <2> DEFINE f == [i \in 1 .. n |-> events[i].day]
  <2>1. f \in Surjection(1 .. n, days)
    BY DEF Surjection
  <2>2. days \subseteq Int
    BY <1>1
  <2>3. events[1].day \in days
    <3>1. 1 \in 1 .. n
      BY <1>3
    <3> QED BY <3>1
  <2> HIDE DEF f, days
  <2>4. IsFiniteSet(days)
    BY <1>2, <2>1, FS_Surjection
  <2>5. Max(days) \in Int /\ Min(days) \in Int
    BY <2>2, <2>3, <2>4, MaxOfFinite, MinOfFinite
  <2> QED BY <2>5 DEF Larger
<1>6. ASSUME NEW i \in 1 .. n PROVE Nearest(i) \in Int
  <2> SUFFICES ASSUME chosen # << >> PROVE Nearest(i) \in Int
    OBVIOUS
  <2> DEFINE T == {Distance(i, j) : j \in ToSet(chosen)}
             f == [j \in ToSet(chosen) |-> Distance(i, j)]
  <2>1. f \in Surjection(ToSet(chosen), T)
    BY DEF Surjection
  <2>2. \A j \in ToSet(chosen) : Distance(i, j) \in Int
    BY <1>1, <1>3
  <2> HIDE DEF Distance
  <2>3. T \subseteq Int
    BY <2>2
  <2>4. T # {}
    <3>1. 1 \in DOMAIN chosen
      <4>1. Len(chosen) # 0
        OBVIOUS
      <4> QED BY <1>3, <4>1
    <3>2. chosen[1] \in ToSet(chosen)
      BY <3>1 DEF ToSet
    <3> QED BY <3>2
  <2> HIDE DEF f, T
  <2>5. IsFiniteSet(T)
    BY <1>3, <2>1, FS_Surjection
  <2>6. Min(T) \in Int
    BY <2>3, <2>4, <2>5, MinOfFinite
  <2>7. Nearest(i) = 32 * Min(T)
    BY DEF T
  <2> HIDE DEF Nearest
  <2> QED BY <2>6, <2>7
<1>7. value = [i \in D |-> events[i].priority * duration + Nearest(i)]
  BY DEF Scores
<1> HIDE DEF value, D, duration, Nearest
<1>8. Values(value, D)
  <2>1. DOMAIN value = D
    BY <1>7
  <2>2. ASSUME NEW i \in D PROVE value[i] \in Int
    <3>1. i \in 1 .. n /\ value[i] = events[i].priority * duration + Nearest(i)
      BY <1>4, <1>7
    <3>2. events[i].priority \in Int /\ Nearest(i) \in Int
      BY <1>1, <1>6, <3>1
    <3> QED BY <1>5, <3>1, <3>2
  <2> QED BY <2>1, <2>2 DEF Values
<1>9. FirstLargest(value) \in D
  BY <1>4, <1>8, LargestExists
<1> QED BY <1>4, <1>9 DEF value

\* What is ranked are events of those given, in the order of their days
\* (render.go 724-761).
THEOREM JourneyIsOfEvents ==
    ASSUME NEW events, IsList(events), Len(events) > 0, Dated(events)
    PROVE  LET journey == RankJourney(events)
           IN /\ IsList(journey) /\ ToSet(journey) \subseteq ToSet(events)
              /\ \A k, m \in DOMAIN journey : k < m => journey[k].day <= journey[m].day
<1> DEFINE n == Len(events)
           ranking == CHOOSE g : IsRanking(g, events, n)
           order == ranking[n]
           places == InTime(events, order)
           journey == [k \in DOMAIN places |-> events[order[places[k]]]]
<1>1. n \in Nat /\ DOMAIN events = 1 .. n
  BY ListDomain
<1>2. RankJourney(events) = journey
  BY JourneyRanked
<1>3. IsRanking(ranking, events, n)
  BY <1>1, RankingExists
<1> HIDE DEF n, ranking
<1> DEFINE S == {k \in Nat : k <= n => ranking[k] \in Seq(1 .. n) /\ Len(ranking[k]) = k}
<1>4. 0 \in S
  <2>1. ranking[0] = << >>
    <3>1. 0 \in 0 .. n
      BY <1>1
    <3> QED BY <1>3, <3>1 DEF IsRanking
  <2>2. << >> \in Seq(1 .. n) /\ Len(<< >>) = 0
    OBVIOUS
  <2>3. ranking[0] \in Seq(1 .. n) /\ Len(ranking[0]) = 0
    BY <2>1, <2>2
  <2> QED BY <2>3
<1>5. ASSUME NEW k \in Nat, k \in S PROVE k + 1 \in S
  <2> SUFFICES ASSUME k + 1 <= n
               PROVE  ranking[k + 1] \in Seq(1 .. n) /\ Len(ranking[k + 1]) = k + 1
    OBVIOUS
  <2>1. ranking[k] \in Seq(1 .. n) /\ Len(ranking[k]) = k /\ k < n
    BY <1>1, <1>5
  <2>2. FirstLargest(Scores(events, ranking[k])) \in 1 .. n
    BY <1>1, <2>1, EventIsChosen
  <2>3. k + 1 \in 0 .. n /\ k + 1 # 0 /\ (k + 1) - 1 = k
    BY <1>1
  <2>4. ranking[k + 1] = Append(ranking[k], FirstLargest(Scores(events, ranking[k])))
    BY <1>3, <2>3 DEF IsRanking
  <2> QED BY <2>1, <2>2, <2>4
<1>6. Nat \subseteq S
  <2> HIDE DEF S
  <2> QED BY <1>4, <1>5, Induction
<1>7. order \in Seq(1 .. n) /\ Len(order) = n
  BY <1>1, <1>6
<1> HIDE DEF order
<1>8. DOMAIN order = 1 .. n /\ \A k \in 1 .. n : order[k] \in 1 .. n
  BY <1>7
<1> DEFINE Day(k) == events[order[k]].day
           Before(k, m) == Day(k) < Day(m) \/ (Day(k) = Day(m) /\ k < m)
           before == [m \in 1 .. n |-> {k \in 1 .. n : Before(k, m)}]
           rank == [m \in 1 .. n |-> Cardinality({k \in 1 .. n : Before(k, m)})]
<1>9. \A k \in 1 .. n : Day(k) \in Int
  BY <1>1, <1>8 DEF Dated
<1>10. places = Listed(rank, 1 .. n)
  BY <1>8 DEF InTime, Sorted, Listed
<1>11. \A m \in 1 .. n : rank[m] = Cardinality(before[m])
  OBVIOUS
<1>12. \A m \in 1 .. n : before[m] = {k \in 1 .. n : Before(k, m)}
  OBVIOUS
<1>13. before \in [1 .. n -> SUBSET (1 .. n)]
  OBVIOUS
<1> HIDE DEF before, rank, Day, places
<1>14. IsOrder(before, 1 .. n)
  <2>1. \A x \in 1 .. n : x \notin before[x]
    BY <1>1, <1>9, <1>12
  <2>2. \A x, y \in 1 .. n : y \in before[x] => before[y] \subseteq before[x]
    <3> SUFFICES ASSUME NEW x \in 1 .. n, NEW y \in 1 .. n, y \in before[x], NEW z \in before[y]
                 PROVE  z \in before[x]
      OBVIOUS
    <3>1. z \in 1 .. n /\ Before(z, y) /\ Before(y, x)
      BY <1>12
    <3>2. Day(x) \in Int /\ Day(y) \in Int /\ Day(z) \in Int
      BY <1>9, <3>1
    <3>3. Before(z, x)
      BY <1>1, <3>1, <3>2
    <3> QED BY <1>12, <3>1, <3>3
  <2>3. \A x, y \in 1 .. n : x # y => x \in before[y] \/ y \in before[x]
    <3> SUFFICES ASSUME NEW x \in 1 .. n, NEW y \in 1 .. n, x # y
                 PROVE  x \in before[y] \/ y \in before[x]
      OBVIOUS
    <3>1. Day(x) \in Int /\ Day(y) \in Int
      BY <1>9
    <3>2. Before(x, y) \/ Before(y, x)
      BY <1>1, <3>1
    <3> QED BY <1>12, <3>2
  <2> QED BY <1>13, <2>1, <2>2, <2>3 DEF IsOrder
<1>15. /\ Cardinality(1 .. n) = n /\ IsFiniteSet(1 .. n)
  BY <1>1, FS_Interval
<1>16. /\ places \in Seq(1 .. n) /\ Len(places) = n
       /\ \A i, j \in 1 .. n : i < j => places[i] \in before[places[j]]
  <2> DEFINE D == 1 .. n
  <2>1. IsFiniteSet(D) /\ IsOrder(before, D) /\ \A x \in D : rank[x] = Cardinality(before[x])
    BY <1>11, <1>14, <1>15
  <2>2. places = Listed(rank, D) /\ Cardinality(D) = n
    BY <1>10, <1>15
  <2> HIDE DEF D
  <2>3. /\ places \in Seq(D) /\ Len(places) = Cardinality(D)
        /\ \A i, j \in 1 .. Cardinality(D) : i < j => places[i] \in before[places[j]]
    BY <2>1, <2>2, RanksAreListed
  <2> QED BY <2>2, <2>3 DEF D
<1>17. DOMAIN places = 1 .. n /\ \A k \in 1 .. n : places[k] \in 1 .. n
  BY <1>1, <1>16
<1>18. \A k \in 1 .. n : journey[k] = events[order[places[k]]]
  BY <1>17
<1>19. journey = [k \in 1 .. n |-> journey[k]]
  BY <1>17
<1> HIDE DEF journey
<1>20. IsList(journey) /\ DOMAIN journey = 1 .. n
  BY <1>1, <1>19, ListOfFunction
<1>21. ToSet(journey) \subseteq ToSet(events)
  BY <1>1, <1>8, <1>17, <1>18, <1>20 DEF ToSet
<1>22. ASSUME NEW k \in 1 .. n, NEW m \in 1 .. n, k < m PROVE journey[k].day <= journey[m].day
  <2>1. places[k] \in before[places[m]]
    BY <1>16, <1>22
  <2>2. Before(places[k], places[m])
    BY <1>12, <1>17, <2>1
  <2>3. Day(places[k]) \in Int /\ Day(places[m]) \in Int
    BY <1>9, <1>17
  <2>4. Day(places[k]) <= Day(places[m])
    BY <2>2, <2>3
  <2> QED BY <1>18, <2>4 DEF Day
<1> QED BY <1>2, <1>20, <1>21, <1>22

-----------------------------------------------------------------------------
(* Milestones *)

LEMMA ThresholdsAreCounts ==
    ASSUME NEW current \in Nat
    PROVE  Thresholds(current) \in Seq(Nat \ {0})
<1>1. CASE current < 10
  <2>1. Thresholds(current) = <<1, 3, 5, 10>>
    BY <1>1 DEF Thresholds
  <2> QED BY <2>1, SMT
<1>2. CASE ~(current < 10) /\ current < 100
  <2>1. Thresholds(current) = <<10, 25, 50, 100>>
    BY <1>2 DEF Thresholds
  <2> QED BY <2>1, SMT
<1>3. CASE ~(current < 100) /\ current < 1000
  <2>1. Thresholds(current) = <<10, 100, 250, 500, 1000>>
    BY <1>3 DEF Thresholds
  <2> QED BY <2>1, SMT
<1>4. CASE ~(current < 1000) /\ current < 10000
  <2>1. Thresholds(current) = <<1000, 2500, 5000, 10000>>
    BY <1>4 DEF Thresholds
  <2> QED BY <2>1, SMT
<1>5. CASE ~(current < 10000) /\ current < 100000
  <2>1. Thresholds(current) = <<1000, 10000, 25000, 50000, 100000>>
    BY <1>5 DEF Thresholds
  <2> QED BY <2>1, SMT
<1>6. CASE current >= 100000
  <2> DEFINE S == {s \in LargeScales : s <= current}
             scale == Max(S)
  <2>1. 100000 \in LargeScales /\ \A x \in LargeScales : x \in Nat
    BY SMT DEF LargeScales
  <2>2. S # {} /\ S \subseteq Int /\ S \subseteq 0 .. current
    <3>1. 100000 \in S
      BY <1>6, <2>1, SMT
    <3>2. \A x \in S : x \in Int /\ x \in 0 .. current
      BY <2>1
    <3> HIDE DEF S
    <3> QED BY <3>1, <3>2
  <2>3. IsFiniteSet(S)
    <3>1. IsFiniteSet(0 .. current)
      BY FS_Interval
    <3> HIDE DEF S
    <3> QED BY <2>2, <3>1, FS_Subset
  <2> HIDE DEF S
  <2>4. scale \in S
    BY <2>2, <2>3, MaxOfFinite
  <2>5. scale \in LargeScales
    BY <2>4 DEF S
  <2>6. Thresholds(current) = <<scale \div 10, scale, 5 * (scale \div 2), 5 * scale, 10 * scale>>
    <3>1. /\ ~(current < 10) /\ ~(current < 100) /\ ~(current < 1000)
          /\ ~(current < 10000) /\ ~(current < 100000)
      BY <1>6
    <3> QED BY <3>1 DEF Thresholds, S
  <2> HIDE DEF scale
  <2>7. scale \div 10 \in Nat \ {0} /\ scale \div 2 \in Nat \ {0} /\ scale \in Nat \ {0}
    BY <2>5, SMT DEF LargeScales
  <2> QED BY <2>6, <2>7, SMT
<1> QED BY <1>1, <1>2, <1>3, <1>4, <1>5, <1>6, SMT

LEMMA MembersOfSequence ==
    ASSUME NEW S, NEW list \in Seq(S)
    PROVE  ToSet(list) \subseteq S /\ IsFiniteSet(ToSet(list))
<1>1. Len(list) \in Nat /\ DOMAIN list = 1 .. Len(list) /\ \A i \in 1 .. Len(list) : list[i] \in S
  OBVIOUS
<1> QED BY <1>1, MembersOfList DEF ToSet

\* A milestone parts a curve: the points before it are below the threshold, it and
\* those after it are not.
IsMilestoneOf(event, points) ==
    /\ event.size \in Nat \ {0}
    /\ \A p \in ToSet(points) : p.count >= event.size <=> p.day >= event.day

\* An event of a point of the curve.
IsEventAt(event, points) ==
    /\ event.priority \in Int
    /\ event.point \in ToSet(points) /\ event.day = event.point.day

LEMMA LineFacts ==
    ASSUME NEW stars, NEW points, IsLine(points, stars)
    PROVE  /\ Len(points) \in Nat /\ DOMAIN points = 1 .. Len(points)
           /\ ToSet(points) = {points[j] : j \in 1 .. Len(points)}
           /\ \A j \in 1 .. Len(points) : points[j].day \in Nat /\ points[j].count \in Nat
           /\ \A j, k \in 1 .. Len(points) :
                 j < k => points[j].day < points[k].day /\ points[j].count <= points[k].count
<1>1. /\ Len(points) \in Nat /\ DOMAIN points = 1 .. Len(points)
      /\ \A j \in 1 .. Len(points) : points[j] \in Point
  BY DEF IsLine
<1>2. \A p \in Point : p.day \in Nat /\ p.count \in Nat
  BY DEF Point
<1>3. \A j, k \in 1 .. Len(points) :
         j < k => points[j].day < points[k].day /\ points[j].count <= points[k].count
  BY DEF IsLine
<1> QED BY <1>1, <1>2, <1>3 DEF ToSet

\* The first point of a curve with a count, of those after the first of all.
Reached(points, t) == SelectInSubSeq(points, 2, Len(points), LAMBDA p : p.count >= t)

LEMMA FirstReached ==
    ASSUME NEW stars, NEW points, IsLine(points, stars), NEW t \in Nat \ {0},
           Reached(points, t) \in 2 .. Len(points) - 1, First(points).count < t
    PROVE  /\ Reached(points, t) \in 1 .. Len(points)
           /\ \A p \in ToSet(points) : p.count >= t <=> p.day >= points[Reached(points, t)].day
<1> DEFINE n == Len(points)
           I == {j \in 2 .. n : points[j].count >= t}
           i == Reached(points, t)
<1>1. /\ n \in Nat /\ ToSet(points) = {points[j] : j \in 1 .. n}
      /\ \A j \in 1 .. n : points[j].day \in Nat /\ points[j].count \in Nat
      /\ \A j, k \in 1 .. n : j < k => points[j].day < points[k].day /\ points[j].count <= points[k].count
  BY LineFacts
<1>2. i = IF I # {} THEN Min(I) ELSE 0
  BY DEF SelectInSubSeq, Reached
<1>3. I \subseteq 1 .. n /\ I \subseteq Int /\ IsFiniteSet(I)
  <2>1. I \in SUBSET (1 .. n) /\ 1 .. n \subseteq Int
    BY <1>1
  <2>2. IsFiniteSet(1 .. n)
    BY <1>1, FS_Interval
  <2> HIDE DEF I, n
  <2> QED BY <2>1, <2>2, FS_Subset
<1>4. i \in 2 .. n - 1
  OBVIOUS
<1> HIDE DEF i, I
<1>5. I # {} /\ i = Min(I)
  BY <1>2, <1>4
<1>6. i \in I /\ \A j \in I : i <= j
  BY <1>3, <1>5, MinOfFinite
<1>7. points[1].count < t
  BY DEF First
<1> HIDE DEF n
<1>8. ASSUME NEW j \in 1 .. n
      PROVE  points[j].count >= t <=> points[j].day >= points[i].day
  <2>1. i \in 1 .. n /\ points[i].count >= t
    BY <1>1, <1>6 DEF I
  <2>2. j < i => points[j].count < t
    <3> SUFFICES ASSUME j < i PROVE points[j].count < t
      OBVIOUS
    <3>1. CASE j = 1
      BY <1>7, <3>1
    <3>2. CASE j # 1
      <4>1. j \in 2 .. n /\ j \notin I
        BY <1>1, <1>4, <1>6, <3>2
      <4>2. ~(points[j].count >= t)
        BY <4>1 DEF I
      <4>3. points[j].count \in Nat
        BY <1>1
      <4> QED BY <4>2, <4>3
    <3> QED BY <3>1, <3>2
  <2>3. /\ points[i].day \in Nat /\ points[i].count \in Nat
        /\ points[j].day \in Nat /\ points[j].count \in Nat
    BY <1>1, <2>1
  <2>4. /\ i < j => points[i].day < points[j].day /\ points[i].count <= points[j].count
        /\ j < i => points[j].day < points[i].day
    BY <1>1, <2>1
  <2>5. i < j \/ i = j \/ j < i
    BY <1>1, <2>1
  <2> DEFINE count == points[j].count
             day == points[j].day
             reached == points[i].count
             since == points[i].day
  <2>6. /\ count \in Nat /\ day \in Nat /\ reached \in Nat /\ since \in Nat /\ reached >= t
        /\ i < j => since < day /\ reached <= count
        /\ i = j => since = day /\ reached = count
        /\ j < i => day < since /\ count < t
    BY <2>1, <2>2, <2>3, <2>4
  <2> HIDE DEF count, day, reached, since
  <2>7. CASE i < j
    BY <2>6, <2>7 DEF count, day, since
  <2>8. CASE i = j
    BY <2>6, <2>8 DEF count, day, since
  <2>9. CASE j < i
    BY <2>6, <2>9 DEF count, day, since
  <2> QED BY <2>5, <2>7, <2>8, <2>9
<1>9. i \in 1 .. n
  BY <1>1, <1>4
<1> QED BY <1>1, <1>8, <1>9 DEF i, n

\* The milestones of a curve are at its points and part it (render.go 582-600).
THEOREM MilestonesPartTheCurve ==
    ASSUME NEW stars \in Nat, NEW points, IsLine(points, stars), NEW current \in Nat
    PROVE  LET events == MilestoneEvents(points, current)
           IN /\ IsList(events)
              /\ \A event \in ToSet(events) :
                    /\ event.kind = "milestone"
                    /\ IsEventAt(event, points) /\ IsMilestoneOf(event, points)
<1> DEFINE IsMilestone(t) == First(points).count < t /\ Reached(points, t) \in 2 .. Len(points) - 1
           S == {t \in ToSet(Thresholds(current)) : IsMilestone(t)}
           thresholds == InOrder(S)
           n == Cardinality(S)
           Milestone(t) == LET point == points[Reached(points, t)]
                           IN Event("milestone", point.day, point, t, MilestonePriority(t))
           events == [i \in 1 .. n |-> Milestone(thresholds[i])]
<1>1. IsFiniteSet(S) /\ S \subseteq Int /\ \A t \in S : t \in Nat \ {0}
  <2>1. S \in SUBSET ToSet(Thresholds(current))
    OBVIOUS
  <2> HIDE DEF S
  <2>2. /\ ToSet(Thresholds(current)) \subseteq Nat \ {0}
        /\ IsFiniteSet(ToSet(Thresholds(current)))
    BY ThresholdsAreCounts, MembersOfSequence
  <2> QED BY <2>1, <2>2, FS_Subset
<1>2. \A t \in S : IsMilestone(t)
  OBVIOUS
<1>3. MilestoneEvents(points, current) = [i \in DOMAIN thresholds |-> Milestone(thresholds[i])]
  BY DEF MilestoneEvents, Reached
<1> HIDE DEF S
<1>4. n \in Nat /\ DOMAIN thresholds = 1 .. n /\ \A i \in 1 .. n : thresholds[i] \in S
  <2>1. n \in Nat /\ thresholds \in Seq(S) /\ Len(thresholds) = n
    BY <1>1, InOrderLists, FS_CardinalityType DEF Lists
  <2> HIDE DEF n, thresholds
  <2> QED BY <2>1
<1>5. ASSUME NEW t \in S
      PROVE  /\ Milestone(t).kind = "milestone"
             /\ IsEventAt(Milestone(t), points) /\ IsMilestoneOf(Milestone(t), points)
  <2> DEFINE i == Reached(points, t)
  <2>1. i \in 1 .. Len(points) /\ \A p \in ToSet(points) : p.count >= t <=> p.day >= points[i].day
    BY <1>1, <1>2, FirstReached
  <2>2. points[i] \in ToSet(points)
    BY <2>1, LineFacts
  <2>3. t \in Nat \ {0} /\ MilestonePriority(t) \in Int
    BY <1>1 DEF MilestonePriority
  <2> HIDE DEF i
  <2>4. Milestone(t) = Event("milestone", points[i].day, points[i], t, MilestonePriority(t))
    BY DEF i
  <2>5. /\ Milestone(t).kind = "milestone" /\ Milestone(t).size = t
        /\ Milestone(t).point = points[i] /\ Milestone(t).day = points[i].day
        /\ Milestone(t).priority = MilestonePriority(t)
    BY <2>4 DEF Event
  <2> QED BY <2>1, <2>2, <2>3, <2>5 DEF IsEventAt, IsMilestoneOf
<1> HIDE DEF thresholds, n, Milestone
<1>6. MilestoneEvents(points, current) = events
  BY <1>3, <1>4
<1>7. \A i \in 1 .. n : events[i] = Milestone(thresholds[i])
  OBVIOUS
<1>8. events = [i \in 1 .. n |-> events[i]]
  OBVIOUS
<1> HIDE DEF events
<1>9. IsList(events) /\ DOMAIN events = 1 .. n
  BY <1>4, <1>8, ListOfFunction
<1>10. \A event \in ToSet(events) : \E t \in S : event = Milestone(t)
  BY <1>4, <1>7, <1>9 DEF ToSet
<1> QED BY <1>5, <1>6, <1>9, <1>10

-----------------------------------------------------------------------------
(* Bursts *)

\* The points up to a day are those up to an index.
LEMMA PointsUpTo ==
    ASSUME NEW stars, NEW points, IsLine(points, stars), NEW day \in Int
    PROVE  /\ LastBefore(points, day) \in 0 .. Len(points)
           /\ \A j \in 1 .. Len(points) : points[j].day <= day <=> j <= LastBefore(points, day)
<1> DEFINE n == Len(points)
           I == {j \in 1 .. n : points[j].day <= day}
<1>1. /\ n \in Nat /\ DOMAIN points = 1 .. n
      /\ \A j \in 1 .. n : points[j].day \in Nat
      /\ \A j, k \in 1 .. n : j < k => points[j].day < points[k].day
  BY LineFacts
<1>2. LastBefore(points, day) = Cardinality(I)
  BY <1>1 DEF LastBefore
<1> HIDE DEF n
<1>3. CASE I = {}
  <2>1. LastBefore(points, day) = 0
    BY <1>2, <1>3, FS_EmptySet
  <2>2. \A j \in 1 .. n : ~(points[j].day <= day) /\ ~(j <= 0)
    BY <1>3
  <2> QED BY <1>1, <2>1, <2>2 DEF n
<1>4. CASE I # {}
  <2> DEFINE m == Max(I)
  <2>1. I \in SUBSET (1 .. n) /\ 1 .. n \subseteq Int
    BY <1>1
  <2>2. \A j \in 1 .. n : j \in I <=> points[j].day <= day
    OBVIOUS
  <2> HIDE DEF I
  <2>3. IsFiniteSet(I)
    <3>1. IsFiniteSet(1 .. n)
      BY <1>1, FS_Interval
    <3> QED BY <2>1, <3>1, FS_Subset
  <2>4. m \in I /\ \A j \in I : j <= m
    BY <1>4, <2>1, <2>3, MaxOfFinite
  <2> HIDE DEF m
  <2>5. m \in 1 .. n /\ points[m].day <= day
    BY <2>1, <2>2, <2>4
  <2>6. ASSUME NEW j \in 1 .. n PROVE j \in I <=> j <= m
    <3>1. points[j].day \in Nat /\ points[m].day \in Nat /\ (j < m => points[j].day < points[m].day)
      BY <1>1, <2>5
    <3>2. j <= m => points[j].day <= day
      BY <1>1, <2>5, <3>1
    <3> QED BY <2>2, <2>4, <3>2
  <2>7. I = 1 .. m
    <3>1. 1 .. m \subseteq 1 .. n /\ \A j \in 1 .. n : j <= m <=> j \in 1 .. m
      BY <1>1, <2>5
    <3> QED BY <2>1, <2>6, <3>1
  <2>8. Cardinality(I) = m
    <3>1. m \in Int /\ 1 <= m
      BY <1>1, <2>5
    <3>2. Cardinality(1 .. m) = m
      BY <3>1, FS_Interval
    <3> QED BY <2>7, <3>2
  <2> QED BY <1>1, <1>2, <2>2, <2>5, <2>6, <2>8
<1> QED BY <1>3, <1>4 DEF n

Bursts == {"bestDay", "bestWeek", "spike"}

\* The growth of a burst is counted from a point that has no fewer stars than those
\* of a week before.
IsBurstOf(event, points) ==
    \E p \in ToSet(points) :
        /\ event.size = event.point.count - p.count
        /\ \A q \in ToSet(points) : q.day <= event.day - 7 => q.count <= p.count

LEMMA GrowthFrom ==
    ASSUME NEW stars, NEW points, IsLine(points, stars), NEW kind, NEW priority \in Int,
           NEW i \in 1 .. Len(points), NEW w \in 1 .. Len(points),
           \A j \in 1 .. Len(points) : points[j].day <= points[i].day - 7 => j <= w
    PROVE  LET event == Event(kind, points[i].day, points[i],
                              points[i].count - points[w].count, priority)
           IN event.kind = kind /\ IsEventAt(event, points) /\ IsBurstOf(event, points)
<1> DEFINE n == Len(points)
           event == Event(kind, points[i].day, points[i], points[i].count - points[w].count, priority)
<1>1. /\ n \in Nat /\ ToSet(points) = {points[j] : j \in 1 .. n}
      /\ \A j \in 1 .. n : points[j].count \in Nat
      /\ \A j, k \in 1 .. n : j < k => points[j].count <= points[k].count
  BY LineFacts
<1>2. /\ event.kind = kind /\ event.day = points[i].day /\ event.point = points[i]
      /\ event.size = points[i].count - points[w].count /\ event.priority = priority
  BY DEF Event
<1> HIDE DEF event
<1>3. points[i] \in ToSet(points) /\ points[w] \in ToSet(points)
  BY <1>1
<1>4. ASSUME NEW q \in ToSet(points), q.day <= event.day - 7 PROVE q.count <= points[w].count
  <2>1. PICK j \in 1 .. n : q = points[j]
    BY <1>1
  <2>2. points[j].day <= points[i].day - 7
    BY <1>2, <1>4, <2>1
  <2>3. j <= w
    BY <2>1, <2>2
  <2>4. w \in 1 .. n
    OBVIOUS
  <2> HIDE DEF n
  <2>5. j = w \/ j < w
    BY <1>1, <2>1, <2>3, <2>4
  <2>6. points[j].count \in Nat /\ (j < w => points[j].count <= points[w].count)
    BY <1>1, <2>1, <2>4
  <2>7. points[j].count <= points[w].count
    BY <2>5, <2>6
  <2> QED BY <2>1, <2>7
<1> QED BY <1>2, <1>3, <1>4 DEF IsEventAt, IsBurstOf, event

\* The largest growth of a curve, if one is large enough, is a burst at one of its
\* points (render.go 655-700).
THEOREM GrowthIsBurst ==
    ASSUME NEW stars \in Nat, NEW points, IsLine(points, stars), NEW total, NEW coverageStart
    PROVE  LET events == GrowthEvent(points, total, coverageStart)
           IN /\ IsList(events)
              /\ \A event \in ToSet(events) :
                    /\ event.kind \in Bursts
                    /\ IsEventAt(event, points) /\ IsBurstOf(event, points)
<1> DEFINE n == Len(points)
           Daily(i) == points[i].count - points[i - 1].count
           WeekBefore(i) == LastBefore(points, points[i].day - 7)
           MonthBefore(i) == LastBefore(points, points[i].day - 35)
           Weekly(i) == points[i].count - points[WeekBefore(i)].count
           covered == {i \in 2 .. n : points[i - 1].day >= coverageStart}
           days == {i \in covered : Daily(i) >= Larger(3, Percent(total, 1))}
           weeks == {i \in covered :
                        /\ WeekBefore(i) > 0
                        /\ Weekly(i) >= Larger(5, Percent(total, 2))}
           spikes == {i \in covered :
                         /\ MonthBefore(i) > 0
                         /\ Weekly(i) >= Larger(10, Percent(total, 5))
                         /\ 4 * Weekly(i)
                            >= 3 * (points[WeekBefore(i)].count - points[MonthBefore(i)].count)}
           AtPoint(kind, i, growth, priority) ==
               <<Event(kind, points[i].day, points[i], growth, priority)>>
           day == FirstLargest([i \in days |-> Daily(i)])
           week == FirstLargest([i \in weeks |-> Weekly(i)])
           spike == FirstLargest([i \in spikes |-> Weekly(i)])
           events == GrowthEvent(points, total, coverageStart)
           IsBurst(list) ==
               /\ IsList(list)
               /\ \A event \in ToSet(list) :
                     /\ event.kind \in Bursts
                     /\ IsEventAt(event, points) /\ IsBurstOf(event, points)
<1> SUFFICES IsBurst(events)
  BY Zenon
<1>1. \/ spikes # {} /\ events = AtPoint("spike", spike, Weekly(spike), 100)
      \/ weeks # {} /\ events = AtPoint("bestWeek", week, Weekly(week), 72)
      \/ days # {} /\ events = AtPoint("bestDay", day, Daily(day), 68)
      \/ events = << >>
  BY Zenon DEF GrowthEvent
<1>2. /\ n \in Nat
      /\ \A j \in 1 .. n : points[j].day \in Nat /\ points[j].count \in Nat
      /\ \A j, k \in 1 .. n : j < k => points[j].day < points[k].day
  BY LineFacts
<1>3. /\ days \in SUBSET (2 .. n) /\ weeks \in SUBSET (2 .. n) /\ spikes \in SUBSET (2 .. n)
      /\ \A i \in weeks : WeekBefore(i) > 0
      /\ \A i \in spikes : MonthBefore(i) > 0
  OBVIOUS
<1> HIDE DEF events, days, weeks, spikes, n
<1>4. ASSUME NEW S \in SUBSET (2 .. n) PROVE IsFiniteSet(S) /\ S \subseteq Int
  <2>1. 2 .. n \subseteq Int /\ IsFiniteSet(2 .. n)
    BY <1>2, FS_Interval
  <2> QED BY <2>1, FS_Subset
<1>5. ASSUME NEW i \in 2 .. n
      PROVE  /\ i \in 1 .. n /\ i - 1 \in 1 .. n
             /\ WeekBefore(i) \in 0 .. n /\ (MonthBefore(i) > 0 => WeekBefore(i) > 0)
             /\ \A j \in 1 .. n : points[j].day <= points[i].day - 7 => j <= WeekBefore(i)
             /\ \A j \in 1 .. n : points[j].day <= points[i].day - 7 => j <= i - 1
  <2>1. i \in 1 .. n /\ i - 1 \in 1 .. n
    BY <1>2
  <2>2. points[i].day \in Nat /\ points[i].day - 7 \in Int /\ points[i].day - 35 \in Int
    BY <1>2, <2>1
  <2>3. /\ WeekBefore(i) \in 0 .. n
        /\ \A j \in 1 .. n : points[j].day <= points[i].day - 7 <=> j <= WeekBefore(i)
    BY <2>2, PointsUpTo DEF n
  <2>4. /\ MonthBefore(i) \in 0 .. n
        /\ \A j \in 1 .. n : points[j].day <= points[i].day - 35 <=> j <= MonthBefore(i)
    BY <2>2, PointsUpTo DEF n
  <2> HIDE DEF WeekBefore, MonthBefore
  <2>5. MonthBefore(i) > 0 => WeekBefore(i) > 0
    <3> SUFFICES ASSUME MonthBefore(i) > 0 PROVE WeekBefore(i) > 0
      OBVIOUS
    <3>1. 1 \in 1 .. n /\ 1 <= MonthBefore(i)
      BY <1>2, <2>4
    <3>2. points[1].day <= points[i].day - 35 /\ points[1].day \in Nat
      BY <1>2, <2>4, <3>1
    <3>3. points[1].day <= points[i].day - 7
      BY <2>2, <3>2
    <3>4. 1 <= WeekBefore(i)
      BY <2>3, <3>1, <3>3
    <3> QED BY <2>3, <3>4
  <2>6. ASSUME NEW j \in 1 .. n, points[j].day <= points[i].day - 7 PROVE j <= i - 1
    <3>1. points[j].day \in Nat /\ ~(points[i].day < points[j].day) /\ points[i].day # points[j].day
      BY <1>2, <2>1, <2>2, <2>6
    <3>2. ~(i < j) /\ i # j
      BY <1>2, <2>1, <3>1
    <3> QED BY <2>1, <3>2
  <2> QED BY <2>1, <2>3, <2>5, <2>6
<1>6. ASSUME NEW i \in 2 .. n PROVE Daily(i) \in Int
  BY <1>2, <1>5
<1>7. ASSUME NEW i \in 2 .. n, WeekBefore(i) > 0 PROVE WeekBefore(i) \in 1 .. n /\ Weekly(i) \in Int
  <2>1. WeekBefore(i) \in 1 .. n
    BY <1>2, <1>5, <1>7
  <2> HIDE DEF WeekBefore
  <2> QED BY <1>2, <1>5, <2>1
<1>8. ASSUME NEW e, NEW kind \in Bursts, e.kind = kind, IsEventAt(e, points), IsBurstOf(e, points)
      PROVE  IsBurst(<<e>>)
  <2>1. <<e>> = [j \in 1 .. 1 |-> <<e>>[j]] /\ <<e>>[1] = e
    OBVIOUS
  <2>2. IsList(<<e>>) /\ DOMAIN <<e>> = 1 .. 1
    BY <2>1, ListOfFunction
  <2>3. ToSet(<<e>>) = {e}
    BY <2>1, <2>2 DEF ToSet
  <2> QED BY <1>8, <2>2, <2>3
<1>9. ASSUME NEW kind \in Bursts, NEW i \in 1 .. n, NEW w \in 1 .. n,
             \A j \in 1 .. n : points[j].day <= points[i].day - 7 => j <= w,
             NEW growth, growth = points[i].count - points[w].count, NEW priority \in Int
      PROVE  IsBurst(AtPoint(kind, i, growth, priority))
  <2> DEFINE e == Event(kind, points[i].day, points[i], points[i].count - points[w].count, priority)
  <2>1. e.kind = kind /\ IsEventAt(e, points) /\ IsBurstOf(e, points)
    BY <1>9, GrowthFrom DEF n
  <2>2. AtPoint(kind, i, growth, priority) = <<e>>
    BY <1>9
  <2> HIDE DEF e, IsBurst, AtPoint
  <2> QED BY <1>8, <2>1, <2>2
<1>10. CASE spikes # {} /\ events = AtPoint("spike", spike, Weekly(spike), 100)
  <2> DEFINE value == [i \in spikes |-> Weekly(i)]
  <2>1. Values(value, spikes)
    <3>1. \A i \in spikes : Weekly(i) \in Int
      BY <1>3, <1>5, <1>7
    <3> HIDE DEF Weekly
    <3> QED BY <3>1 DEF Values
  <2>2. spike \in spikes
    <3> HIDE DEF value, Weekly
    <3>1. IsFiniteSet(spikes) /\ spikes \subseteq Int /\ spikes # {}
      BY <1>3, <1>4, <1>10, Zenon
    <3>2. FirstLargest(value) \in spikes
      BY <2>1, <3>1, LargestExists, Zenon
    <3> QED BY <3>2, Zenon DEF value
  <2> HIDE DEF spike, value
  <2>3. /\ spike \in 1 .. n /\ WeekBefore(spike) \in 1 .. n
        /\ \A j \in 1 .. n : points[j].day <= points[spike].day - 7 => j <= WeekBefore(spike)
    BY <1>3, <1>5, <1>7, <2>2
  <2>4. IsBurst(AtPoint("spike", spike, Weekly(spike), 100))
    <3> HIDE DEF IsBurst, AtPoint, WeekBefore
    <3> QED BY <1>9, <2>3 DEF Bursts
  <2> QED BY <1>10, <2>4
<1>11. CASE weeks # {} /\ events = AtPoint("bestWeek", week, Weekly(week), 72)
  <2> DEFINE value == [i \in weeks |-> Weekly(i)]
  <2>1. Values(value, weeks)
    <3>1. \A i \in weeks : Weekly(i) \in Int
      BY <1>3, <1>5, <1>7
    <3> HIDE DEF Weekly
    <3> QED BY <3>1 DEF Values
  <2>2. week \in weeks
    <3> HIDE DEF value, Weekly
    <3>1. IsFiniteSet(weeks) /\ weeks \subseteq Int /\ weeks # {}
      BY <1>3, <1>4, <1>11, Zenon
    <3>2. FirstLargest(value) \in weeks
      BY <2>1, <3>1, LargestExists, Zenon
    <3> QED BY <3>2, Zenon DEF value
  <2> HIDE DEF week, value
  <2>3. /\ week \in 1 .. n /\ WeekBefore(week) \in 1 .. n
        /\ \A j \in 1 .. n : points[j].day <= points[week].day - 7 => j <= WeekBefore(week)
    BY <1>3, <1>5, <1>7, <2>2
  <2>4. IsBurst(AtPoint("bestWeek", week, Weekly(week), 72))
    <3> HIDE DEF IsBurst, AtPoint, WeekBefore
    <3> QED BY <1>9, <2>3 DEF Bursts
  <2> QED BY <1>11, <2>4
<1>12. CASE days # {} /\ events = AtPoint("bestDay", day, Daily(day), 68)
  <2> DEFINE value == [i \in days |-> Daily(i)]
  <2>1. Values(value, days)
    <3>1. \A i \in days : Daily(i) \in Int
      BY <1>3, <1>6
    <3> HIDE DEF Daily
    <3> QED BY <3>1 DEF Values
  <2>2. day \in days
    <3> HIDE DEF value, Daily
    <3>1. IsFiniteSet(days) /\ days \subseteq Int /\ days # {}
      BY <1>3, <1>4, <1>12, Zenon
    <3>2. FirstLargest(value) \in days
      BY <2>1, <3>1, LargestExists, Zenon
    <3> QED BY <3>2, Zenon DEF value
  <2> HIDE DEF day, value
  <2>3. /\ day \in 1 .. n /\ day - 1 \in 1 .. n
        /\ \A j \in 1 .. n : points[j].day <= points[day].day - 7 => j <= day - 1
    BY <1>3, <1>5, <2>2
  <2>4. IsBurst(AtPoint("bestDay", day, Daily(day), 68))
    <3> HIDE DEF IsBurst, AtPoint
    <3> QED BY <1>9, <2>3 DEF Bursts
  <2> QED BY <1>12, <2>4
<1>13. CASE events = << >>
  <2>1. << >> = [j \in 1 .. 0 |-> << >>[j]]
    OBVIOUS
  <2>2. IsList(<< >>) /\ DOMAIN << >> = 1 .. 0
    BY <2>1, ListOfFunction
  <2> QED BY <1>13, <2>2 DEF ToSet
<1> QED BY <1>1, <1>10, <1>11, <1>12, <1>13, Zenon

-----------------------------------------------------------------------------
(* The journey of a curve *)

\* What holds of the events of a curve: all but the creation are at its points,
\* milestones part it, and the growth of bursts is measured on it.
IsEventOf(event, points) ==
    /\ event.day \in Int /\ event.priority \in Int
    /\ event.kind # "created" => event.point \in ToSet(points) /\ event.day = event.point.day
    /\ event.kind = "milestone" => IsMilestoneOf(event, points)
    /\ event.kind \in Bursts => IsBurstOf(event, points)

AreEventsOf(events, points) == IsList(events) /\ \A event \in ToSet(events) : IsEventOf(event, points)

LEMMA EventAtIsEvent ==
    ASSUME NEW stars, NEW points, IsLine(points, stars), NEW event, IsEventAt(event, points),
           event.kind = "milestone" => IsMilestoneOf(event, points),
           event.kind \in Bursts => IsBurstOf(event, points)
    PROVE  IsEventOf(event, points)
<1>1. event.day \in Int
  BY LineFacts DEF IsEventAt
<1> QED BY <1>1 DEF IsEventAt, IsEventOf

LEMMA NoEvents ==
    ASSUME NEW points
    PROVE  AreEventsOf(<< >>, points)
<1>1. << >> = [j \in 1 .. 0 |-> << >>[j]]
  OBVIOUS
<1>2. IsList(<< >>) /\ DOMAIN << >> = 1 .. 0
  BY <1>1, ListOfFunction
<1>3. ToSet(<< >>) = {}
  BY <1>2 DEF ToSet
<1> QED BY <1>2, <1>3 DEF AreEventsOf

LEMMA OneEvent ==
    ASSUME NEW points, NEW event, IsEventOf(event, points)
    PROVE  AreEventsOf(<<event>>, points) /\ ToSet(<<event>>) = {event}
<1>1. <<event>> = [j \in 1 .. 1 |-> <<event>>[j]] /\ <<event>>[1] = event
  OBVIOUS
<1>2. IsList(<<event>>) /\ DOMAIN <<event>> = 1 .. 1
  BY <1>1, ListOfFunction
<1>3. ToSet(<<event>>) = {event}
  BY <1>1, <1>2 DEF ToSet
<1> QED BY <1>2, <1>3 DEF AreEventsOf

LEMMA EventsJoin ==
    ASSUME NEW points, NEW a, NEW b, AreEventsOf(a, points), AreEventsOf(b, points)
    PROVE  AreEventsOf(a \o b, points) /\ ToSet(a \o b) = ToSet(a) \cup ToSet(b)
<1>1. IsList(a) /\ IsList(b)
  BY DEF AreEventsOf
<1>2. IsList(a \o b) /\ ToSet(a \o b) = ToSet(a) \cup ToSet(b)
  BY <1>1, ListsJoin
<1> QED BY <1>2 DEF AreEventsOf

\* A journey that is ranked and cut is of the same events.
LEMMA RankedAreEvents ==
    ASSUME NEW points, NEW events, AreEventsOf(events, points), ToSet(events) # {}, NEW n \in Nat
    PROVE  LET journey == AtMost(RankJourney(events), n)
           IN /\ IsList(journey) /\ Len(journey) <= n
              /\ ToSet(journey) \subseteq ToSet(events)
<1>1. IsList(events) /\ DOMAIN events = 1 .. Len(events) /\ Len(events) \in Nat
  BY ListDomain DEF AreEventsOf
<1>2. Len(events) > 0
  <2>1. DOMAIN events # {}
    BY DEF ToSet
  <2>2. 1 .. Len(events) # {}
    BY <1>1, <2>1
  <2> QED BY <1>1, <2>2
<1>3. Dated(events)
  BY DEF Dated, AreEventsOf, IsEventOf, ToSet
<1>4. IsList(RankJourney(events)) /\ ToSet(RankJourney(events)) \subseteq ToSet(events)
  BY <1>1, <1>2, <1>3, JourneyIsOfEvents
<1> QED BY <1>4, FirstEvents

\* The events that are ranked are the curve's; those of the chart are also at its
\* points, and there are at most four of them (render.go 567-620).
THEOREM JourneyIsOfTheCurve ==
    ASSUME NEW stars \in Nat, NEW points, IsLine(points, stars), Len(points) > 0,
           NEW created \in Nat \cup {None}, NEW coverageStart
    PROVE  LET journey == BuildJourney(points, created, stars, coverageStart)
           IN /\ IsList(journey.ranked) /\ Len(journey.ranked) <= 7
              /\ \A event \in ToSet(journey.ranked) : IsEventOf(event, points)
              /\ IsList(journey.chart) /\ Len(journey.chart) <= 4
              /\ \A event \in ToSet(journey.chart) :
                    IsEventOf(event, points) /\ event.kind # "created"
<1> DEFINE n == Len(points)
           latest == Latest(points)
           recorded == SelectInSubSeq(points, 1, n - 1, LAMBDA p : p.count > 0)
           creation == Event("created", created, None, 0, 900)
           first == Event("firstRecorded", points[recorded].day, points[recorded], 0, 76)
           last == Event("current", latest.day, latest, 0, 1000)
           a == IF created # None /\ created <= latest.day THEN <<creation>> ELSE << >>
           b == IF stars > 0 /\ recorded > 0 THEN <<first>> ELSE << >>
           c == MilestoneEvents(points, stars)
           d == GrowthEvent(points, stars, coverageStart)
           events == a \o b \o c \o d \o <<last>>
           OnChart(event) ==
               \/ event.kind \in {"current", "milestone", "spike"}
               \/ stars < 10 /\ event.kind = "firstRecorded"
           marked == {i \in DOMAIN events : OnChart(events[i])}
           candidates == AtPlaces(events, marked)
           journey == BuildJourney(points, created, stars, coverageStart)
<1>1. journey = [ranked |-> AtMost(RankJourney(events), 7),
                 chart |-> AtMost(RankJourney(candidates), 4)]
  BY DEF BuildJourney
<1>2. n \in Nat /\ n >= 1 /\ ToSet(points) = {points[i] : i \in 1 .. n}
  BY LineFacts
<1> HIDE DEF journey
<1>3. AreEventsOf(a, points)
  <2>1. CASE created # None /\ created <= latest.day
    <3>1. creation.kind = "created" /\ creation.day = created /\ creation.priority = 900
      BY DEF Event
    <3> HIDE DEF creation
    <3>2. IsEventOf(creation, points)
      BY <2>1, <3>1 DEF IsEventOf, Bursts
    <3> QED BY <2>1, <3>2, OneEvent
  <2>2. CASE ~(created # None /\ created <= latest.day)
    <3> HIDE DEF latest
    <3> QED BY <2>2, NoEvents
  <2> QED BY <2>1, <2>2
<1>4. AreEventsOf(b, points)
  <2>1. CASE stars > 0 /\ recorded > 0
    <3> DEFINE I == {i \in 1 .. n - 1 : points[i].count > 0}
    <3>1. recorded = IF I # {} THEN Min(I) ELSE 0
      BY DEF SelectInSubSeq
    <3>2. I \in SUBSET (1 .. n - 1) /\ 1 .. n - 1 \subseteq Int
      OBVIOUS
    <3>3. IsFiniteSet(1 .. n - 1)
      BY <1>2, FS_Interval
    <3> HIDE DEF I, recorded
    <3>4. IsFiniteSet(I)
      BY <3>2, <3>3, FS_Subset
    <3>5. recorded \in I
      <4>1. I # {} /\ recorded = Min(I)
        BY <2>1, <3>1
      <4>2. I \subseteq Int
        BY <3>2
      <4> QED BY <3>4, <4>1, <4>2, MinOfFinite
    <3>6. points[recorded] \in ToSet(points)
      BY <1>2, <3>2, <3>5
    <3>7. first.kind = "firstRecorded" /\ first.priority = 76 /\ first.day = points[recorded].day
          /\ first.point = points[recorded]
      BY DEF Event
    <3> HIDE DEF first
    <3>8. IsEventOf(first, points)
      BY <3>6, <3>7, EventAtIsEvent DEF IsEventAt, Bursts
    <3> QED BY <2>1, <3>8, OneEvent
  <2>2. CASE ~(stars > 0 /\ recorded > 0)
    <3> HIDE DEF recorded
    <3> QED BY <2>2, NoEvents
  <2> QED BY <2>1, <2>2
<1>5. AreEventsOf(c, points)
  BY MilestonesPartTheCurve, EventAtIsEvent DEF AreEventsOf, Bursts
<1>6. AreEventsOf(d, points)
  BY GrowthIsBurst, EventAtIsEvent DEF AreEventsOf, Bursts
<1>7. AreEventsOf(<<last>>, points) /\ ToSet(<<last>>) = {last} /\ last.kind = "current"
  <2>1. latest \in ToSet(points)
    BY <1>2 DEF Latest
  <2>2. last.kind = "current" /\ last.priority = 1000 /\ last.day = latest.day /\ last.point = latest
    BY DEF Event
  <2> HIDE DEF last, latest
  <2>3. IsEventOf(last, points)
    BY <2>1, <2>2, EventAtIsEvent DEF IsEventAt, Bursts
  <2>4. AreEventsOf(<<last>>, points) /\ ToSet(<<last>>) = {last}
    BY <2>3, OneEvent
  <2> QED BY <2>2, <2>4
<1>8. AreEventsOf(events, points) /\ last \in ToSet(events)
  <2> HIDE DEF a, b, c, d, last
  <2>1. AreEventsOf(a \o b, points)
    BY <1>3, <1>4, EventsJoin
  <2>2. AreEventsOf(a \o b \o c, points)
    BY <1>5, <2>1, EventsJoin
  <2>3. AreEventsOf(a \o b \o c \o d, points)
    BY <1>6, <2>2, EventsJoin
  <2> DEFINE e == a \o b \o c \o d
  <2>4. AreEventsOf(e, points)
    BY <2>3
  <2> HIDE DEF e
  <2>5. AreEventsOf(e \o <<last>>, points) /\ ToSet(e \o <<last>>) = ToSet(e) \cup ToSet(<<last>>)
    BY <1>7, <2>4, EventsJoin
  <2>6. last \in ToSet(e \o <<last>>)
    BY <1>7, <2>5
  <2> QED BY <2>5, <2>6 DEF e
<1> HIDE DEF events, last
<1>9. /\ IsList(candidates) /\ ToSet(candidates) = {events[i] : i \in marked}
  BY <1>8, ListAtPlaces DEF AreEventsOf
<1>10. /\ ToSet(candidates) \subseteq ToSet(events)
       /\ \A event \in ToSet(candidates) : event.kind # "created"
       /\ last \in ToSet(candidates)
  BY <1>7, <1>8, <1>9 DEF ToSet
<1> HIDE DEF candidates
<1>11. AreEventsOf(candidates, points)
  BY <1>8, <1>9, <1>10 DEF AreEventsOf
<1>12. /\ IsList(journey.ranked) /\ Len(journey.ranked) <= 7
       /\ ToSet(journey.ranked) \subseteq ToSet(events)
  BY <1>1, <1>8, RankedAreEvents
<1>13. /\ IsList(journey.chart) /\ Len(journey.chart) <= 4
       /\ ToSet(journey.chart) \subseteq ToSet(candidates)
  BY <1>1, <1>10, <1>11, RankedAreEvents
<1> QED BY <1>8, <1>10, <1>11, <1>12, <1>13 DEF AreEventsOf, journey

-----------------------------------------------------------------------------
(* The card *)

LEMMA AnchorsAreFew ==
    ASSUME NEW events, IsList(events), NEW n \in Nat, Len(events) <= n
    PROVE  IsFiniteSet(Anchors(events)) /\ Cardinality(Anchors(events)) <= n
<1> DEFINE m == Len(events)
           f == [i \in 1 .. m |-> events[i].point]
<1>1. m \in Nat /\ DOMAIN events = 1 .. m
  BY ListDomain
<1>2. DOMAIN f = 1 .. m /\ \A i \in 1 .. m : f[i] = events[i].point
  OBVIOUS
<1> HIDE DEF f, m
<1>3. IsFiniteSet(ToSet(f)) /\ Cardinality(ToSet(f)) <= m
  BY <1>1, <1>2, MembersOfList
<1>4. Anchors(events) \in SUBSET ToSet(f)
  BY <1>1, <1>2 DEF Anchors, ToSet
<1>5. /\ IsFiniteSet(Anchors(events)) /\ Cardinality(Anchors(events)) \in Nat
      /\ Cardinality(ToSet(f)) \in Nat /\ Cardinality(Anchors(events)) <= Cardinality(ToSet(f))
  BY <1>3, <1>4, FS_Subset, FS_CardinalityType
<1>6. m <= n
  BY DEF m
<1> QED BY <1>1, <1>3, <1>5, <1>6

\* The line of a card is drawn through few enough points of its curve, with the first
\* and the last, in order; each event of the chart is at one of them, and a milestone
\* parts those below its threshold from the others (render.go 567-620, 784-878).
THEOREM CardIsOfTheCurve ==
    ASSUME NEW stars \in Nat, NEW points, IsLine(points, stars), Len(points) > 0,
           NEW created \in Nat \cup {None}, NEW generated
    PROVE  LET card == Render(points, created, stars, generated)
           IN /\ IsDrawnOf(card.drawn, AddingCreationBaseline(points, created))
              /\ Len(card.drawn) <= MaximumDrawn
              /\ \A event \in ToSet(card.journey.chart) :
                    /\ event.point \in ToSet(card.drawn)
                    /\ event.kind = "milestone" => IsMilestoneOf(event, card.drawn)
<1> DEFINE journey == BuildJourney(points, created, stars, First(points).day)
           chart == journey.chart
           plotted == AddingCreationBaseline(points, created)
           drawn == RenderedPointsWithAnchors(plotted, chart)
<1>1. /\ Render(points, created, stars, generated).journey.chart = chart
      /\ Render(points, created, stars, generated).drawn = drawn
  BY DEF Render
<1>2. /\ IsList(chart) /\ Len(chart) <= 4
      /\ \A event \in ToSet(chart) : IsEventOf(event, points) /\ event.kind # "created"
  BY JourneyIsOfTheCurve
<1> HIDE DEF chart
<1>3. /\ IsLine(plotted, stars) /\ Len(plotted) > 0
      /\ ToSet(points) \subseteq ToSet(plotted)
      /\ \A p \in ToSet(plotted) :
            p \in ToSet(points) \/ (p.count = 0 /\ p.day < First(points).day)
  BY BaselineIsLine
<1> HIDE DEF plotted
<1>4. IsFiniteSet(Anchors(chart)) /\ Cardinality(Anchors(chart)) <= 4
  BY <1>2, AnchorsAreFew
<1>5. \A event \in ToSet(chart) :
         event.point \in ToSet(points) /\ event.day = event.point.day /\ event.point # None
  <2>1. \A p \in ToSet(points) : p \in Point
    BY PointsOfLine
  <2> QED BY <1>2, <2>1, CardAssumption DEF IsEventOf
<1>6. /\ Anchors(chart) = {event.point : event \in ToSet(chart)}
      /\ Anchors(chart) \subseteq ToSet(plotted)
  BY <1>3, <1>5 DEF Anchors
<1>7. /\ IsDrawnOf(drawn, plotted) /\ Len(drawn) <= MaximumDrawn
      /\ Anchors(chart) \subseteq ToSet(drawn)
  BY <1>3, <1>4, <1>6, LineIsSampled
<1> HIDE DEF drawn
<1>8. ASSUME NEW event \in ToSet(chart), event.kind = "milestone"
      PROVE  IsMilestoneOf(event, drawn)
  <2>1. IsMilestoneOf(event, points)
    BY <1>2, <1>8 DEF IsEventOf
  <2>2. ASSUME NEW p \in ToSet(drawn) PROVE p.count >= event.size <=> p.day >= event.day
    <3>1. p \in ToSet(plotted)
      BY <1>7 DEF IsDrawnOf
    <3>2. CASE p \in ToSet(points)
      BY <2>1, <3>2 DEF IsMilestoneOf
    <3>3. CASE p.count = 0 /\ p.day < First(points).day
      <4>1. /\ First(points).day <= event.day /\ event.day \in Nat
            /\ First(points).day \in Nat /\ p.day \in Nat
        <5>1. /\ First(points).day <= event.point.day /\ event.point.day \in Nat
              /\ First(points) \in ToSet(points)
          BY <1>5, PointsOfLine
        <5>2. First(points).day \in Nat
          BY <5>1, PointsOfLine
        <5>3. p.day \in Nat
          BY <1>3, <3>1, PointsOfLine
        <5> QED BY <1>5, <5>1, <5>2, <5>3
      <4>2. event.size \in Nat \ {0}
        BY <2>1 DEF IsMilestoneOf
      <4> QED BY <3>3, <4>1, <4>2
    <3> QED BY <1>3, <3>1, <3>2, <3>3
  <2> QED BY <2>1, <2>2 DEF IsMilestoneOf
<1>9. \A event \in ToSet(chart) : event.point \in ToSet(drawn)
  BY <1>6, <1>7
<1> QED BY <1>1, <1>7, <1>8, <1>9 DEF plotted

\* The growth that the metrics show is that of the curve in their period, and no burst
\* that begins in the period is larger (render.go 500-537, 655-700).
THEOREM MetricsCoverBursts ==
    ASSUME NEW stars \in Nat, NEW points, IsLine(points, stars), Len(points) > 0,
           NEW created \in Nat \cup {None}, NEW coverageStart, NEW generated,
           BuildMetrics(points, created, coverageStart, generated).growth # None
    PROVE  LET metrics == BuildMetrics(points, created, coverageStart, generated)
           IN /\ metrics.growth \in 0 .. Latest(points).count
              /\ \A event :
                    (/\ IsEventOf(event, points) /\ event.kind \in Bursts
                     /\ event.day - 7 >= Latest(points).day - metrics.days)
                    => event.size <= metrics.growth
<1> DEFINE n == Len(points)
           latest == Latest(points)
           cutoff == latest.day - 90
           recent == created # None /\ created >= cutoff /\ created < latest.day
           start == IF recent THEN created ELSE cutoff
           baseline == LastBefore(points, cutoff)
           before == IF recent THEN 0 ELSE points[baseline].count
           growth == latest.count - before
           metrics == BuildMetrics(points, created, coverageStart, generated)
<1>1. /\ metrics.days = latest.day - start
      /\ metrics.growth = growth
      /\ recent \/ baseline > 0
  BY DEF BuildMetrics
<1>2. /\ n \in Nat /\ ToSet(points) = {points[j] : j \in 1 .. n}
      /\ \A j \in 1 .. n : points[j].day \in Nat /\ points[j].count \in Nat
  BY LineFacts
<1>3. latest \in ToSet(points) /\ latest.day \in Nat /\ latest.count \in Nat
  <2>1. n \in 1 .. n
    BY <1>2
  <2> QED BY <1>2, <2>1 DEF Latest
<1>4. \A p \in ToSet(points) : p.count \in Nat /\ p.count <= latest.count
  <2>1. ASSUME NEW p \in ToSet(points) PROVE p.count \in Nat /\ p.count <= latest.count
    <3>1. /\ p.day \in Nat /\ p.count \in Nat /\ p.day <= latest.day
          /\ p.day = latest.day => p = latest
          /\ p.day < latest.day => p.count <= latest.count
      BY <1>3, PointsOfLine DEF latest
    <3> HIDE DEF latest
    <3> QED BY <1>3, <3>1
  <2> QED BY <2>1
<1>5. /\ baseline \in 0 .. n
      /\ \A j \in 1 .. n : points[j].day <= cutoff <=> j <= baseline
  <2>1. cutoff \in Int
    BY <1>3
  <2> HIDE DEF cutoff
  <2> QED BY <2>1, PointsUpTo
<1> HIDE DEF metrics, latest, baseline, n
<1>6. ASSUME ~recent
      PROVE  points[baseline] \in ToSet(points) /\ points[baseline].day <= cutoff
  <2>1. baseline \in 1 .. n
    BY <1>1, <1>2, <1>5, <1>6
  <2> QED BY <1>2, <1>5, <2>1
<1>7. metrics.growth \in 0 .. latest.count
  <2>1. CASE recent
    BY <1>1, <1>3, <2>1
  <2>2. CASE ~recent
    <3>1. points[baseline].count \in Nat /\ points[baseline].count <= latest.count
      BY <1>4, <1>6, <2>2
    <3>2. metrics.growth = latest.count - points[baseline].count
      BY <1>1, <2>2
    <3> QED BY <1>3, <3>1, <3>2
  <2> QED BY <2>1, <2>2
<1>8. ASSUME NEW event, IsEventOf(event, points), event.kind \in Bursts,
             event.day - 7 >= latest.day - metrics.days
      PROVE  event.size <= metrics.growth
  <2>1. /\ event.point \in ToSet(points) /\ event.day = event.point.day /\ event.day \in Int
        /\ IsBurstOf(event, points)
    BY <1>8 DEF Bursts, IsEventOf
  <2>2. PICK p \in ToSet(points) :
           /\ event.size = event.point.count - p.count
           /\ \A q \in ToSet(points) : q.day <= event.day - 7 => q.count <= p.count
    BY <2>1 DEF IsBurstOf
  <2>3. /\ p.count \in Nat /\ event.point.count \in Nat /\ event.point.count <= latest.count
    BY <1>4, <2>1
  <2>4. CASE recent
    <3>1. metrics.growth = latest.count
      BY <1>1, <1>3, <2>4
    <3> QED BY <1>3, <2>2, <2>3, <3>1
  <2>5. CASE ~recent
    <3> DEFINE q == points[baseline]
    <3>1. q \in ToSet(points) /\ q.day <= cutoff /\ q.count \in Nat /\ q.day \in Nat
      BY <1>2, <1>4, <1>6, <2>5
    <3>2. metrics.days = latest.day - cutoff /\ metrics.growth = latest.count - q.count
      BY <1>1, <2>5
    <3> HIDE DEF q
    <3>3. cutoff \in Int
      BY <1>3
    <3>4. q.day <= event.day - 7
      <4> DEFINE a == event.day
                 c == latest.day
                 days == metrics.days
                 e == q.day
      <4>1. /\ a \in Int /\ c \in Nat /\ e \in Nat /\ days = c - cutoff
            /\ a - 7 >= c - days /\ e <= cutoff
        BY <1>3, <1>8, <2>1, <3>1, <3>2
      <4> HIDE DEF a, c, days, e, cutoff
      <4>2. cutoff \in Int
        BY <3>3
      <4>3. e <= a - 7
        BY <4>1, <4>2
      <4> QED BY <4>3 DEF a, e
    <3>5. q.count <= p.count
      BY <2>2, <3>1, <3>4
    <3> DEFINE a == event.point.count
               b == p.count
               c == latest.count
               e == q.count
    <3>6. /\ a \in Nat /\ b \in Nat /\ c \in Nat /\ e \in Nat /\ a <= c /\ e <= b
          /\ event.size = a - b /\ metrics.growth = c - e
      BY <1>3, <2>2, <2>3, <3>1, <3>2, <3>5
    <3> HIDE DEF a, b, c, e
    <3>7. a - b <= c - e
      BY <3>6
    <3> QED BY <3>6, <3>7
  <2> QED BY <2>4, <2>5
<1> QED BY <1>7, <1>8 DEF metrics, latest
=============================================================================
