-------------------------- MODULE StarSeries_proofs --------------------------
(***************************************************************************)
(* Theorems about the calculations on a series: the list of its days, the  *)
(* codec of the archive's rows, the sum of two series, the weeks of the    *)
(* official history, the curve and the selection of its points.            *)
(*                                                                         *)
(* The folds of the library are recursive functions on the subsets of a    *)
(* finite set.  For each fold used here a function with its recursion is   *)
(* shown to exist, by induction, and what the fold returns follows from    *)
(* that recursion.                                                         *)
(***************************************************************************)
EXTENDS StarSeries, FiniteSetTheorems, FunctionTheorems, TLAPS

-----------------------------------------------------------------------------
(* Induction *)

\* Induction over the naturals, for a set: a finite initial part of the set's
\* complement would be mapped into itself by the successor, without reaching 0.
LEMMA Induction ==
    ASSUME NEW S, 0 \in S, \A n \in Nat : n \in S => n + 1 \in S
    PROVE  Nat \subseteq S
<1> SUFFICES ASSUME NEW m \in Nat, m \notin S PROVE FALSE
  OBVIOUS
<1> DEFINE T == {n \in 0 .. m : n \in S}
           f == [n \in T |-> n + 1]
<1>1. IsFiniteSet(T)
  <2>1. IsFiniteSet(0 .. m)
    BY FS_Interval
  <2> QED BY <2>1, FS_Subset
<1>2. f \in [T -> T]
  BY SMT
<1>3. f \in Injection(T, T)
  BY <1>2 DEF Injection, IsInjective
<1>4. f \in Surjection(T, T)
  <2> HIDE DEF T, f
  <2> QED BY <1>1, <1>3, FS_Injection
<1>5. 0 \in T
  OBVIOUS
<1>6. PICK n \in T : f[n] = 0
  BY <1>4, <1>5 DEF Surjection
<1> QED BY <1>6

\* Induction over the subsets of a finite set, one element at a time.
LEMMA SubsetInduction ==
    ASSUME NEW S, IsFiniteSet(S), NEW F, {} \in F,
           \A s \in SUBSET S : s # {} /\ (\A x \in s : s \ {x} \in F) => s \in F
    PROVE  SUBSET S \subseteq F
<1> DEFINE Done == {n \in Nat : \A s \in SUBSET S : Cardinality(s) = n => s \in F}
<1>1. \A s \in SUBSET S : IsFiniteSet(s) /\ Cardinality(s) \in Nat
  BY FS_Subset, FS_CardinalityType
<1>2. 0 \in Done
  BY <1>1, FS_EmptySet
<1>3. ASSUME NEW n \in Nat, n \in Done PROVE n + 1 \in Done
  <2> SUFFICES ASSUME NEW s \in SUBSET S, Cardinality(s) = n + 1 PROVE s \in F
    OBVIOUS
  <2>1. s # {}
    <3>1. Cardinality({}) = 0 /\ n + 1 # 0
      BY FS_EmptySet
    <3> QED BY <3>1
  <2>2. ASSUME NEW x \in s PROVE s \ {x} \in F
    <3>1. Cardinality(s \ {x}) = n
      BY <1>1, FS_RemoveElement
    <3> QED BY <1>3, <3>1
  <2> QED BY <2>1, <2>2
<1>4. Nat \subseteq Done
  <2> HIDE DEF Done
  <2> QED BY <1>2, <1>3, Induction
<1> QED BY <1>1, <1>4

\* A finite set of integers has a largest member.
LEMMA MaxOfFinite ==
    ASSUME NEW S, IsFiniteSet(S), S \subseteq Int, S # {}
    PROVE  Max(S) \in S /\ \A y \in S : y <= Max(S)
<1> DEFINE F == {s \in SUBSET S : s # {} => \E m \in s : \A y \in s : m >= y}
<1>1. {} \in F
  OBVIOUS
<1>2. ASSUME NEW s \in SUBSET S, s # {}, \A x \in s : s \ {x} \in F PROVE s \in F
  <2> PICK x \in s : s \ {x} \in F
    BY <1>2
  <2>1. CASE s \ {x} = {}
    <3>1. \A y \in s : x >= y
      BY <2>1
    <3> QED BY <3>1
  <2>2. CASE s \ {x} # {}
    <3>1. PICK m \in s \ {x} : \A y \in s \ {x} : m >= y
      BY <2>2
    <3>2. CASE x >= m
      <4>1. \A y \in s : x >= y
        BY <3>1, <3>2
      <4> QED BY <4>1
    <3>3. CASE ~(x >= m)
      <4>1. \A y \in s : m >= y
        BY <3>1, <3>3
      <4> QED BY <4>1
    <3> QED BY <3>2, <3>3
  <2> QED BY <2>1, <2>2
<1>3. SUBSET S \subseteq F
  <2> HIDE DEF F
  <2> QED BY <1>1, <1>2, SubsetInduction
<1>4. \E m \in S : \A y \in S : m >= y
  BY <1>3
<1>5. Max(S) \in S /\ \A y \in S : Max(S) >= y
  BY <1>4 DEF Max
<1> QED BY <1>5

-----------------------------------------------------------------------------
(* Days in order *)

\* The sequence has the members of the set, each once, in increasing order.
Lists(q, S) ==
    /\ q \in Seq(S)
    /\ Len(q) = Cardinality(S)
    /\ \A x \in S : \E i \in 1 .. Len(q) : q[i] = x
    /\ \A i, j \in 1 .. Len(q) : i < j => q[i] < q[j]

LEMMA ListsWithMax ==
    ASSUME NEW S, IsFiniteSet(S), S \subseteq Int, NEW m \in S, \A y \in S : y <= m,
           NEW q, Lists(q, S \ {m})
    PROVE  Lists(Append(q, m), S)
<1> DEFINE r == Append(q, m)
<1>1. Cardinality(S) \in Nat /\ Cardinality(S \ {m}) = Cardinality(S) - 1
  BY FS_CardinalityType, FS_RemoveElement
<1>2. /\ q \in Seq(S \ {m})
      /\ Len(q) = Cardinality(S) - 1
      /\ \A x \in S \ {m} : \E i \in 1 .. Len(q) : q[i] = x
      /\ \A i, j \in 1 .. Len(q) : i < j => q[i] < q[j]
  BY <1>1 DEF Lists
<1>3. Len(q) \in Nat /\ \A i \in 1 .. Len(q) : q[i] \in S \ {m}
  BY <1>2
<1>4. q \in Seq(S)
  BY <1>2
<1>5. /\ r \in Seq(S)
      /\ Len(r) = Len(q) + 1
      /\ \A i \in 1 .. Len(q) : r[i] = q[i]
      /\ r[Len(q) + 1] = m
  BY <1>3, <1>4
<1> HIDE DEF r
<1>6. \A x \in S : \E i \in 1 .. Len(r) : r[i] = x
  <2> SUFFICES ASSUME NEW x \in S PROVE \E i \in 1 .. Len(r) : r[i] = x
    OBVIOUS
  <2>1. CASE x = m
    BY <1>3, <1>5, <2>1
  <2>2. CASE x # m
    <3>1. PICK i \in 1 .. Len(q) : q[i] = x
      BY <1>2, <2>2
    <3> QED BY <1>3, <1>5, <3>1
  <2> QED BY <2>1, <2>2
<1>7. ASSUME NEW i \in 1 .. Len(r), NEW j \in 1 .. Len(r), i < j PROVE r[i] < r[j]
  <2>1. i \in 1 .. Len(q) /\ r[i] = q[i] /\ q[i] \in S /\ q[i] # m
    BY <1>3, <1>5, <1>7
  <2>2. CASE j \in 1 .. Len(q)
    BY <1>2, <1>5, <1>7, <2>1, <2>2
  <2>3. CASE j = Len(q) + 1
    <3>1. q[i] \in Int /\ m \in Int /\ q[i] <= m /\ q[i] # m
      BY <2>1
    <3>2. q[i] < m
      BY <3>1
    <3> QED BY <1>5, <2>1, <2>3, <3>2
  <2>4. Len(r) = Len(q) + 1 /\ Len(q) \in Nat
    BY <1>3, <1>5
  <2>5. j \in 1 .. Len(q) \/ j = Len(q) + 1
    BY <2>4
  <2> QED BY <2>2, <2>3, <2>5
<1>8. Len(r) = Cardinality(S)
  BY <1>1, <1>2, <1>5
<1>9. Lists(r, S)
  BY <1>5, <1>6, <1>7, <1>8 DEF Lists
<1> QED BY <1>9 DEF r

\* The recursion of the fold that lists a set.
IsListing(g, S) ==
    g = [s \in SUBSET S |->
            IF s = {} THEN << >> ELSE Append(g[s \ {Max(s)}], Max(s))]

LEMMA ListingExists ==
    ASSUME NEW S, IsFiniteSet(S), S \subseteq Int
    PROVE  \E g : IsListing(g, S)
<1> DEFINE F == {s \in SUBSET S : \E g : IsListing(g, s)}
<1>1. {} \in F
  <2> DEFINE g == [s \in SUBSET {} |-> << >>]
  <2>1. IsListing(g, {})
    BY DEF IsListing
  <2> QED BY <2>1
<1>2. ASSUME NEW s \in SUBSET S, s # {}, \A x \in s : s \ {x} \in F PROVE s \in F
  <2> DEFINE m == Max(s)
  <2>1. m \in s /\ \A y \in s : y <= m
    BY <1>2, FS_Subset, MaxOfFinite
  <2>2. PICK g : IsListing(g, s \ {m})
    BY <1>2, <2>1
  <2> DEFINE h == [t \in SUBSET s |-> IF m \in t THEN Append(g[t \ {m}], m) ELSE g[t]]
  <2>3. ASSUME NEW t \in SUBSET s, t # {} PROVE h[t] = Append(h[t \ {Max(t)}], Max(t))
    <3>1. Max(t) \in t /\ \A y \in t : y <= Max(t)
      BY <2>3, FS_Subset, MaxOfFinite
    <3>2. CASE m \in t
      <4>1. Max(t) \in Int /\ m \in Int /\ Max(t) <= m /\ m <= Max(t)
        BY <2>1, <3>1, <3>2
      <4>2. Max(t) = m
        BY <4>1
      <4>3. h[t] = Append(g[t \ {m}], m) /\ h[t \ {m}] = g[t \ {m}]
        BY <3>2
      <4> QED BY <4>2, <4>3
    <3>3. CASE m \notin t
      <4>1. g[t] = Append(g[t \ {Max(t)}], Max(t))
        BY <2>2, <2>3, <3>3 DEF IsListing
      <4>2. h[t] = g[t] /\ h[t \ {Max(t)}] = g[t \ {Max(t)}]
        BY <3>3
      <4> QED BY <4>1, <4>2
    <3> QED BY <3>2, <3>3
  <2>4. h[{}] = << >>
    BY <2>2 DEF IsListing
  <2>5. h = [t \in SUBSET s |-> h[t]]
    OBVIOUS
  <2> HIDE DEF h
  <2>6. IsListing(h, s)
    BY <2>3, <2>4, <2>5 DEF IsListing
  <2> QED BY <2>6
<1>3. SUBSET S \subseteq F
  <2> HIDE DEF F
  <2> QED BY <1>1, <1>2, SubsetInduction
<1> QED BY <1>3

\* The days of a series are listed in order, each once.
THEOREM InOrderLists ==
    ASSUME NEW S, IsFiniteSet(S), S \subseteq Int
    PROVE  Lists(InOrder(S), S)
<1>1. PICK g : IsListing(g, S)
  BY ListingExists
<1> DEFINE iter == CHOOSE f : IsListing(f, S)
           F == {s \in SUBSET S : Lists(iter[s], s)}
<1>2. InOrder(S) = iter[S]
  BY DEF InOrder, MapThenFoldSet, IsListing
<1>3. IsListing(iter, S)
  BY <1>1
<1> HIDE DEF iter
<1>4. {} \in F
  <2>1. iter[{}] = << >>
    BY <1>3 DEF IsListing
  <2>2. Cardinality({}) = 0
    BY FS_EmptySet
  <2>3. Lists(<< >>, {})
    BY <2>2 DEF Lists
  <2> QED BY <2>1, <2>3
<1>5. ASSUME NEW s \in SUBSET S, s # {}, \A x \in s : s \ {x} \in F PROVE s \in F
  <2>1. IsFiniteSet(s) /\ s \subseteq Int
    BY FS_Subset
  <2>2. Max(s) \in s /\ \A y \in s : y <= Max(s)
    BY <1>5, <2>1, MaxOfFinite
  <2>3. iter[s] = Append(iter[s \ {Max(s)}], Max(s))
    BY <1>3, <1>5 DEF IsListing
  <2>4. Lists(iter[s \ {Max(s)}], s \ {Max(s)})
    BY <1>5, <2>2
  <2>5. Lists(iter[s], s)
    BY <2>1, <2>2, <2>3, <2>4, ListsWithMax
  <2> QED BY <2>5
<1>6. SUBSET S \subseteq F
  <2> HIDE DEF F
  <2> QED BY <1>4, <1>5, SubsetInduction
<1> QED BY <1>2, <1>6

-----------------------------------------------------------------------------
(* The codec of the archive's rows *)

LEMMA ListFacts ==
    ASSUME NEW series, IsSeries(series)
    PROVE  LET days == InOrder(DOMAIN series)
               n == Cardinality(DOMAIN series)
           IN /\ n \in Nat
              /\ days \in [1 .. n -> DOMAIN series]
              /\ Len(days) = n
              /\ \A i \in 1 .. n : days[i] \in Int
              /\ \A x \in DOMAIN series : \E i \in 1 .. n : days[i] = x
              /\ \A i, j \in 1 .. n : i < j => days[i] < days[j]
<1>1. Lists(InOrder(DOMAIN series), DOMAIN series)
  BY InOrderLists DEF IsSeries
<1>2. Cardinality(DOMAIN series) \in Nat
  BY FS_CardinalityType DEF IsSeries
<1>3. DOMAIN series \subseteq Int
  BY DEF IsSeries
<1> QED BY <1>1, <1>2, <1>3 DEF Lists

\* What a row's payload holds: for each day, in order, the distance from the day
\* before and the count.
LEMMA EncodeShape ==
    ASSUME NEW series, IsSeries(series)
    PROVE  LET days == InOrder(DOMAIN series)
               n == Cardinality(DOMAIN series)
               payload == Encode(series)
           IN /\ Len(payload) = 2 * n
              /\ \A k \in 1 .. n :
                    /\ payload[2 * k - 1] = IF k = 1 THEN days[1] ELSE days[k] - days[k - 1]
                    /\ payload[2 * k] = series[days[k]]
<1> DEFINE days == InOrder(DOMAIN series)
           n == Cardinality(DOMAIN series)
           Since(k) == IF k = 1 THEN days[1] ELSE days[k] - days[k - 1]
           payload == [i \in 1 .. 2 * n |->
                          IF i % 2 = 1 THEN Since((i + 1) \div 2) ELSE series[days[i \div 2]]]
<1>1. n \in Nat /\ Len(days) = n
  BY ListFacts
<1>2. Encode(series) = payload
  BY <1>1 DEF Encode
<1>3. Len(payload) = 2 * n
  BY <1>1
<1>4. ASSUME NEW k \in 1 .. n
      PROVE payload[2 * k - 1] = Since(k) /\ payload[2 * k] = series[days[k]]
  <2>1. /\ 2 * k - 1 \in 1 .. 2 * n /\ (2 * k - 1) % 2 = 1 /\ ((2 * k - 1) + 1) \div 2 = k
        /\ 2 * k \in 1 .. 2 * n /\ (2 * k) % 2 = 0 /\ (2 * k) \div 2 = k
    BY <1>1
  <2> HIDE DEF days, n, Since
  <2> QED BY <2>1
<1> QED BY <1>2, <1>3, <1>4

\* The recursion of the fold that reads a payload.
IsReading(g, payload, S) ==
    g = [s \in SUBSET S |->
            IF s = {} THEN [day |-> 0, series |-> << >>]
            ELSE LET k == Max(s)
                     sofar == g[s \ {k}]
                     day == sofar.day + payload[2 * k - 1]
                 IN [day |-> day, series |-> Counting(sofar.series, day, payload[2 * k])]]

LEMMA ReadingExists ==
    ASSUME NEW payload, NEW S, IsFiniteSet(S), S \subseteq Int
    PROVE  \E g : IsReading(g, payload, S)
<1> DEFINE Read(sofar, k) ==
               LET day == sofar.day + payload[2 * k - 1]
               IN [day |-> day, series |-> Counting(sofar.series, day, payload[2 * k])]
           F == {s \in SUBSET S : \E g : IsReading(g, payload, s)}
<1>1. {} \in F
  <2> DEFINE g == [s \in SUBSET {} |-> [day |-> 0, series |-> << >>]]
  <2>1. IsReading(g, payload, {})
    BY DEF IsReading
  <2> QED BY <2>1
<1>2. ASSUME NEW s \in SUBSET S, s # {}, \A x \in s : s \ {x} \in F PROVE s \in F
  <2> DEFINE m == Max(s)
  <2>1. m \in s /\ \A y \in s : y <= m
    BY <1>2, FS_Subset, MaxOfFinite
  <2>2. PICK g : IsReading(g, payload, s \ {m})
    BY <1>2, <2>1
  <2> DEFINE h == [t \in SUBSET s |-> IF m \in t THEN Read(g[t \ {m}], m) ELSE g[t]]
  <2>3. ASSUME NEW t \in SUBSET s, t # {} PROVE h[t] = Read(h[t \ {Max(t)}], Max(t))
    <3>1. Max(t) \in t /\ \A y \in t : y <= Max(t)
      BY <2>3, FS_Subset, MaxOfFinite
    <3>2. CASE m \in t
      <4>1. Max(t) \in Int /\ m \in Int /\ Max(t) <= m /\ m <= Max(t)
        BY <2>1, <3>1, <3>2
      <4>2. Max(t) = m
        BY <4>1
      <4>3. h[t] = Read(g[t \ {m}], m) /\ h[t \ {m}] = g[t \ {m}]
        BY <3>2
      <4> HIDE DEF h, Read
      <4> QED BY <4>2, <4>3
    <3>3. CASE m \notin t
      <4>1. g[t] = Read(g[t \ {Max(t)}], Max(t))
        BY <2>2, <2>3, <3>3 DEF IsReading
      <4>2. h[t] = g[t] /\ h[t \ {Max(t)}] = g[t \ {Max(t)}]
        BY <3>3
      <4> HIDE DEF h, Read
      <4> QED BY <4>1, <4>2
    <3> QED BY <3>2, <3>3
  <2>4. h[{}] = [day |-> 0, series |-> << >>]
    BY <2>2 DEF IsReading
  <2>5. h = [t \in SUBSET s |-> h[t]]
    OBVIOUS
  <2> HIDE DEF h
  <2>6. IsReading(h, payload, s)
    BY <2>3, <2>4, <2>5 DEF IsReading
  <2> QED BY <2>6
<1>3. SUBSET S \subseteq F
  <2> HIDE DEF F
  <2> QED BY <1>1, <1>2, SubsetInduction
<1> QED BY <1>3

LEMMA MaxOfPrefix ==
    ASSUME NEW k \in Nat
    PROVE  Max(1 .. k + 1) = k + 1 /\ (1 .. k + 1) \ {k + 1} = 1 .. k
<1>1. IsFiniteSet(1 .. k + 1)
  BY FS_Interval
<1>2. k + 1 \in 1 .. k + 1
  OBVIOUS
<1>3. \A x \in 1 .. k + 1 : x \in Int /\ x <= k + 1
  OBVIOUS
<1> DEFINE T == 1 .. k + 1
<1> HIDE DEF T
<1>4. IsFiniteSet(T) /\ T # {} /\ T \subseteq Int
  BY <1>1, <1>2, <1>3 DEF T
<1>5. Max(T) \in T /\ \A y \in T : y <= Max(T)
  BY <1>4, MaxOfFinite
<1>6. Max(T) = k + 1
  <2>1. Max(T) \in Int /\ Max(T) <= k + 1 /\ k + 1 <= Max(T)
    BY <1>2, <1>3, <1>5 DEF T
  <2> QED BY <2>1
<1>7. (1 .. k + 1) \ {k + 1} = 1 .. k
  OBVIOUS
<1> QED BY <1>6, <1>7 DEF T

\* Reading what was written: after k pairs, the day is the k-th and the series
\* has the counts of the first k days.
LEMMA ReadingFollowsDays ==
    ASSUME NEW series, IsSeries(series), NEW g,
           IsReading(g, Encode(series), 1 .. Cardinality(DOMAIN series)),
           NEW k \in 0 .. Cardinality(DOMAIN series)
    PROVE  LET days == InOrder(DOMAIN series)
           IN /\ g[1 .. k].day = IF k = 0 THEN 0 ELSE days[k]
              /\ g[1 .. k].series = [d \in {days[i] : i \in 1 .. k} |-> series[d]]
<1> DEFINE days == InOrder(DOMAIN series)
           n == Cardinality(DOMAIN series)
           payload == Encode(series)
           Follows(j) ==
               /\ g[1 .. j].day = IF j = 0 THEN 0 ELSE days[j]
               /\ g[1 .. j].series = [d \in {days[i] : i \in 1 .. j} |-> series[d]]
           S == {j \in Nat : j <= n => Follows(j)}
<1>1. /\ n \in Nat
      /\ days \in [1 .. n -> DOMAIN series]
      /\ \A i \in 1 .. n : days[i] \in Int
      /\ \A j \in 1 .. n :
            /\ payload[2 * j - 1] = IF j = 1 THEN days[1] ELSE days[j] - days[j - 1]
            /\ payload[2 * j] = series[days[j]]
  BY ListFacts, EncodeShape DEF IsSeries
<1>2. 0 \in S
  <2>1. 1 .. 0 = {} /\ {} \in SUBSET (1 .. n)
    OBVIOUS
  <2>2. g[1 .. 0] = [day |-> 0, series |-> << >>]
    BY <2>1 DEF IsReading
  <2>3. << >> = [d \in {days[i] : i \in 1 .. 0} |-> series[d]]
    OBVIOUS
  <2>4. Follows(0)
    BY <2>2, <2>3
  <2> HIDE DEF Follows
  <2> QED BY <2>4
<1>3. ASSUME NEW j \in Nat, j \in S PROVE j + 1 \in S
  <2> SUFFICES ASSUME j + 1 <= n PROVE Follows(j + 1)
    OBVIOUS
  <2>1. j <= n /\ j + 1 \in 1 .. n
    BY <1>1
  <2>2. Follows(j)
    BY <1>3, <2>1
  <2>3. 1 .. j + 1 \in SUBSET (1 .. n) /\ 1 .. j + 1 # {}
    <3>1. n \in Nat /\ j + 1 <= n
      BY <1>1
    <3>2. j + 1 \in 1 .. j + 1
      OBVIOUS
    <3> HIDE DEF n
    <3>3. \A i \in 1 .. j + 1 : i \in 1 .. n
      BY <3>1
    <3> QED BY <3>2, <3>3
  <2>4. Max(1 .. j + 1) = j + 1 /\ (1 .. j + 1) \ {j + 1} = 1 .. j
    BY MaxOfPrefix
  <2> DEFINE sofar == g[1 .. j]
             day == sofar.day + payload[2 * (j + 1) - 1]
  <2>5. g[1 .. j + 1] =
            [day |-> day, series |-> Counting(sofar.series, day, payload[2 * (j + 1)])]
    <3> DEFINE T == 1 .. j + 1
               N == 1 .. n
    <3>1. T \in SUBSET N /\ T # {} /\ Max(T) = j + 1 /\ T \ {Max(T)} = 1 .. j
      BY <2>3, <2>4
    <3>2. IsReading(g, payload, N)
      OBVIOUS
    <3> HIDE DEF T, N, payload, n
    <3>3. g[T] = LET b == g[T \ {Max(T)}]
                     c == b.day + payload[2 * Max(T) - 1]
                 IN [day |-> c, series |-> Counting(b.series, c, payload[2 * Max(T)])]
      BY <3>1, <3>2 DEF IsReading
    <3> QED BY <3>1, <3>3 DEF T
  <2>6. day = days[j + 1]
    <3>1. days[j + 1] \in Int
      BY <1>1, <2>1
    <3>2. CASE j = 0
      BY <1>1, <2>1, <2>2, <3>1, <3>2
    <3>3. CASE j # 0
      <4>1. j \in 1 .. n /\ j + 1 # 1 /\ (j + 1) - 1 = j
        BY <2>1, <3>3
      <4>2. days[j] \in Int
        BY <1>1, <4>1
      <4>3. payload[2 * (j + 1) - 1] = days[j + 1] - days[j]
        BY <1>1, <2>1, <4>1
      <4>4. sofar.day = days[j]
        BY <2>2, <3>3
      <4> HIDE DEF days, sofar, payload
      <4> QED BY <3>1, <4>2, <4>3, <4>4
    <3> QED BY <3>2, <3>3
  <2>7. payload[2 * (j + 1)] = series[days[j + 1]]
    BY <1>1, <2>1
  <2> DEFINE D == {days[i] : i \in 1 .. j}
             E == {days[i] : i \in 1 .. j + 1}
  <2>8. E = D \cup {days[j + 1]}
    <3>1. 1 .. j + 1 = (1 .. j) \cup {j + 1}
      BY <2>1
    <3> HIDE DEF days
    <3> QED BY <3>1
  <2>9. sofar.series = [d \in D |-> series[d]]
    BY <2>2
  <2>10. g[1 .. j + 1].day = days[j + 1]
    BY <2>5, <2>6
  <2>11. g[1 .. j + 1].series = Counting(sofar.series, days[j + 1], series[days[j + 1]])
    BY <2>5, <2>6, <2>7
  <2>12. Counting(sofar.series, days[j + 1], series[days[j + 1]]) = [d \in E |-> series[d]]
    <3> HIDE DEF D, E, sofar, days
    <3> QED BY <2>8, <2>9 DEF Counting
  <2>13. j + 1 # 0
    OBVIOUS
  <2> QED BY <2>10, <2>11, <2>12, <2>13
<1>4. Nat \subseteq S
  <2> HIDE DEF S, days, n, payload
  <2>1. \A j \in Nat : j \in S => j + 1 \in S
    BY <1>3
  <2> QED BY <1>2, <2>1, Induction
<1>5. k \in Nat /\ k <= n
  BY <1>1
<1>6. Follows(k)
  BY <1>4, <1>5
<1> QED BY <1>6

\* A row of the archive is read back as the series that was written, whatever its
\* days and counts are (codec.go 33-149).
THEOREM RowsAreReadBack ==
    ASSUME NEW series, IsSeries(series)
    PROVE  Decode(Encode(series), Cardinality(DOMAIN series)) = series
<1> DEFINE days == InOrder(DOMAIN series)
           n == Cardinality(DOMAIN series)
           payload == Encode(series)
           pairs == [k \in 1 .. n |-> k]
           Read(sofar, k) ==
               LET day == sofar.day + payload[2 * k - 1]
               IN [day |-> day, series |-> Counting(sofar.series, day, payload[2 * k])]
           start == [day |-> 0, series |-> << >>]
           IsIter(g) == g = [s \in SUBSET DOMAIN pairs |->
                                IF s = {} THEN start
                                ELSE Read(g[s \ {Max(s)}], pairs[Max(s)])]
           iter == CHOOSE g : IsIter(g)
<1>1. /\ n \in Nat
      /\ days \in [1 .. n -> DOMAIN series]
      /\ series \in [DOMAIN series -> Nat \ {0}]
      /\ \A i \in 1 .. n : days[i] \in Int
      /\ Len(payload) = 2 * n
      /\ \A x \in DOMAIN series : \E i \in 1 .. n : days[i] = x
      /\ \A i, j \in 1 .. n : i < j => days[i] < days[j]
      /\ \A j \in 1 .. n :
            /\ payload[2 * j - 1] = IF j = 1 THEN days[1] ELSE days[j] - days[j - 1]
            /\ payload[2 * j] = series[days[j]]
  BY ListFacts, EncodeShape DEF IsSeries
<1>2. Len(payload) \div 2 = n
  <2> HIDE DEF payload, n
  <2> QED BY <1>1
<1>3. IsReading(iter, payload, 1 .. n)
  <2>1. n \in Int
    BY <1>1
  <2>2. DOMAIN pairs = 1 .. n /\ \A k \in 1 .. n : pairs[k] = k
    OBVIOUS
  <2> HIDE DEF payload, n, pairs
  <2>3. IsFiniteSet(1 .. n) /\ 1 .. n \subseteq Int
    BY <2>1, FS_Interval
  <2>4. \A s \in SUBSET (1 .. n) : s # {} => Max(s) \in s
    BY <2>3, FS_Subset, MaxOfFinite
  <2>5. \A s \in SUBSET (1 .. n) : s # {} => pairs[Max(s)] = Max(s)
    BY <2>2, <2>4
  <2>6. ASSUME NEW g PROVE IsReading(g, payload, 1 .. n) <=> IsIter(g)
    <3> DEFINE A == [s \in SUBSET (1 .. n) |->
                        IF s = {} THEN start ELSE Read(g[s \ {Max(s)}], Max(s))]
               B == [s \in SUBSET (1 .. n) |->
                        IF s = {} THEN start ELSE Read(g[s \ {Max(s)}], pairs[Max(s)])]
    <3>1. A = B
      <4> HIDE DEF Read, start
      <4> QED BY <2>5
    <3>2. IsReading(g, payload, 1 .. n) <=> (g = A)
      BY DEF IsReading
    <3>3. IsIter(g) <=> (g = B)
      BY <2>2
    <3> QED BY <3>1, <3>2, <3>3
  <2>7. PICK g : IsReading(g, payload, 1 .. n)
    BY <2>3, ReadingExists
  <2> HIDE DEF IsIter
  <2>8. IsIter(iter)
    BY <2>6, <2>7
  <2> QED BY <2>6, <2>8
<1>4. \A k \in 1 .. n : payload[2 * k] # 0 /\ (k = 1 \/ payload[2 * k - 1] # 0)
  <2> SUFFICES ASSUME NEW k \in 1 .. n
               PROVE payload[2 * k] # 0 /\ (k = 1 \/ payload[2 * k - 1] # 0)
    OBVIOUS
  <2>1. payload[2 * k] # 0
    <3>1. payload[2 * k] = series[days[k]] /\ days[k] \in DOMAIN series
      BY <1>1
    <3>2. \A x \in DOMAIN series : series[x] \in Nat \ {0}
      BY <1>1
    <3> HIDE DEF payload, days
    <3> QED BY <3>1, <3>2
  <2>2. ASSUME k # 1 PROVE payload[2 * k - 1] # 0
    <3>1. k - 1 \in 1 .. n /\ k - 1 < k
      <4>1. n \in Nat /\ k \in 1 .. n /\ k # 1
        BY <1>1, <2>2
      <4> HIDE DEF n
      <4> QED BY <4>1
    <3>2. days[k - 1] < days[k] /\ days[k - 1] \in Int /\ days[k] \in Int
      BY <1>1, <3>1
    <3>3. payload[2 * k - 1] = days[k] - days[k - 1]
      BY <1>1, <2>2
    <3> HIDE DEF payload, days
    <3> QED BY <3>2, <3>3
  <2> QED BY <2>1, <2>2
<1>5. Decode(payload, n) = iter[1 .. n].series
  <2>1. DOMAIN pairs = 1 .. n /\ Len(payload) = 2 * n
        /\ pairs = [k \in 1 .. Len(payload) \div 2 |-> k]
    BY <1>1, <1>2
  <2>2. FoldLeft(Read, start, pairs) = iter[DOMAIN pairs]
    <3> HIDE DEF payload, n, pairs
    <3> QED BY DEF FoldLeft, MapThenFoldSet
  <2> HIDE DEF payload, n, iter, pairs
  <2>3. Decode(payload, n) = FoldLeft(Read, start, pairs).series
    BY <1>4, <2>1 DEF Decode
  <2> QED BY <2>1, <2>2, <2>3
<1>6. iter[1 .. n].series = [d \in {days[i] : i \in 1 .. n} |-> series[d]]
  <2>1. n \in 0 .. n
    BY <1>1
  <2> HIDE DEF iter
  <2> QED BY <1>3, <2>1, ReadingFollowsDays
<1>7. {days[i] : i \in 1 .. n} = DOMAIN series
  <2>1. \A i \in 1 .. n : days[i] \in DOMAIN series
    BY <1>1
  <2>2. \A x \in DOMAIN series : \E i \in 1 .. n : days[i] = x
    BY <1>1
  <2> HIDE DEF days, n
  <2> QED BY <2>1, <2>2
<1>8. series = [d \in DOMAIN series |-> series[d]]
  BY <1>1
<1> QED BY <1>5, <1>6, <1>7, <1>8, Zenon

-----------------------------------------------------------------------------
(* The sum of two series *)

LEMMA CountsOfPair ==
    ASSUME NEW f, NEW g, IsSeries(f), IsSeries(g), NEW day
    PROVE  /\ CountOn(f, day) \in Nat /\ CountOn(g, day) \in Nat
           /\ MapThenSumSet(LAMBDA i : CountOn(<<f, g>>[i], day), 1 .. Len(<<f, g>>))
                 = CountOn(f, day) + CountOn(g, day)
<1> DEFINE Op(i) == CountOn(<<f, g>>[i], day)
           a == CountOn(f, day)
           b == CountOn(g, day)
           Some(s) == CHOOSE x \in s : TRUE
           IsIter(h) == h = [s \in SUBSET (1 .. 2) |->
                                IF s = {} THEN 0 ELSE Op(Some(s)) + h[s \ {Some(s)}]]
           iter == CHOOSE h : IsIter(h)
<1>1. a \in Nat /\ b \in Nat
  BY DEF CountOn, IsSeries
<1>2. Op(1) = a /\ Op(2) = b
  OBVIOUS
<1>3. \A s \in SUBSET (1 .. 2) : s # {} => Some(s) \in s
  OBVIOUS
<1>4. Len(<<f, g>>) = 2
  OBVIOUS
<1>5. MapThenSumSet(Op, 1 .. 2) = iter[1 .. 2]
  <2> HIDE DEF Op
  <2> QED BY DEF MapThenSumSet, MapThenFoldSet
<1> HIDE DEF Op, a, b, Some
<1>6. IsIter(iter)
  <2> DEFINE h == [s \in SUBSET (1 .. 2) |->
                      (IF 1 \in s THEN a ELSE 0) + (IF 2 \in s THEN b ELSE 0)]
  <2>1. ASSUME NEW s \in SUBSET (1 .. 2), s # {}
        PROVE h[s] = Op(Some(s)) + h[s \ {Some(s)}]
    <3>1. Some(s) \in s /\ s \ {Some(s)} \in SUBSET (1 .. 2)
      BY <1>3, <2>1
    <3>2. CASE Some(s) = 1
      BY <1>1, <1>2, <3>1, <3>2
    <3>3. CASE Some(s) = 2
      BY <1>1, <1>2, <3>1, <3>3
    <3>4. Some(s) = 1 \/ Some(s) = 2
      <4>1. Some(s) \in 1 .. 2
        BY <3>1
      <4> QED BY <4>1
    <3> HIDE DEF h
    <3> QED BY <3>2, <3>3, <3>4
  <2>2. h[{}] = 0
    OBVIOUS
  <2>3. h = [s \in SUBSET (1 .. 2) |-> h[s]]
    OBVIOUS
  <2> HIDE DEF h
  <2>4. IsIter(h)
    BY <2>1, <2>2, <2>3
  <2> HIDE DEF IsIter
  <2> QED BY <2>4
<1>7. \A s \in SUBSET (1 .. 2) :
         iter[s] = IF s = {} THEN 0 ELSE Op(Some(s)) + iter[s \ {Some(s)}]
  <2> HIDE DEF iter
  <2> QED BY <1>6
<1> HIDE DEF iter
<1>8. iter[{}] = 0
  BY <1>7
<1>9. iter[{1}] = a /\ iter[{2}] = b
  <2>1. {1} \in SUBSET (1 .. 2) /\ {2} \in SUBSET (1 .. 2)
    OBVIOUS
  <2>2. Some({1}) = 1 /\ Some({2}) = 2
    BY <1>3, <2>1
  <2>3. iter[{1}] = Op(1) + iter[{1} \ {1}] /\ iter[{2}] = Op(2) + iter[{2} \ {2}]
    BY <1>7, <2>1, <2>2
  <2>4. {1} \ {1} = {} /\ {2} \ {2} = {}
    OBVIOUS
  <2> QED BY <1>1, <1>2, <1>8, <2>3, <2>4
<1>10. iter[1 .. 2] = a + b
  <2>1. 1 .. 2 = {1, 2} /\ {1, 2} \ {1} = {2} /\ {1, 2} \ {2} = {1}
    OBVIOUS
  <2>2. Some(1 .. 2) = 1 \/ Some(1 .. 2) = 2
    BY <1>3, <2>1
  <2>3. iter[1 .. 2] = Op(Some(1 .. 2)) + iter[(1 .. 2) \ {Some(1 .. 2)}]
    BY <1>7
  <2> QED BY <1>1, <1>2, <1>9, <2>1, <2>2, <2>3
<1> QED BY <1>1, <1>4, <1>5, <1>10 DEF Op, a, b

\* The series with the counts of two.
SumOf(f, g) == [day \in DOMAIN f \cup DOMAIN g |-> CountOn(f, day) + CountOn(g, day)]

\* Merging adds the counts of each day, or fails (codec.go 33-57).
THEOREM MergeAdds ==
    ASSUME NEW f, NEW g, IsSeries(f), IsSeries(g)
    PROVE  Merge(<<f, g>>) \in {Corrupt, SumOf(f, g)} /\ IsSeries(SumOf(f, g))
<1> DEFINE days == DOMAIN f \cup DOMAIN g
           sum == [day \in days |-> CountOn(f, day) + CountOn(g, day)]
           Count(day) == MapThenSumSet(LAMBDA i : CountOn(<<f, g>>[i], day), 1 .. Len(<<f, g>>))
<1>1. UNION {DOMAIN <<f, g>>[i] : i \in 1 .. Len(<<f, g>>)} = days
  <2>1. 1 .. Len(<<f, g>>) = {1, 2} /\ <<f, g>>[1] = f /\ <<f, g>>[2] = g
    OBVIOUS
  <2> QED BY <2>1
<1>2. \A day : Count(day) = CountOn(f, day) + CountOn(g, day)
  BY CountsOfPair
<1>3. Merge(<<f, g>>) = IF \E day \in days : Count(day) >= Words THEN Corrupt
                        ELSE [day \in days |-> Count(day)]
  <2> HIDE DEF days, Count
  <2> QED BY <1>1 DEF Merge, Count
<1>4. [day \in days |-> Count(day)] = sum
  <2> HIDE DEF Count
  <2> QED BY <1>2
<1>5. IsSeries(sum)
  <2>1. IsFiniteSet(days) /\ days \subseteq Nat
    BY FS_Union DEF IsSeries
  <2>2. ASSUME NEW day \in days PROVE CountOn(f, day) + CountOn(g, day) \in Nat \ {0}
    BY DEF CountOn, IsSeries
  <2>3. DOMAIN sum = days
    OBVIOUS
  <2> HIDE DEF days
  <2> QED BY <2>1, <2>2, <2>3 DEF IsSeries
<1> HIDE DEF sum, Count
<1>6. Merge(<<f, g>>) \in {Corrupt, sum}
  BY <1>3, <1>4
<1> QED BY <1>5, <1>6 DEF sum, SumOf

-----------------------------------------------------------------------------
(* Totals *)

LEMMA ModAndDiv ==
    ASSUME NEW a \in Int, NEW b \in Nat \ {0}
    PROVE  /\ a % b \in 0 .. b - 1
           /\ a \div b \in Int
           /\ a >= 0 => a \div b \in Nat
OBVIOUS

\* The recursion of the library's sum, on some sets.
IsSumming(g, f, D) ==
    g = [s \in D |-> IF s = {} THEN 0
                     ELSE f[CHOOSE x \in s : TRUE] + g[s \ {CHOOSE x \in s : TRUE}]]

LEMMA SummingExists ==
    ASSUME NEW f, NEW S, IsFiniteSet(S)
    PROVE  \E g : IsSumming(g, f, SUBSET S)
<1> DEFINE Some(s) == CHOOSE x \in s : TRUE
           UpTo(n) == {s \in SUBSET S : Cardinality(s) <= n}
           F == {n \in Nat : \E g : IsSumming(g, f, UpTo(n))}
<1>1. \A s \in SUBSET S : IsFiniteSet(s) /\ Cardinality(s) \in Nat
  BY FS_Subset, FS_CardinalityType
<1>2. \A s \in SUBSET S : s # {} =>
         /\ Some(s) \in s
         /\ s \ {Some(s)} \in SUBSET S
         /\ Cardinality(s \ {Some(s)}) = Cardinality(s) - 1
  <2> SUFFICES ASSUME NEW s \in SUBSET S, s # {}
               PROVE  /\ Some(s) \in s
                      /\ s \ {Some(s)} \in SUBSET S
                      /\ Cardinality(s \ {Some(s)}) = Cardinality(s) - 1
    OBVIOUS
  <2>1. Some(s) \in s
    OBVIOUS
  <2> HIDE DEF Some
  <2> QED BY <1>1, <2>1, FS_RemoveElement
<1>3. 0 \in F
  <2> DEFINE g == [s \in UpTo(0) |-> 0]
  <2>1. \A s \in UpTo(0) : s = {}
    BY <1>1, FS_EmptySet
  <2>2. IsSumming(g, f, UpTo(0))
    BY <2>1 DEF IsSumming
  <2> QED BY <2>2
<1>4. ASSUME NEW n \in Nat, n \in F PROVE n + 1 \in F
  <2>1. PICK g : IsSumming(g, f, UpTo(n))
    BY <1>4
  <2> DEFINE h == [s \in UpTo(n + 1) |-> IF s = {} THEN 0 ELSE f[Some(s)] + g[s \ {Some(s)}]]
  <2>2. \A s \in UpTo(n) : h[s] = g[s]
    <3>1. \A s \in UpTo(n) : s \in UpTo(n + 1)
      BY <1>1
    <3> HIDE DEF UpTo
    <3> QED BY <2>1, <3>1 DEF IsSumming
  <2>3. \A s \in UpTo(n + 1) : s # {} => s \ {Some(s)} \in UpTo(n)
    <3> HIDE DEF Some
    <3> QED BY <1>1, <1>2
  <2>4. \A s \in UpTo(n + 1) : s # {} => g[s \ {Some(s)}] = h[s \ {Some(s)}]
    BY <2>2, <2>3
  <2>5. h = [s \in UpTo(n + 1) |-> IF s = {} THEN 0 ELSE f[Some(s)] + h[s \ {Some(s)}]]
    <3> DEFINE A == [s \in UpTo(n + 1) |-> IF s = {} THEN 0 ELSE f[Some(s)] + g[s \ {Some(s)}]]
               B == [s \in UpTo(n + 1) |-> IF s = {} THEN 0 ELSE f[Some(s)] + h[s \ {Some(s)}]]
    <3>1. A = B
      <4> HIDE DEF h, Some, UpTo
      <4> QED BY <2>4
    <3>2. h = A
      OBVIOUS
    <3> HIDE DEF h, A
    <3> QED BY <3>1, <3>2
  <2>6. IsSumming(h, f, UpTo(n + 1))
    <3> HIDE DEF h
    <3> QED BY <2>5 DEF IsSumming
  <2> HIDE DEF h, UpTo
  <2> QED BY <2>6
<1>5. Nat \subseteq F
  <2> HIDE DEF F
  <2> QED BY <1>3, <1>4, Induction
<1>6. UpTo(Cardinality(S)) = SUBSET S /\ Cardinality(S) \in Nat
  BY FS_Subset, FS_CardinalityType
<1>7. PICK g : IsSumming(g, f, UpTo(Cardinality(S)))
  BY <1>5, <1>6
<1> QED BY <1>6, <1>7

\* A sum of naturals is one, and none if one of them is above 0.
LEMMA SumOfNaturals ==
    ASSUME NEW S, IsFiniteSet(S), NEW f, \A x \in S : f[x] \in Nat,
           NEW g, IsSumming(g, f, SUBSET S)
    PROVE  /\ g[S] \in Nat
           /\ (\E x \in S : f[x] # 0) => g[S] # 0
           /\ \A t \in SUBSET S : g[t] \in Nat
<1> DEFINE Some(s) == CHOOSE x \in s : TRUE
           IsSum(s) == g[s] \in Nat /\ ((\E x \in s : f[x] # 0) => g[s] # 0)
           F == {s \in SUBSET S : IsSum(s)}
<1>1. {} \in F
  BY DEF IsSumming
<1>2. ASSUME NEW s \in SUBSET S, s # {}, \A x \in s : s \ {x} \in F PROVE s \in F
  <2>1. Some(s) \in s
    BY <1>2
  <2>2. g[s] = f[Some(s)] + g[s \ {Some(s)}]
    BY <1>2 DEF IsSumming
  <2> HIDE DEF Some
  <2>3. f[Some(s)] \in Nat /\ IsSum(s \ {Some(s)})
    BY <1>2, <2>1
  <2>4. ASSUME NEW x \in s, f[x] # 0 PROVE g[s] # 0
    <3>1. CASE x = Some(s)
      BY <2>2, <2>3, <2>4, <3>1
    <3>2. CASE x # Some(s)
      <4>1. g[s \ {Some(s)}] \in Nat \ {0}
        BY <2>3, <2>4, <3>2
      <4> QED BY <2>2, <2>3, <4>1
    <3> QED BY <3>1, <3>2
  <2>5. g[s] \in Nat
    BY <2>2, <2>3
  <2> QED BY <2>4, <2>5
<1>3. SUBSET S \subseteq F
  <2> HIDE DEF F
  <2> QED BY <1>1, <1>2, SubsetInduction
<1> QED BY <1>3

\* The order in which a sum is taken does not matter.
LEMMA SumInAnyOrder ==
    ASSUME NEW S, IsFiniteSet(S), NEW f, \A x \in S : f[x] \in Nat,
           NEW g, IsSumming(g, f, SUBSET S), NEW z \in S
    PROVE  g[S] = f[z] + g[S \ {z}]
<1> DEFINE Some(s) == CHOOSE x \in s : TRUE
           F == {s \in SUBSET S : \A x \in s : g[s] = f[x] + g[s \ {x}]}
<1>1. {} \in F
  OBVIOUS
<1>2. \A s \in SUBSET S : g[s] \in Nat
  BY SumOfNaturals
<1>3. ASSUME NEW s \in SUBSET S, s # {}, \A x \in s : s \ {x} \in F PROVE s \in F
  <2> DEFINE y == Some(s)
  <2>1. y \in s
    BY <1>3
  <2>2. g[s] = f[y] + g[s \ {y}]
    BY <1>3 DEF IsSumming
  <2> HIDE DEF y
  <2>3. ASSUME NEW x \in s, x # y PROVE g[s] = f[x] + g[s \ {x}]
    <3> DEFINE rest == (s \ {x}) \ {y}
    <3>1. rest = (s \ {y}) \ {x} /\ rest \in SUBSET S
      OBVIOUS
    <3>2. g[s \ {y}] = f[x] + g[rest]
      <4>1. x \in s \ {y} /\ s \ {y} \in F
        BY <1>3, <2>1, <2>3
      <4> QED BY <3>1, <4>1
    <3>3. g[s \ {x}] = f[y] + g[rest]
      <4>1. y \in s \ {x} /\ s \ {x} \in F
        BY <1>3, <2>1, <2>3
      <4> QED BY <4>1
    <3> HIDE DEF rest
    <3>4. f[x] \in Nat /\ f[y] \in Nat /\ g[rest] \in Nat
      BY <1>2, <2>1, <3>1
    <3> QED BY <2>2, <3>2, <3>3, <3>4
  <2> QED BY <2>2, <2>3
<1>4. SUBSET S \subseteq F
  <2> HIDE DEF F
  <2> QED BY <1>1, <1>3, SubsetInduction
<1> QED BY <1>4

\* The sums of the subsets of a finite set of naturals.
Sums(g, f, S) ==
    /\ IsFiniteSet(S)
    /\ \A x \in S : f[x] \in Nat
    /\ IsSumming(g, f, SUBSET S)

SameOn(f, k, R) == \A x \in R : f[x] = k[x]

LEMMA SumWithout ==
    ASSUME NEW S, NEW f, NEW g, Sums(g, f, S), NEW z \in S
    PROVE  g[S] = f[z] + g[S \ {z}]
BY SumInAnyOrder DEF Sums

\* Sums over the same set of the same values are the same.
LEMMA SumsOfSame ==
    ASSUME NEW S, NEW T, NEW R \in SUBSET S, R \in SUBSET T,
           NEW f, NEW k, SameOn(f, k, R), NEW g, Sums(g, f, S), NEW h, Sums(h, k, T)
    PROVE  g[R] = h[R]
<1> DEFINE Some(s) == CHOOSE x \in s : TRUE
           F == {s \in SUBSET R : g[s] = h[s]}
<1>1. {} \in F
  BY DEF Sums, IsSumming
<1>2. ASSUME NEW s \in SUBSET R, s # {}, \A x \in s : s \ {x} \in F PROVE s \in F
  <2>1. Some(s) \in s
    BY <1>2
  <2>2. g[s] = f[Some(s)] + g[s \ {Some(s)}] /\ h[s] = k[Some(s)] + h[s \ {Some(s)}]
    <3>1. s \in SUBSET S /\ s \in SUBSET T
      OBVIOUS
    <3> QED BY <1>2, <3>1 DEF Sums, IsSumming
  <2>3. f[Some(s)] = k[Some(s)]
    BY <2>1 DEF SameOn
  <2> HIDE DEF Some
  <2> QED BY <1>2, <2>1, <2>2, <2>3
<1>3. IsFiniteSet(R)
  BY FS_Subset DEF Sums
<1>4. SUBSET R \subseteq F
  <2> HIDE DEF F
  <2> QED BY <1>1, <1>2, <1>3, SubsetInduction
<1> QED BY <1>4

\* The sum of a part is that of the part without one of its members, and of that one.
LEMMA PartWithout ==
    ASSUME NEW S, NEW f, NEW g, Sums(g, f, S), NEW R \in SUBSET S, NEW z \in R
    PROVE  g[R] = f[z] + g[R \ {z}]
<1> DEFINE h == [s \in SUBSET R |-> g[s]]
<1>1. Sums(h, f, R)
  <2>1. IsFiniteSet(R) /\ \A x \in R : f[x] \in Nat
    BY FS_Subset DEF Sums
  <2>2. \A s \in SUBSET R : s \in SUBSET S
    OBVIOUS
  <2>3. \A s \in SUBSET R :
           h[s] = IF s = {} THEN 0
                  ELSE f[CHOOSE x \in s : TRUE] + h[s \ {CHOOSE x \in s : TRUE}]
    <3> SUFFICES ASSUME NEW s \in SUBSET R
                 PROVE  h[s] = IF s = {} THEN 0
                               ELSE f[CHOOSE x \in s : TRUE] + h[s \ {CHOOSE x \in s : TRUE}]
      OBVIOUS
    <3>1. s \in SUBSET S /\ s \ {CHOOSE x \in s : TRUE} \in SUBSET R
      OBVIOUS
    <3> QED BY <3>1 DEF Sums, IsSumming
  <2>4. h = [s \in SUBSET R |-> h[s]]
    OBVIOUS
  <2> HIDE DEF h
  <2> QED BY <2>1, <2>3, <2>4 DEF Sums, IsSumming
<1>2. h[R] = f[z] + h[R \ {z}]
  <2> HIDE DEF h
  <2> QED BY <1>1, SumWithout
<1>3. h[R] = g[R] /\ h[R \ {z}] = g[R \ {z}]
  OBVIOUS
<1> QED BY <1>2, <1>3

\* The sum of a part is not larger.
LEMMA PartIsSmaller ==
    ASSUME NEW S, NEW f, NEW g, Sums(g, f, S), NEW R \in SUBSET S
    PROVE  g[R] \in Nat /\ g[S] \in Nat /\ g[R] <= g[S]
<1>1. \A t \in SUBSET S : g[t] \in Nat
  BY SumOfNaturals DEF Sums
<1> DEFINE F == {s \in SUBSET S : \A r \in SUBSET s : g[r] <= g[s]}
<1>2. {} \in F
  <2>1. g[{}] <= g[{}]
    BY <1>1
  <2> QED BY <2>1
<1>3. ASSUME NEW s \in SUBSET S, s # {}, \A x \in s : s \ {x} \in F PROVE s \in F
  <2> SUFFICES ASSUME NEW r \in SUBSET s PROVE g[r] <= g[s]
    OBVIOUS
  <2>1. CASE r = s
    BY <1>1, <2>1
  <2>2. CASE r # s
    <3>1. PICK x \in s : x \notin r
      BY <2>2
    <3>2. r \in SUBSET (s \ {x})
      BY <3>1
    <3>3. g[r] <= g[s \ {x}]
      BY <1>3, <3>2
    <3>4. g[s] = f[x] + g[s \ {x}]
      BY PartWithout
    <3>5. f[x] \in Nat /\ g[r] \in Nat /\ g[s] \in Nat /\ g[s \ {x}] \in Nat
      <4>1. r \in SUBSET S /\ s \ {x} \in SUBSET S /\ x \in S
        OBVIOUS
      <4> QED BY <1>1, <4>1 DEF Sums
    <3> QED BY <3>3, <3>4, <3>5
  <2> QED BY <2>1, <2>2
<1>4. IsFiniteSet(S)
  BY DEF Sums
<1>5. SUBSET S \subseteq F
  <2> HIDE DEF F
  <2> QED BY <1>2, <1>3, <1>4, SubsetInduction
<1>6. S \in SUBSET S /\ R \in SUBSET S
  OBVIOUS
<1> QED BY <1>1, <1>5, <1>6

LEMMA TotalIsSum ==
    ASSUME NEW series, IsSeries(series)
    PROVE  \E g : IsSumming(g, series, SUBSET DOMAIN series) /\ Total(series) = g[DOMAIN series]
<1> DEFINE S == DOMAIN series
           iter == CHOOSE g : IsSumming(g, series, SUBSET S)
<1>1. Total(series) = iter[S]
  BY DEF Total, SumFunction, SumFunctionOnSet, FoldFunctionOnSet, MapThenFoldSet, IsSumming
<1>2. IsFiniteSet(S) /\ \A x \in S : series[x] \in Nat
  BY DEF IsSeries
<1>3. IsSumming(iter, series, SUBSET S)
  BY <1>2, SummingExists
<1> HIDE DEF iter
<1> QED BY <1>1, <1>3

LEMMA TotalIsNatural ==
    ASSUME NEW series, IsSeries(series)
    PROVE  Total(series) \in Nat
<1>1. PICK g : IsSumming(g, series, SUBSET DOMAIN series) /\ Total(series) = g[DOMAIN series]
  BY TotalIsSum
<1>2. IsFiniteSet(DOMAIN series) /\ \A x \in DOMAIN series : series[x] \in Nat
  BY DEF IsSeries
<1> QED BY <1>1, <1>2, SumOfNaturals

LEMMA TotalOfNone == IsSeries(<< >>) /\ Total(<< >>) = 0
<1>1. IsSeries(<< >>)
  BY FS_EmptySet DEF IsSeries
<1>2. PICK g : IsSumming(g, << >>, SUBSET DOMAIN << >>) /\ Total(<< >>) = g[DOMAIN << >>]
  BY <1>1, TotalIsSum
<1>3. g[{}] = 0
  BY <1>2 DEF IsSumming
<1> QED BY <1>1, <1>2, <1>3

\* What is added to a day is added to the total.
LEMMA TotalAdds ==
    ASSUME NEW series, IsSeries(series), NEW day \in Nat, NEW count \in Nat \ {0}
    PROVE  LET added == Counting(series, day, CountOn(series, day) + count)
           IN IsSeries(added) /\ Total(added) = Total(series) + count
<1> DEFINE added == Counting(series, day, CountOn(series, day) + count)
           S == DOMAIN series
           T == S \cup {day}
           R == S \ {day}
<1>1. IsFiniteSet(S) /\ S \subseteq Nat /\ \A x \in S : series[x] \in Nat \ {0}
  BY DEF IsSeries
<1>2. CountOn(series, day) \in Nat
  BY <1>1 DEF CountOn
<1>3. /\ DOMAIN added = T
      /\ added[day] = CountOn(series, day) + count
      /\ \A x \in R : added[x] = series[x]
      /\ added = [d \in T |-> added[d]]
  BY DEF Counting
<1> HIDE DEF added
<1>4. IsFiniteSet(T) /\ T \subseteq Nat /\ IsFiniteSet(R)
  BY <1>1, FS_AddElement, FS_RemoveElement
<1>5. \A x \in T : added[x] \in Nat \ {0}
  <2> SUFFICES ASSUME NEW x \in T PROVE added[x] \in Nat \ {0}
    OBVIOUS
  <2>1. CASE x = day
    BY <1>2, <1>3, <2>1
  <2>2. CASE x # day
    BY <1>1, <1>3, <2>2
  <2> QED BY <2>1, <2>2
<1>6. IsSeries(added)
  <2> HIDE DEF T
  <2> QED BY <1>3, <1>4, <1>5 DEF IsSeries
<1>7. PICK g : IsSumming(g, series, SUBSET S) /\ Total(series) = g[S]
  BY TotalIsSum
<1>8. PICK h : IsSumming(h, added, SUBSET T) /\ Total(added) = h[T]
  BY <1>3, <1>6, TotalIsSum
<1>9. R \subseteq S /\ R \subseteq T /\ T \ {day} = R /\ R \in SUBSET S /\ day \in T
  OBVIOUS
<1>10. S \ {day} = R
  OBVIOUS
<1>11. day \notin S => R = S
  OBVIOUS
<1> HIDE DEF S, T, R
<1>12. Sums(g, series, S) /\ Sums(h, added, T)
  BY <1>1, <1>4, <1>5, <1>7, <1>8 DEF Sums
<1>13. g[R] = h[R]
  <2>1. SameOn(series, added, R)
    BY <1>3 DEF SameOn
  <2>2. R \in SUBSET S /\ R \in SUBSET T
    BY <1>9
  <2> QED BY <1>12, <2>1, <2>2, SumsOfSame
<1>14. h[T] = added[day] + h[R]
  <2>1. h[T] = added[day] + h[T \ {day}]
    BY <1>9, <1>12, SumWithout
  <2> QED BY <1>9, <2>1
<1>15. g[R] \in Nat /\ g[S] = CountOn(series, day) + g[R]
  <2>1. g[R] \in Nat
    BY <1>1, <1>7, <1>9, SumOfNaturals
  <2>2. CASE day \in S
    <3>1. g[S] = series[day] + g[S \ {day}]
      BY <1>12, <2>2, SumWithout
    <3> QED BY <1>10, <2>1, <2>2, <3>1 DEF CountOn, S
  <2>3. CASE day \notin S
    BY <1>11, <2>1, <2>3 DEF CountOn, S
  <2> QED BY <2>1, <2>2, <2>3
<1>16. Total(added) = Total(series) + count
  BY <1>2, <1>3, <1>7, <1>8, <1>13, <1>14, <1>15
<1> QED BY <1>6, <1>16 DEF added

-----------------------------------------------------------------------------
(* Curves *)

\* Point in the order of their days, of which none has fewer stars than the one
\* before and the last has all of them.
IsLine(points, stars) ==
    /\ points \in Seq(Point)
    /\ \A i, j \in 1 .. Len(points) : i < j =>
          points[i].day < points[j].day /\ points[i].count <= points[j].count
    /\ \A i \in 1 .. Len(points) : points[i].count <= stars
    /\ points # << >> => points[Len(points)].count = stars

\* What normalize makes of the next day.
Raised(sofar, day, series, total, stars) ==
    LET cumulative == (sofar.cumulative + series[day]) % Words
        estimate == Larger(Estimate(cumulative, total, stars), sofar.count)
        count == Smaller(estimate, stars)
    IN [cumulative |-> cumulative, count |-> count,
        points |-> Append(sofar.points, [day |-> day, count |-> count])]

Unraised == [cumulative |-> 0, count |-> 0, points |-> << >>]

\* The recursion of the fold that raises the curve.
IsRaising(g, days, series, total, stars, S) ==
    g = [s \in SUBSET S |->
            IF s = {} THEN Unraised
            ELSE Raised(g[s \ {Max(s)}], days[Max(s)], series, total, stars)]

LEMMA RaisingExists ==
    ASSUME NEW days, NEW series, NEW total, NEW stars,
           NEW S, IsFiniteSet(S), S \subseteq Int
    PROVE  \E g : IsRaising(g, days, series, total, stars, S)
<1> DEFINE Next(sofar, k) == Raised(sofar, days[k], series, total, stars)
           F == {s \in SUBSET S : \E g : IsRaising(g, days, series, total, stars, s)}
<1>1. {} \in F
  <2> DEFINE g == [s \in SUBSET {} |-> Unraised]
  <2>1. IsRaising(g, days, series, total, stars, {})
    BY DEF IsRaising
  <2> QED BY <2>1
<1>2. ASSUME NEW s \in SUBSET S, s # {}, \A x \in s : s \ {x} \in F PROVE s \in F
  <2> DEFINE m == Max(s)
  <2>1. m \in s /\ \A y \in s : y <= m
    BY <1>2, FS_Subset, MaxOfFinite
  <2>2. PICK g : IsRaising(g, days, series, total, stars, s \ {m})
    BY <1>2, <2>1
  <2> DEFINE h == [t \in SUBSET s |-> IF m \in t THEN Next(g[t \ {m}], m) ELSE g[t]]
  <2>3. ASSUME NEW t \in SUBSET s, t # {} PROVE h[t] = Next(h[t \ {Max(t)}], Max(t))
    <3>1. Max(t) \in t /\ \A y \in t : y <= Max(t)
      BY <2>3, FS_Subset, MaxOfFinite
    <3>2. CASE m \in t
      <4>1. Max(t) \in Int /\ m \in Int /\ Max(t) <= m /\ m <= Max(t)
        BY <2>1, <3>1, <3>2
      <4>2. Max(t) = m
        BY <4>1
      <4>3. h[t] = Next(g[t \ {m}], m) /\ h[t \ {m}] = g[t \ {m}]
        BY <3>2
      <4> HIDE DEF h, Next
      <4> QED BY <4>2, <4>3
    <3>3. CASE m \notin t
      <4>1. g[t] = Next(g[t \ {Max(t)}], Max(t))
        BY <2>2, <2>3, <3>3 DEF IsRaising
      <4>2. h[t] = g[t] /\ h[t \ {Max(t)}] = g[t \ {Max(t)}]
        BY <3>3
      <4> HIDE DEF h, Next
      <4> QED BY <4>1, <4>2
    <3> QED BY <3>2, <3>3
  <2>4. h[{}] = Unraised
    BY <2>2 DEF IsRaising
  <2>5. h = [t \in SUBSET s |-> h[t]]
    OBVIOUS
  <2> HIDE DEF h
  <2>6. IsRaising(h, days, series, total, stars, s)
    BY <2>3, <2>4, <2>5 DEF IsRaising
  <2> QED BY <2>6
<1>3. SUBSET S \subseteq F
  <2> HIDE DEF F
  <2> QED BY <1>1, <1>2, SubsetInduction
<1> QED BY <1>3

\* The curve after some of its days: it has their days, it rises, and it is no
\* higher than its last count.
\* After the first days comes the next day.
LEMMA RaisedNext ==
    ASSUME NEW iter, NEW days, NEW series, NEW total, NEW stars, NEW n \in Nat,
           IsRaising(iter, days, series, total, stars, 1 .. n),
           NEW k \in Nat, NEW m \in Nat, m = k + 1, m <= n
    PROVE  iter[1 .. m] = Raised(iter[1 .. k], days[m], series, total, stars)
<1> DEFINE N == 1 .. n
           T == 1 .. m
<1>1. T \in SUBSET N /\ m \in T
  OBVIOUS
<1>2. Max(T) = m /\ T \ {Max(T)} = 1 .. k
  BY MaxOfPrefix
<1>3. IsRaising(iter, days, series, total, stars, N)
  OBVIOUS
<1> HIDE DEF T, N
<1>4. iter[T] = Raised(iter[T \ {Max(T)}], days[Max(T)], series, total, stars)
  BY <1>1, <1>3 DEF IsRaising
<1> QED BY <1>2, <1>4 DEF T

Rises(sofar, days, stars, k) ==
    /\ sofar.cumulative \in Int
    /\ sofar.count \in 0 .. stars
    /\ sofar.points \in Seq(Point)
    /\ Len(sofar.points) = k
    /\ \A i \in 1 .. k : sofar.points[i].day = days[i] /\ sofar.points[i].count <= sofar.count
    /\ \A i, j \in 1 .. k : i < j => sofar.points[i].count <= sofar.points[j].count

LEMMA AppendedMember ==
    ASSUME NEW S, NEW q \in Seq(S), NEW p \in S
    PROVE  /\ Append(q, p) \in Seq(S) /\ Len(Append(q, p)) = Len(q) + 1
           /\ \A i \in 1 .. Len(q) : Append(q, p)[i] = q[i]
           /\ Append(q, p)[Len(q) + 1] = p
OBVIOUS

LEMMA RaisedRises ==
    ASSUME NEW sofar, NEW days, NEW series, NEW stars \in Nat, NEW k \in Nat,
           NEW total \in Nat, (2 * total) % Words # 0,
           Rises(sofar, days, stars, k),
           days[k + 1] \in Nat, series[days[k + 1]] \in Nat
    PROVE  Rises(Raised(sofar, days[k + 1], series, total, stars), days, stars, k + 1)
<1> DEFINE day == days[k + 1]
           cumulative == (sofar.cumulative + series[day]) % Words
           numerator == (stars * cumulative) % Words
           estimate == Larger(Estimate(cumulative, total, stars), sofar.count)
           count == Smaller(estimate, stars)
           point == [day |-> day, count |-> count]
           next == Raised(sofar, day, series, total, stars)
<1>1. Words \in Nat \ {0}
  BY SeriesAssumption
<1>2. cumulative \in Int
  <2>1. sofar.cumulative + series[day] \in Int
    BY DEF Rises
  <2> QED BY <1>1, <2>1, ModAndDiv
<1>3. Estimate(cumulative, total, stars) \in Int
  <2> HIDE DEF cumulative
  <2>1. stars * cumulative \in Int
    BY <1>2
  <2>2. numerator \in Int
    BY <1>1, <2>1, ModAndDiv
  <2>3. (2 * total) % Words \in Nat \ {0}
    <3>1. 2 * total \in Int
      OBVIOUS
    <3>2. (2 * total) % Words \in 0 .. Words - 1
      BY <1>1, <3>1, ModAndDiv
    <3> QED BY <1>1, <3>2
  <2>4. Estimate(cumulative, total, stars) =
            ((2 * numerator + total) % Words) \div ((2 * total) % Words)
    BY DEF Estimate
  <2> HIDE DEF numerator
  <2>5. 2 * numerator + total \in Int
    BY <2>2
  <2>6. (2 * numerator + total) % Words \in Int
    BY <1>1, <2>5, ModAndDiv
  <2> QED BY <2>3, <2>4, <2>6, ModAndDiv
<1>4. count \in 0 .. stars /\ sofar.count <= count
  <2> HIDE DEF cumulative
  <2>1. sofar.count \in 0 .. stars
    BY DEF Rises
  <2> QED BY <1>3, <2>1 DEF Larger, Smaller
<1>5. next = [cumulative |-> cumulative, count |-> count,
              points |-> Append(sofar.points, point)]
  BY DEF Raised
<1> HIDE DEF cumulative, count, next
<1>6. /\ sofar.points \in Seq(Point)
      /\ Len(sofar.points) = k
      /\ sofar.count \in 0 .. stars
      /\ \A i \in 1 .. k : sofar.points[i].day = days[i] /\ sofar.points[i].count <= sofar.count
      /\ \A i, j \in 1 .. k : i < j => sofar.points[i].count <= sofar.points[j].count
  BY DEF Rises
<1>7. point \in Point
  BY <1>4 DEF Point
<1>8. /\ next.points \in Seq(Point)
      /\ Len(next.points) = k + 1
      /\ \A i \in 1 .. k : next.points[i] = sofar.points[i]
      /\ next.points[k + 1] = point
      /\ next.count = count
      /\ next.cumulative = cumulative
  <2> DEFINE q == sofar.points
  <2>1. next.points = Append(q, point) /\ next.count = count /\ next.cumulative = cumulative
    BY <1>5
  <2>2. q \in Seq(Point) /\ Len(q) = k
    BY <1>6
  <2> HIDE DEF q, point
  <2>3. /\ Append(q, point) \in Seq(Point) /\ Len(Append(q, point)) = k + 1
        /\ \A i \in 1 .. k : Append(q, point)[i] = q[i]
        /\ Append(q, point)[k + 1] = point
    BY <1>7, <2>2, AppendedMember
  <2> QED BY <2>1, <2>3 DEF q
<1>9. \A i \in 1 .. k : sofar.points[i].count \in Nat
  <2> DEFINE q == sofar.points
  <2>1. q \in Seq(Point) /\ Len(q) = k
    BY <1>6
  <2> HIDE DEF q
  <2>2. \A i \in 1 .. k : q[i] \in Point
    BY <2>1
  <2> QED BY <2>2 DEF Point, q
<1>10. ASSUME NEW i \in 1 .. k + 1
       PROVE next.points[i].day = days[i] /\ next.points[i].count <= next.count
  <2>1. CASE i \in 1 .. k
    <3> DEFINE before == sofar.points[i].count
               reached == sofar.count
    <3>1. before <= reached /\ before \in Nat /\ reached \in Nat
      BY <1>6, <1>9, <2>1
    <3>2. reached <= count /\ count \in Nat
      BY <1>4
    <3>3. sofar.points[i].day = days[i] /\ next.points[i] = sofar.points[i] /\ next.count = count
      BY <1>6, <1>8, <2>1
    <3> HIDE DEF before, reached
    <3>4. before <= count
      BY <3>1, <3>2
    <3> QED BY <3>3, <3>4 DEF before
  <2>2. CASE i = k + 1
    BY <1>4, <1>8, <2>2
  <2> QED BY <2>1, <2>2
<1>11. ASSUME NEW i \in 1 .. k + 1, NEW j \in 1 .. k + 1, i < j
       PROVE next.points[i].count <= next.points[j].count
  <2>1. i \in 1 .. k
    BY <1>11
  <2>2. CASE j \in 1 .. k
    BY <1>6, <1>8, <1>11, <2>1, <2>2
  <2>3. CASE j = k + 1
    <3>1. next.points[j].count = next.count
      BY <1>8, <2>3
    <3> QED BY <1>10, <3>1
  <2> QED BY <2>2, <2>3
<1>12. Rises(next, days, stars, k + 1)
  BY <1>2, <1>4, <1>8, <1>10, <1>11 DEF Rises
<1> QED BY <1>12 DEF next

Ended(points, stars) == [points EXCEPT ![Len(points)].count = stars]

\* The curve is what the days raise, one after the other, and ends at the stars.
LEMMA CurveIsRaised ==
    ASSUME NEW series, IsSeries(series), NEW stars
    PROVE  LET days == InOrder(DOMAIN series)
               n == Cardinality(DOMAIN series)
               total == Total(series) % Words
           IN \E g : /\ IsRaising(g, days, series, total, stars, 1 .. n)
                     /\ Normalize(series, stars) = IF total = 0 THEN << >> ELSE Ended(g[1 .. n].points, stars)
<1> DEFINE days == InOrder(DOMAIN series)
           n == Cardinality(DOMAIN series)
           total == Total(series) % Words
           Next(sofar, day) == Raised(sofar, day, series, total, stars)
           iter == CHOOSE g : IsRaising(g, days, series, total, stars, 1 .. n)
<1>1. n \in Nat /\ DOMAIN days = 1 .. n
  BY ListFacts
<1>2. Normalize(series, stars) = IF total = 0 THEN << >> ELSE Ended(iter[1 .. n].points, stars)
  <2>1. FoldLeft(Next, Unraised, days) = iter[1 .. n]
    <3> HIDE DEF days, n, total
    <3> QED BY <1>1 DEF FoldLeft, MapThenFoldSet, IsRaising
  <2> HIDE DEF iter
  <2> QED BY <2>1 DEF Normalize, Raised, Unraised, Ended
<1>3. IsRaising(iter, days, series, total, stars, 1 .. n)
  <2>1. n \in Int
    BY <1>1
  <2> HIDE DEF days, n, total
  <2>2. IsFiniteSet(1 .. n) /\ 1 .. n \subseteq Int
    BY <2>1, FS_Interval
  <2>3. \E g : IsRaising(g, days, series, total, stars, 1 .. n)
    BY <2>2, RaisingExists
  <2> QED BY <2>3
<1> HIDE DEF iter
<1> QED BY <1>2, <1>3

\* A curve never falls and ends at the stars of today, whatever the products wrap
\* to, if it can be calculated (history.go 27-67).
THEOREM CurvesRise ==
    ASSUME NEW series, IsSeries(series), CanNormalize(series), NEW stars \in Nat
    PROVE  IsLine(Normalize(series, stars), stars)
<1> DEFINE days == InOrder(DOMAIN series)
           n == Cardinality(DOMAIN series)
           total == Total(series) % Words
<1>1. /\ n \in Nat
      /\ DOMAIN days = 1 .. n
      /\ \A i \in 1 .. n : days[i] \in Nat /\ series[days[i]] \in Nat
      /\ \A i, j \in 1 .. n : i < j => days[i] < days[j]
  <2>1. \A x \in DOMAIN series : x \in Nat /\ series[x] \in Nat
    BY DEF IsSeries
  <2> QED BY <2>1, ListFacts
<1> HIDE DEF total
<1>2. PICK iter : /\ IsRaising(iter, days, series, total, stars, 1 .. n)
                  /\ Normalize(series, stars) = IF total = 0 THEN << >> ELSE Ended(iter[1 .. n].points, stars)
  BY CurveIsRaised DEF total
<1> DEFINE points == iter[1 .. n].points
           ended == [points EXCEPT ![Len(points)].count = stars]
<1>3. CASE total = 0
  <2>1. IsLine(<< >>, stars)
    BY DEF IsLine
  <2> QED BY <1>2, <1>3, <2>1
<1>4. CASE total # 0
  <2>1. total \in Nat /\ (2 * total) % Words # 0
    <3>1. Total(series) \in Int /\ Words \in Nat \ {0}
      BY TotalIsNatural, SeriesAssumption
    <3>2. total \in 0 .. Words - 1
      BY <3>1, ModAndDiv DEF total
    <3> QED BY <1>4, <3>2 DEF CanNormalize, total
  <2>2. IsRaising(iter, days, series, total, stars, 1 .. n)
    BY <1>2
  <2> DEFINE S == {k \in Nat : k <= n => Rises(iter[1 .. k], days, stars, k)}
  <2>3. 0 \in S
    <3>1. 1 .. 0 = {} /\ {} \in SUBSET (1 .. n)
      OBVIOUS
    <3>2. iter[1 .. 0] = Unraised
      BY <2>2, <3>1 DEF IsRaising
    <3>3. Rises(Unraised, days, stars, 0)
      BY DEF Rises, Unraised
    <3> HIDE DEF days
    <3> QED BY <3>2, <3>3
  <2>4. ASSUME NEW k \in Nat, k \in S PROVE k + 1 \in S
    <3> HIDE DEF days, n
    <3> SUFFICES ASSUME k + 1 <= n PROVE Rises(iter[1 .. k + 1], days, stars, k + 1)
      OBVIOUS
    <3>1. n \in Nat /\ k <= n /\ k + 1 \in 1 .. n
      BY <1>1
    <3>2. Rises(iter[1 .. k], days, stars, k)
      BY <2>4, <3>1
    <3>3. iter[1 .. k + 1] = Raised(iter[1 .. k], days[k + 1], series, total, stars)
      BY <2>2, <3>1, RaisedNext
    <3>4. days[k + 1] \in Nat /\ series[days[k + 1]] \in Nat
      BY <1>1, <3>1
    <3> QED BY <2>1, <3>2, <3>3, <3>4, RaisedRises
  <2>5. Nat \subseteq S
    <3> HIDE DEF S, days, n
    <3>1. \A k \in Nat : k \in S => k + 1 \in S
      BY <2>4
    <3> QED BY <2>3, <3>1, Induction
  <2>6. Rises(iter[1 .. n], days, stars, n)
    <3> HIDE DEF days
    <3> QED BY <1>1, <2>5
  <2>7. /\ points \in Seq(Point) /\ Len(points) = n
        /\ \A i \in 1 .. n : points[i].day = days[i] /\ points[i].count <= stars
        /\ \A i, j \in 1 .. n : i < j => points[i].count <= points[j].count
    <3> HIDE DEF days
    <3>1. /\ points \in Seq(Point) /\ Len(points) = n
          /\ iter[1 .. n].count \in 0 .. stars
          /\ \A i \in 1 .. n : points[i].day = days[i] /\ points[i].count <= iter[1 .. n].count
          /\ \A i, j \in 1 .. n : i < j => points[i].count <= points[j].count
      BY <2>6 DEF Rises
    <3>2. \A i \in 1 .. n : points[i] \in Point
      BY <3>1
    <3>3. \A i \in 1 .. n : points[i].count \in Nat
      BY <3>2 DEF Point
    <3> HIDE DEF points
    <3>4. \A i \in 1 .. n : points[i].count <= stars
      BY <3>1, <3>3
    <3> QED BY <3>1, <3>4
  <2> HIDE DEF points
  <2>8. /\ ended \in Seq(Point) /\ Len(ended) = n
        /\ \A i \in 1 .. n : /\ ended[i].day = days[i]
                              /\ ended[i].count = IF i = n THEN stars ELSE points[i].count
    <3>1. \A i \in 1 .. n : points[i] \in Point
      BY <2>7
    <3>2. ended = [i \in 1 .. n |-> IF i = n THEN [points[i] EXCEPT !.count = stars] ELSE points[i]]
      <4>1. points = [i \in 1 .. n |-> points[i]] /\ Len(points) = n
        BY <2>7
      <4>2. ended = [points EXCEPT ![n] = [points[n] EXCEPT !.count = stars]]
        BY <4>1
      <4> DEFINE last == [points[n] EXCEPT !.count = stars]
      <4> HIDE DEF last, n
      <4>3. [points EXCEPT ![n] = last] = [i \in 1 .. n |-> IF i = n THEN last ELSE points[i]]
        BY <4>1
      <4> QED BY <4>2, <4>3 DEF last
    <3>3. \A i \in 1 .. n : [points[i] EXCEPT !.count = stars] = [day |-> points[i].day, count |-> stars]
      BY <3>1 DEF Point
    <3>4. \A i \in 1 .. n : ended[i] \in Point
      <4> SUFFICES ASSUME NEW i \in 1 .. n PROVE ended[i] \in Point
        OBVIOUS
      <4>1. points[i].day \in Nat
        BY <3>1 DEF Point
      <4>2. [day |-> points[i].day, count |-> stars] \in Point
        BY <4>1 DEF Point
      <4> HIDE DEF ended
      <4> QED BY <3>1, <3>2, <3>3, <4>2
    <3> HIDE DEF ended, days
    <3>5. \A i \in 1 .. n : /\ ended[i].day = days[i]
                            /\ ended[i].count = IF i = n THEN stars ELSE points[i].count
      BY <2>7, <3>2, <3>3
    <3>6. ended \in Seq(Point) /\ Len(ended) = n
      <4>1. n \in Nat
        BY <1>1
      <4> HIDE DEF n
      <4>2. DOMAIN ended = 1 .. n /\ ended = [i \in 1 .. n |-> ended[i]]
        BY <3>2
      <4>3. ended \in [1 .. n -> Point]
        BY <3>4, <4>2
      <4> QED BY <4>1, <4>3
    <3> QED BY <3>5, <3>6
  <2> HIDE DEF ended, days, n
  <2>9. \A i \in 1 .. n : ended[i].count <= stars
    BY <2>7, <2>8
  <2>10. ASSUME NEW i \in 1 .. n, NEW j \in 1 .. n, i < j
         PROVE ended[i].day < ended[j].day /\ ended[i].count <= ended[j].count
    <3>1. ended[i].day < ended[j].day
      <4>1. ended[i].day = days[i] /\ ended[j].day = days[j]
        BY <2>8
      <4>2. days[i] < days[j]
        BY <1>1, <2>10
      <4> QED BY <4>1, <4>2
    <3>2. i # n
      BY <1>1, <2>10
    <3>3. ended[i].count = points[i].count /\ points[i].count <= stars
      BY <2>7, <2>8, <3>2
    <3>4. CASE j = n
      BY <2>8, <3>1, <3>3, <3>4
    <3>5. CASE j # n
      <4>1. ended[j].count = points[j].count
        BY <2>8, <3>5
      <4>2. points[i].count <= points[j].count
        BY <2>7, <2>10
      <4> QED BY <3>1, <3>3, <4>1, <4>2
    <3> QED BY <3>1, <3>4, <3>5
  <2>11. ended # << >> => ended[Len(ended)].count = stars
    <3> SUFFICES ASSUME ended # << >> PROVE ended[n].count = stars
      BY <2>8
    <3>1. n # 0
      BY <2>8
    <3>2. n \in 1 .. n
      BY <1>1, <3>1
    <3> QED BY <2>8, <3>2
  <2>12. IsLine(ended, stars)
    BY <2>8, <2>9, <2>10, <2>11 DEF IsLine
  <2>13. Normalize(series, stars) = ended
    BY <1>2, <1>4 DEF Ended, ended, points
  <2> QED BY <2>12, <2>13
<1> QED BY <1>3, <1>4

Kept(line, source, n) == [i \in 1 .. n |-> line[source[i]]]

\* Points of a line that are kept in order, its last one with them, are a line.
LEMMA KeptLine ==
    ASSUME NEW stars \in Nat, NEW line, IsLine(line, stars),
           NEW n \in Nat, NEW source \in [1 .. n -> 1 .. Len(line)],
           \A i, j \in 1 .. n : i < j => source[i] < source[j],
           n # 0 => source[n] = Len(line)
    PROVE  IsLine(Kept(line, source, n), stars) /\ ToSet(Kept(line, source, n)) \subseteq ToSet(line)
<1> DEFINE kept == Kept(line, source, n)
<1>1. /\ line \in Seq(Point)
      /\ \A i, j \in 1 .. Len(line) : i < j =>
            line[i].day < line[j].day /\ line[i].count <= line[j].count
      /\ \A i \in 1 .. Len(line) : line[i].count <= stars
      /\ line # << >> => line[Len(line)].count = stars
  BY DEF IsLine
<1>2. kept \in Seq(Point) /\ Len(kept) = n
  <2>1. \A i \in 1 .. n : line[source[i]] \in Point
    BY <1>1
  <2>2. kept \in [1 .. n -> Point]
    BY <2>1 DEF Kept
  <2> QED BY <2>2
<1>3. \A i \in 1 .. n : source[i] \in 1 .. Len(line) /\ kept[i] = line[source[i]]
  BY DEF Kept
<1> HIDE DEF kept
<1>4. ASSUME NEW i \in 1 .. n, NEW j \in 1 .. n, i < j
      PROVE kept[i].day < kept[j].day /\ kept[i].count <= kept[j].count
  <2>1. source[i] < source[j]
    BY <1>4
  <2> QED BY <1>1, <1>3, <2>1
<1>5. \A i \in 1 .. n : kept[i].count <= stars
  BY <1>1, <1>3
<1>6. ASSUME kept # << >> PROVE kept[n].count = stars
  <2>1. n # 0
    BY <1>2, <1>6
  <2>2. n \in 1 .. n /\ source[n] = Len(line)
    BY <2>1
  <2>3. Len(line) \in 1 .. Len(line)
    BY <1>3, <2>2
  <2>4. line # << >>
    BY <2>3
  <2> QED BY <1>1, <1>3, <2>2, <2>4
<1>7. IsLine(kept, stars)
  BY <1>2, <1>4, <1>5, <1>6 DEF IsLine
<1>8. ToSet(kept) \subseteq ToSet(line)
  <2>1. DOMAIN kept = 1 .. n /\ DOMAIN line = 1 .. Len(line)
    BY <1>1, <1>2
  <2> QED BY <1>3, <2>1 DEF ToSet
<1> QED BY <1>7, <1>8 DEF kept

LEMMA LineAtPlaces ==
    ASSUME NEW stars \in Nat, NEW line, IsLine(line, stars),
           NEW places \in SUBSET (1 .. Len(line)),
           places # {} => Len(line) \in places
    PROVE  IsLine(AtPlaces(line, places), stars) /\ ToSet(AtPlaces(line, places)) \subseteq ToSet(line)
<1> DEFINE listed == InOrder(places)
           n == Cardinality(places)
           m == Len(line)
<1>1. m \in Nat
  BY DEF IsLine
<1>2. IsFiniteSet(places) /\ places \subseteq Int
  <2> HIDE DEF m
  <2>1. IsFiniteSet(1 .. m) /\ 1 .. m \subseteq Int
    BY <1>1, FS_Interval
  <2> QED BY <2>1, FS_Subset DEF m
<1>3. Lists(listed, places) /\ n \in Nat
  BY <1>2, InOrderLists, FS_CardinalityType
<1> HIDE DEF listed
<1>4. /\ listed \in Seq(places) /\ Len(listed) = n
      /\ \A x \in places : \E i \in 1 .. n : listed[i] = x
      /\ \A i, j \in 1 .. n : i < j => listed[i] < listed[j]
  BY <1>3 DEF Lists
<1> HIDE DEF n
<1>5. listed \in [1 .. n -> 1 .. m] /\ DOMAIN listed = 1 .. n
  <2>1. listed \in [1 .. n -> places]
    BY <1>4
  <2>2. places \subseteq 1 .. m
    OBVIOUS
  <2> HIDE DEF m
  <2> QED BY <2>1, <2>2
<1>6. ASSUME n # 0 PROVE listed[n] = m
  <2>1. n \in 1 .. n
    BY <1>3, <1>6
  <2>2. listed[n] \in places
    BY <1>4, <2>1
  <2>3. m \in places
    BY <2>2
  <2>4. PICK i \in 1 .. n : listed[i] = m
    BY <1>4, <2>3
  <2>5. CASE i = n
    BY <2>4, <2>5
  <2>6. CASE i # n
    <3>1. i < n
      BY <1>3, <2>6
    <3>2. listed[i] < listed[n]
      BY <1>4, <2>1, <3>1
    <3>3. listed[n] \in 1 .. m
      BY <1>5, <2>1
    <3> QED BY <1>1, <2>4, <3>2, <3>3
  <2> QED BY <2>5, <2>6
<1>7. IsLine(Kept(line, listed, n), stars) /\ ToSet(Kept(line, listed, n)) \subseteq ToSet(line)
  BY <1>3, <1>4, <1>5, <1>6, KeptLine
<1> QED BY <1>5, <1>7 DEF AtPlaces, Kept, listed

LEMMA RecentIsLine ==
    ASSUME NEW stars \in Nat, NEW line, IsLine(line, stars), NEW cutoff \in Int
    PROVE  IsLine(Recent(line, cutoff), stars) /\ ToSet(Recent(line, cutoff)) \subseteq ToSet(line)
<1> DEFINE places == {i \in DOMAIN line : line[i].day >= cutoff}
           m == Len(line)
<1>1. /\ m \in Nat /\ DOMAIN line = 1 .. m
      /\ \A i \in 1 .. m : line[i] \in Point
      /\ \A i, j \in 1 .. m : i < j => line[i].day < line[j].day
  BY DEF IsLine
<1>2. \A i \in 1 .. m : line[i].day \in Int
  BY <1>1 DEF Point
<1>3. ASSUME places # {} PROVE m \in places
  <2>1. PICK i \in 1 .. m : line[i].day >= cutoff
    BY <1>1, <1>3
  <2> HIDE DEF m
  <2>2. m \in 1 .. m /\ (i = m \/ i < m)
    BY <1>1, <2>1
  <2>3. line[m].day >= cutoff
    BY <1>1, <1>2, <2>1, <2>2
  <2> QED BY <1>1, <2>2, <2>3
<1>4. places \in SUBSET (1 .. m)
  BY <1>1
<1> HIDE DEF places
<1>5. IsLine(AtPlaces(line, places), stars) /\ ToSet(AtPlaces(line, places)) \subseteq ToSet(line)
  BY <1>3, <1>4, LineAtPlaces
<1> QED BY <1>5 DEF Recent, places

LEMMA GroupedIsLine ==
    ASSUME NEW stars \in Nat, NEW line, IsLine(line, stars), NEW range
    PROVE  IsLine(Grouped(line, range), stars) /\ ToSet(Grouped(line, range)) \subseteq ToSet(line)
<1> DEFINE places == {i \in DOMAIN line :
                         \/ i = Len(line)
                         \/ Bucket(range, line[i].day) # Bucket(range, line[i + 1].day)}
           m == Len(line)
<1>1. m \in Nat /\ DOMAIN line = 1 .. m
  BY DEF IsLine
<1>2. places \in SUBSET (1 .. m)
  BY <1>1
<1>3. ASSUME places # {} PROVE m \in places
  <2>1. m # 0
    BY <1>1, <1>2, <1>3
  <2>2. m \in DOMAIN line
    BY <1>1, <2>1
  <2> QED BY <2>2
<1> HIDE DEF places
<1>4. IsLine(AtPlaces(line, places), stars) /\ ToSet(AtPlaces(line, places)) \subseteq ToSet(line)
  BY <1>2, <1>3, LineAtPlaces
<1> QED BY <1>4 DEF Grouped, places

\* One step more of at least a full unit reaches the next unit.
LEMMA NextUnit ==
    ASSUME NEW a \in Nat, NEW d \in Nat, NEW u \in Nat \ {0}, d >= u
    PROVE  (a + d) \div u >= a \div u + 1
OBVIOUS

LEMMA SpreadIsLine ==
    ASSUME NEW stars \in Nat, NEW line, IsLine(line, stars), Len(line) > MaximumPoints
    PROVE  IsLine(Spread(line), stars) /\ ToSet(Spread(line)) \subseteq ToSet(line)
<1> DEFINE u == MaximumPoints - 1
           d == Len(line) - 1
           Source(i) == ((i - 1) * d) \div u + 1
           source == [i \in 1 .. MaximumPoints |-> Source(i)]
<1>1. MaximumPoints \in Nat /\ Len(line) \in Nat
  BY SeriesAssumption DEF IsLine
<1>2. u \in Nat \ {0} /\ d \in Nat /\ d >= u
  BY <1>1, SeriesAssumption
<1> HIDE DEF u, d
<1>3. ASSUME NEW i \in 1 .. MaximumPoints, NEW j \in 1 .. MaximumPoints, i < j
      PROVE Source(i) \in Nat /\ Source(j) \in Nat /\ 1 <= Source(i) /\ Source(i) < Source(j)
  <2> DEFINE a == (i - 1) * d
             e == (j - i) * d
  <2>1. a \in Nat /\ e \in Nat /\ (j - 1) * d = a + e /\ e >= d
    <3>1. i - 1 \in Nat /\ j - i \in Nat /\ j - i >= 1 /\ j - 1 = (i - 1) + (j - i)
      BY <1>1, <1>3
    <3>2. a \in Nat /\ e \in Nat
      BY <1>2, <3>1
    <3>3. (j - 1) * d = a + e
      BY <1>2, <3>1
    <3>4. e >= d
      BY <1>2, <3>1
    <3> QED BY <3>2, <3>3, <3>4
  <2>2. Source(i) = a \div u + 1 /\ Source(j) = (a + e) \div u + 1
    BY <2>1
  <2> HIDE DEF a, e, Source
  <2>3. (a + e) \div u >= a \div u + 1
    <3>1. e >= u
      BY <1>2, <2>1
    <3> QED BY <1>2, <2>1, <3>1, NextUnit
  <2>4. a \div u \in Nat /\ (a + e) \div u \in Nat
    <3>1. a + e \in Int /\ a + e >= 0 /\ a \in Int /\ a >= 0
      BY <2>1
    <3> QED BY <1>2, <3>1, ModAndDiv
  <2> QED BY <2>2, <2>3, <2>4
<1>4. Source(1) = 1 /\ Source(MaximumPoints) = Len(line)
  <2>1. (0 * d) \div u = 0
    BY <1>2
  <2>2. (u * d) \div u = d
    BY <1>2
  <2> QED BY <1>1, <2>1, <2>2 DEF u, d
<1>5. \A i \in 1 .. MaximumPoints : Source(i) \in 1 .. Len(line)
  <2> SUFFICES ASSUME NEW i \in 1 .. MaximumPoints PROVE Source(i) \in 1 .. Len(line)
    OBVIOUS
  <2> HIDE DEF Source
  <2>1. 1 \in 1 .. MaximumPoints /\ MaximumPoints \in 1 .. MaximumPoints
    BY <1>1
  <2>2. CASE i = MaximumPoints
    <3>1. Len(line) >= 1
      BY <1>1, SeriesAssumption
    <3> QED BY <1>1, <1>4, <2>2, <3>1
  <2>3. CASE i # MaximumPoints
    <3>1. i < MaximumPoints
      BY <1>1, <2>3
    <3>2. Source(i) \in Nat /\ 1 <= Source(i) /\ Source(i) < Source(MaximumPoints)
      BY <1>3, <2>1, <3>1
    <3> QED BY <1>1, <1>4, <3>2
  <2> QED BY <2>2, <2>3
<1> HIDE DEF Source
<1>6. source \in [1 .. MaximumPoints -> 1 .. Len(line)]
  BY <1>5
<1>7. \A i, j \in 1 .. MaximumPoints : i < j => source[i] < source[j]
  BY <1>3
<1>8. source[MaximumPoints] = Len(line)
  BY <1>1, <1>4, SeriesAssumption
<1> HIDE DEF source
<1>9. /\ IsLine(Kept(line, source, MaximumPoints), stars)
      /\ ToSet(Kept(line, source, MaximumPoints)) \subseteq ToSet(line)
  BY <1>1, <1>6, <1>7, <1>8, KeptLine
<1>10. Kept(line, source, MaximumPoints) = Spread(line)
  BY DEF Kept, Spread, Source, source, u, d
<1> QED BY <1>9, <1>10

-----------------------------------------------------------------------------
(* The calendar *)

\* Every day lies in the month that is chosen for it, so that a cutoff and the
\* buckets of a curve are dates (history.go 92-108).
THEOREM MonthHasDay ==
    ASSUME NEW day \in Int
    PROVE  /\ Month(day) \in Int
           /\ FirstOf(Month(day)) <= day /\ day < FirstOf(Month(day) + 1)
<1> DEFINE guess == ((day + 719468) * 1600) \div 48699
           IsMonth(m) == FirstOf(m) <= day /\ day < FirstOf(m + 1)
<1>1. guess \in Int
  OBVIOUS
<1>2. FirstOf(guess - 1) <= day
  BY DEF FirstOf
<1>3. day < FirstOf(guess + 2)
  BY DEF FirstOf
<1> HIDE DEF guess
<1>4. FirstOf(guess) \in Int /\ FirstOf(guess + 1) \in Int
  BY <1>1 DEF FirstOf
<1>5. \E m \in guess - 1 .. guess + 1 : IsMonth(m)
  <2>1. /\ guess - 1 \in guess - 1 .. guess + 1 /\ (guess - 1) + 1 = guess
        /\ guess \in guess - 1 .. guess + 1
        /\ guess + 1 \in guess - 1 .. guess + 1 /\ (guess + 1) + 1 = guess + 2
    BY <1>1
  <2>2. IsMonth(guess - 1) \/ IsMonth(guess) \/ IsMonth(guess + 1)
    BY <1>2, <1>3, <1>4, <2>1
  <2> QED BY <2>1, <2>2
<1>6. Month(day) = CHOOSE m \in guess - 1 .. guess + 1 : IsMonth(m)
  BY DEF Month, guess
<1>7. Month(day) \in guess - 1 .. guess + 1 /\ IsMonth(Month(day))
  <2> HIDE DEF IsMonth
  <2> QED BY <1>5, <1>6
<1> QED BY <1>1, <1>7

LEMMA CutoffIsDay ==
    ASSUME NEW range \in {"3m", "1y", "all"}, NEW today \in Int
    PROVE  Cutoff(range, today) \in Int
<1>1. ASSUME NEW m \in Int PROVE FirstOf(m) \in Int
  BY DEF FirstOf
<1>2. ASSUME NEW n \in Int PROVE MonthsBefore(today, n) \in Int
  <2>1. Month(today) \in Int /\ Month(today) - n \in Int
    BY MonthHasDay
  <2>2. FirstOf(Month(today)) \in Int /\ FirstOf(Month(today) - n) \in Int
    BY <1>1, <2>1
  <2> QED BY <2>2 DEF MonthsBefore
<1> QED BY <1>2 DEF Cutoff

\* The points selected for a range are points of the curve, in order, never fall, and
\* end with its last one (history.go 71-133).
THEOREM SelectionsRise ==
    ASSUME NEW stars \in Nat, NEW line, IsLine(line, stars),
           NEW range \in {"3m", "1y", "all"}, NEW today \in Int
    PROVE  /\ IsLine(SelectRange(line, range, today), stars)
           /\ ToSet(SelectRange(line, range, today)) \subseteq ToSet(line)
<1> DEFINE recent == Recent(line, Cutoff(range, today))
           grouped == Grouped(recent, range)
<1>1. IsLine(recent, stars) /\ ToSet(recent) \subseteq ToSet(line)
  BY CutoffIsDay, RecentIsLine
<1>2. IsLine(grouped, stars) /\ ToSet(grouped) \subseteq ToSet(line)
  <2> HIDE DEF recent
  <2>1. IsLine(grouped, stars) /\ ToSet(grouped) \subseteq ToSet(recent)
    BY <1>1, GroupedIsLine
  <2> HIDE DEF grouped
  <2> QED BY <1>1, <2>1
<1>3. Len(grouped) \in Nat /\ MaximumPoints \in Nat
  BY <1>2, SeriesAssumption DEF IsLine
<1> HIDE DEF grouped
<1>4. CASE Len(grouped) <= MaximumPoints
  BY <1>2, <1>4 DEF SelectRange, grouped
<1>5. CASE Len(grouped) > MaximumPoints
  <2>1. IsLine(Spread(grouped), stars) /\ ToSet(Spread(grouped)) \subseteq ToSet(grouped)
    BY <1>2, <1>5, SpreadIsLine
  <2>2. SelectRange(line, range, today) = Spread(grouped)
    BY <1>3, <1>5 DEF SelectRange, grouped
  <2> QED BY <1>2, <2>1, <2>2
<1> QED BY <1>3, <1>4, <1>5

-----------------------------------------------------------------------------
(* The official history *)

CountsOn(parts, day, n) == [i \in 1 .. n |-> CountOn(parts[i], day)]

DaysOfParts(parts, n) == UNION {DOMAIN parts[i] : i \in 1 .. n}

\* What is merged has on each day the sum of what the parts have.
LEMMA MergeIsSum ==
    ASSUME NEW n \in Nat, NEW parts, Len(parts) = n, \A i \in 1 .. n : IsSeries(parts[i]),
           Merge(parts) # Corrupt
    PROVE  /\ Merge(parts) = [day \in DaysOfParts(parts, n) |-> Merge(parts)[day]]
           /\ \A day \in DaysOfParts(parts, n) :
                 \E h : Sums(h, CountsOn(parts, day, n), 1 .. n) /\ Merge(parts)[day] = h[1 .. n]
<1> DEFINE days == UNION {DOMAIN parts[i] : i \in 1 .. n}
           Count(day) == MapThenSumSet(LAMBDA i : CountOn(parts[i], day), 1 .. n)
<1>1. Merge(parts) = [day \in days |-> Count(day)]
  <2>1. Merge(parts) = IF \E day \in days : Count(day) >= Words THEN Corrupt
                       ELSE [day \in days |-> Count(day)]
    BY DEF Merge
  <2> HIDE DEF days, Count
  <2> QED BY <2>1
<1>2. IsFiniteSet(1 .. n)
  BY FS_Interval
<1>3. ASSUME NEW day \in days
      PROVE  \E h : Sums(h, CountsOn(parts, day, n), 1 .. n) /\ Count(day) = h[1 .. n]
  <2> DEFINE Op(i) == CountOn(parts[i], day)
             Some(s) == CHOOSE x \in s : TRUE
             f == [i \in 1 .. n |-> Op(i)]
             IsIter(h) == h = [s \in SUBSET (1 .. n) |->
                                  IF s = {} THEN 0 ELSE Op(Some(s)) + h[s \ {Some(s)}]]
             iter == CHOOSE h : IsIter(h)
  <2>1. Count(day) = iter[1 .. n]
    BY DEF MapThenSumSet, MapThenFoldSet
  <2>2. \A i \in 1 .. n : f[i] \in Nat
    BY DEF CountOn, IsSeries
  <2>3. \A s \in SUBSET (1 .. n) : s # {} => Op(Some(s)) = f[Some(s)]
    <3>1. \A s \in SUBSET (1 .. n) : s # {} => Some(s) \in s
      OBVIOUS
    <3> HIDE DEF Some, Op
    <3> QED BY <3>1
  <2>4. ASSUME NEW h PROVE IsIter(h) <=> IsSumming(h, f, SUBSET (1 .. n))
    <3> DEFINE A == [s \in SUBSET (1 .. n) |->
                        IF s = {} THEN 0 ELSE Op(Some(s)) + h[s \ {Some(s)}]]
               B == [s \in SUBSET (1 .. n) |->
                        IF s = {} THEN 0 ELSE f[Some(s)] + h[s \ {Some(s)}]]
    <3>1. A = B
      <4> HIDE DEF Some, Op, f
      <4> QED BY <2>3
    <3>2. IsIter(h) <=> (h = A)
      OBVIOUS
    <3>3. IsSumming(h, f, SUBSET (1 .. n)) <=> (h = B)
      <4> HIDE DEF f
      <4> QED BY DEF IsSumming
    <3> HIDE DEF A, B, IsIter, f
    <3> QED BY <3>1, <3>2, <3>3
  <2>5. f = CountsOn(parts, day, n)
    BY DEF CountsOn
  <2> HIDE DEF f, IsIter
  <2>6. PICK h : IsSumming(h, f, SUBSET (1 .. n))
    BY <1>2, SummingExists
  <2>7. IsSumming(iter, f, SUBSET (1 .. n))
    BY <2>4, <2>6
  <2> HIDE DEF iter
  <2>8. Sums(iter, f, 1 .. n)
    BY <1>2, <2>2, <2>7 DEF Sums
  <2> HIDE DEF Count
  <2> QED BY <2>1, <2>5, <2>8
<1>4. days = DaysOfParts(parts, n)
  BY DEF DaysOfParts
<1> HIDE DEF days, Count
<1>5. \A day \in days : Merge(parts)[day] = Count(day)
  BY <1>1
<1>6. Merge(parts) = [day \in days |-> Merge(parts)[day]]
  BY <1>1
<1> QED BY <1>3, <1>4, <1>5, <1>6

\* What is merged of any number of series is a series, or fails.
LEMMA MergeIsSeries ==
    ASSUME NEW n \in Nat, NEW parts, Len(parts) = n, \A i \in 1 .. n : IsSeries(parts[i]),
           Merge(parts) # Corrupt
    PROVE  IsSeries(Merge(parts))
<1> DEFINE days == DaysOfParts(parts, n)
           merged == Merge(parts)
<1>1. IsFiniteSet(days) /\ days \subseteq Nat
  <2> DEFINE T == {DOMAIN parts[i] : i \in 1 .. n}
             f == [i \in 1 .. n |-> DOMAIN parts[i]]
  <2>1. f \in Surjection(1 .. n, T)
    BY DEF Surjection
  <2>2. \A t \in T : IsFiniteSet(t) /\ t \subseteq Nat
    BY DEF IsSeries
  <2>3. IsFiniteSet(1 .. n)
    BY FS_Interval
  <2> HIDE DEF T, f
  <2>4. IsFiniteSet(T)
    BY <2>1, <2>3, FS_Surjection
  <2>5. IsFiniteSet(UNION T) /\ UNION T \subseteq Nat
    BY <2>2, <2>4, FS_UNION
  <2> QED BY <2>5 DEF T, DaysOfParts
<1>2. ASSUME NEW day \in days PROVE merged[day] \in Nat \ {0}
  <2> DEFINE f == CountsOn(parts, day, n)
  <2>1. PICK h : Sums(h, f, 1 .. n) /\ merged[day] = h[1 .. n]
    BY MergeIsSum
  <2>2. \E i \in 1 .. n : f[i] # 0
    <3>1. PICK i \in 1 .. n : day \in DOMAIN parts[i]
      BY DEF DaysOfParts
    <3>2. parts[i][day] # 0
      BY <3>1 DEF IsSeries
    <3> QED BY <3>1, <3>2 DEF CountOn, CountsOn
  <2> HIDE DEF f
  <2> QED BY <2>1, <2>2, SumOfNaturals DEF Sums
<1>3. merged = [day \in days |-> merged[day]]
  BY MergeIsSum
<1> HIDE DEF days, merged
<1>4. IsSeries(merged)
  BY <1>1, <1>2, <1>3 DEF IsSeries
<1> QED BY <1>4 DEF merged

AreNone(f, R) == \A x \in R : f[x] = 0

LEMMA SumOfNone ==
    ASSUME NEW S, NEW f, NEW g, Sums(g, f, S), NEW R \in SUBSET S, AreNone(f, R)
    PROVE  g[R] = 0
<1> DEFINE F == {s \in SUBSET R : g[s] = 0}
<1>1. {} \in F
  BY DEF Sums, IsSumming
<1>2. ASSUME NEW s \in SUBSET R, s # {}, \A x \in s : s \ {x} \in F PROVE s \in F
  <2>1. PICK x \in s : s \ {x} \in F
    BY <1>2
  <2>2. s \in SUBSET S
    OBVIOUS
  <2>3. g[s] = f[x] + g[s \ {x}]
    BY <2>2, PartWithout
  <2> QED BY <2>1, <2>3 DEF AreNone
<1>3. IsFiniteSet(R)
  BY FS_Subset DEF Sums
<1>4. SUBSET R \subseteq F
  <2> HIDE DEF F
  <2> QED BY <1>1, <1>2, <1>3, SubsetInduction
<1> QED BY <1>4

\* A day that only one of the parts has keeps the count it has there.
LEMMA MergeKeepsDay ==
    ASSUME NEW n \in Nat, NEW parts, Len(parts) = n, \A i \in 1 .. n : IsSeries(parts[i]),
           Merge(parts) # Corrupt,
           NEW k \in 1 .. n, NEW day \in DOMAIN parts[k],
           \A i \in 1 .. n : i # k => day \notin DOMAIN parts[i]
    PROVE  day \in DOMAIN Merge(parts) /\ Merge(parts)[day] = parts[k][day]
<1> DEFINE f == CountsOn(parts, day, n)
           R == (1 .. n) \ {k}
<1>1. day \in DaysOfParts(parts, n)
  BY DEF DaysOfParts
<1>2. PICK h : Sums(h, f, 1 .. n) /\ Merge(parts)[day] = h[1 .. n]
  BY <1>1, MergeIsSum
<1>3. DOMAIN Merge(parts) = DaysOfParts(parts, n)
  <2> DEFINE merged == Merge(parts)
  <2>1. merged = [d \in DaysOfParts(parts, n) |-> merged[d]]
    BY MergeIsSum
  <2> HIDE DEF merged
  <2>2. DOMAIN merged = DaysOfParts(parts, n)
    BY <2>1
  <2> QED BY <2>2 DEF merged
<1>4. f[k] = parts[k][day] /\ AreNone(f, R)
  BY DEF CountsOn, CountOn, AreNone
<1>5. parts[k][day] \in Nat
  BY DEF IsSeries
<1> DEFINE T == 1 .. n
<1>6. T \ {k} = R /\ k \in T /\ R \in SUBSET T /\ Sums(h, f, T)
  BY <1>2
<1> HIDE DEF f, R, T
<1>7. h[T] = f[k] + h[T \ {k}]
  BY <1>6, SumWithout
<1>8. h[R] = 0
  BY <1>4, <1>6, SumOfNone
<1>9. Merge(parts)[day] = h[T]
  BY <1>2 DEF T
<1>10. Merge(parts)[day] = parts[k][day]
  <2>1. h[T \ {k}] = 0
    BY <1>6, <1>8
  <2>2. f[k] \in Nat
    BY <1>4, <1>5
  <2>3. h[T] = f[k]
    BY <1>7, <2>1, <2>2
  <2> QED BY <1>4, <1>9, <2>3
<1> QED BY <1>1, <1>3, <1>10, Zenon

LEMMA DaysAreSeries ==
    ASSUME NEW week \in Week, WeekIsValid(week)
    PROVE  IsSeries(DaysOf(week))
<1> DEFINE n == Len(week.days)
           given == {week.start + i - 1 : i \in {j \in DOMAIN week.days : week.days[j] > 0}}
<1>1. /\ week.start \in Nat \ {0} /\ n \in Nat
      /\ DOMAIN week.days = 1 .. n
      /\ \A i \in 1 .. n : week.days[i] \in Int
  BY DEF Week, WeekIsValid
<1>2. IsFiniteSet(given) /\ given \subseteq Nat
  <2> HIDE DEF n
  <2>1. given \subseteq week.start .. week.start + n
    BY <1>1
  <2> HIDE DEF given
  <2>2. week.start \in Int /\ week.start + n \in Int
    BY <1>1
  <2>3. IsFiniteSet(week.start .. week.start + n)
    BY <2>2, FS_Interval
  <2>4. week.start .. week.start + n \subseteq Nat
    BY <1>1
  <2> QED BY <2>1, <2>3, <2>4, FS_Subset
<1>3. \A day \in given : week.days[day - week.start + 1] \in Nat \ {0}
  <2> SUFFICES ASSUME NEW i \in 1 .. n, week.days[i] > 0
               PROVE  week.days[(week.start + i - 1) - week.start + 1] \in Nat \ {0}
    BY <1>1
  <2>1. (week.start + i - 1) - week.start + 1 = i
    BY <1>1
  <2> QED BY <1>1, <2>1
<1>4. DaysOf(week) = [day \in given |-> week.days[day - week.start + 1]]
  BY DEF DaysOf
<1> HIDE DEF given
<1> QED BY <1>2, <1>3, <1>4 DEF IsSeries

Starts(weeks) == {week.start : week \in ToSet(weeks)}

\* Each week that is kept is one of the weeks given, the last with its start.
LEMMA CanonicalIsLast ==
    ASSUME NEW weeks \in Seq(Week)
    PROVE  /\ Canonical(weeks) \in Seq(ToSet(weeks))
           /\ Canonical(weeks) \in Seq(Week)
           /\ \A i \in 1 .. Len(Canonical(weeks)) :
                 \E j \in 1 .. Len(weeks) :
                    /\ Canonical(weeks)[i] = weeks[j]
                    /\ \A k \in 1 .. Len(weeks) : weeks[k].start = weeks[j].start => k <= j
           /\ IsFiniteSet(Starts(weeks)) /\ Starts(weeks) \subseteq Int
           /\ Len(Canonical(weeks)) = Len(InOrder(Starts(weeks)))
           /\ \A i \in 1 .. Len(Canonical(weeks)) :
                 Canonical(weeks)[i].start = InOrder(Starts(weeks))[i]
<1> DEFINE m == Len(weeks)
           S == {week.start : week \in ToSet(weeks)}
           starts == InOrder(S)
           n == Cardinality(S)
           Places(start) == {j \in 1 .. m : weeks[j].start = start}
           canonical == [i \in 1 .. n |-> weeks[Max(Places(starts[i]))]]
<1>1. /\ m \in Nat
      /\ ToSet(weeks) = {weeks[j] : j \in 1 .. m}
      /\ \A j \in 1 .. m : weeks[j] \in Week /\ weeks[j].start \in Int
  <2>1. DOMAIN weeks = 1 .. m /\ m \in Nat
    OBVIOUS
  <2>2. \A j \in 1 .. m : weeks[j] \in Week
    OBVIOUS
  <2>3. \A j \in 1 .. m : weeks[j].start \in Int
    BY <2>2 DEF Week
  <2> HIDE DEF m
  <2> QED BY <2>1, <2>2, <2>3 DEF ToSet
<1>2. IsFiniteSet(S) /\ S \subseteq Int
  <2> DEFINE f == [j \in 1 .. m |-> weeks[j].start]
  <2>1. S = {weeks[j].start : j \in 1 .. m}
    BY <1>1
  <2> HIDE DEF S
  <2>2. f \in Surjection(1 .. m, S)
    BY <2>1 DEF Surjection
  <2> HIDE DEF f
  <2>3. IsFiniteSet(1 .. m)
    <3>1. m \in Int
      BY <1>1
    <3> HIDE DEF m
    <3> QED BY <3>1, FS_Interval
  <2> QED BY <1>1, <2>1, <2>2, <2>3, FS_Surjection
<1>3. \A x \in S : \E j \in 1 .. m : weeks[j].start = x
  BY <1>1
<1> HIDE DEF S
<1>4. n \in Nat /\ starts \in Seq(S) /\ Len(starts) = n /\ DOMAIN starts = 1 .. n
  <2>1. n \in Nat
    BY <1>2, FS_CardinalityType
  <2>2. starts \in Seq(S) /\ Len(starts) = n
    BY <1>2, InOrderLists DEF Lists
  <2> HIDE DEF starts, n
  <2> QED BY <2>1, <2>2
<1>5. \A i \in 1 .. n : starts[i] \in S
  BY <1>4
<1> HIDE DEF starts, n, m
<1>6. ASSUME NEW i \in 1 .. n
      PROVE  /\ Places(starts[i]) # {}
             /\ Max(Places(starts[i])) \in 1 .. m
             /\ weeks[Max(Places(starts[i]))].start = starts[i]
             /\ \A k \in 1 .. m : weeks[k].start = starts[i] => k <= Max(Places(starts[i]))
  <2> DEFINE I == Places(starts[i])
  <2>1. I # {}
    BY <1>3, <1>5
  <2>2. IsFiniteSet(I) /\ I \subseteq Int
    <3>1. I \in SUBSET (1 .. m) /\ 1 .. m \subseteq Int
      OBVIOUS
    <3>2. IsFiniteSet(1 .. m)
      BY <1>1, FS_Interval
    <3> HIDE DEF I
    <3> QED BY <3>1, <3>2, FS_Subset
  <2> HIDE DEF I
  <2>3. Max(I) \in I /\ \A y \in I : y <= Max(I)
    BY <2>1, <2>2, MaxOfFinite
  <2> QED BY <2>1, <2>3 DEF I
<1>7. Canonical(weeks) = canonical
  <2>1. Canonical(weeks) = [i \in 1 .. n |->
            weeks[SelectLastInSeq(weeks, LAMBDA week : week.start = starts[i])]]
    BY <1>4 DEF Canonical, starts, S
  <2>2. \A i \in 1 .. n :
           SelectLastInSeq(weeks, LAMBDA week : week.start = starts[i]) = Max(Places(starts[i]))
    BY <1>6 DEF SelectLastInSeq, m
  <2> HIDE DEF Places
  <2> QED BY <2>1, <2>2
<1>8. \A i \in 1 .. n : canonical[i] = weeks[Max(Places(starts[i]))]
  OBVIOUS
<1>9. DOMAIN canonical = 1 .. n /\ canonical = [i \in 1 .. n |-> canonical[i]]
  OBVIOUS
<1> HIDE DEF canonical, Places
<1>10. \A i \in 1 .. n : canonical[i] \in Week /\ canonical[i] \in ToSet(weeks)
  BY <1>1, <1>6, <1>8
<1>11. canonical \in [1 .. n -> Week] /\ canonical \in [1 .. n -> ToSet(weeks)]
  BY <1>9, <1>10
<1>12. canonical \in Seq(Week) /\ canonical \in Seq(ToSet(weeks)) /\ Len(canonical) = n
  BY <1>4, <1>11
<1>13. ASSUME NEW i \in 1 .. n
       PROVE \E j \in 1 .. m :
                /\ canonical[i] = weeks[j]
                /\ \A k \in 1 .. m : weeks[k].start = weeks[j].start => k <= j
  BY <1>6, <1>8
<1>14. \A i \in 1 .. n : canonical[i].start = starts[i]
  BY <1>6, <1>8
<1>15. S = Starts(weeks)
  BY DEF S, Starts
<1>16. starts = InOrder(Starts(weeks))
  BY <1>15 DEF starts
<1> QED BY <1>2, <1>4, <1>7, <1>12, <1>13, <1>14, <1>15, <1>16 DEF m

LEMMA CanonicalStarts ==
    ASSUME NEW weeks \in Seq(Week)
    PROVE  Starts(Canonical(weeks)) = Starts(weeks)
<1> DEFINE c == Canonical(weeks)
           S == Starts(weeks)
           starts == InOrder(S)
<1>1. /\ c \in Seq(Week) /\ IsFiniteSet(S) /\ S \subseteq Int
      /\ Len(c) = Len(starts) /\ \A i \in 1 .. Len(c) : c[i].start = starts[i]
  BY CanonicalIsLast
<1>2. Lists(starts, S)
  BY <1>1, InOrderLists
<1> HIDE DEF c, S, starts
<1>3. DOMAIN c = 1 .. Len(c) /\ DOMAIN starts = 1 .. Len(c)
  <2>1. DOMAIN c = 1 .. Len(c)
    BY <1>1
  <2>2. starts \in Seq(S)
    BY <1>2 DEF Lists
  <2>3. DOMAIN starts = 1 .. Len(starts)
    BY <2>2
  <2> QED BY <1>1, <2>1, <2>3
<1>4. \A i \in 1 .. Len(c) : starts[i] \in S
  <2>1. starts \in Seq(S) /\ Len(starts) = Len(c)
    BY <1>1, <1>2 DEF Lists
  <2> QED BY <2>1
<1>5. \A x : x \in Starts(c) <=> \E i \in 1 .. Len(c) : x = c[i].start
  BY <1>3 DEF Starts, ToSet
<1>6. \A x \in S : \E i \in 1 .. Len(c) : starts[i] = x
  BY <1>1, <1>2 DEF Lists
<1>7. \A x : x \in Starts(c) <=> x \in S
  <2>1. \A i \in 1 .. Len(c) : c[i].start = starts[i]
    BY <1>1
  <2>2. ASSUME NEW x \in Starts(c) PROVE x \in S
    <3>1. PICK i \in 1 .. Len(c) : x = c[i].start
      BY <1>5
    <3> QED BY <1>4, <2>1, <3>1
  <2>3. ASSUME NEW x \in S PROVE x \in Starts(c)
    <3>1. PICK i \in 1 .. Len(c) : starts[i] = x
      BY <1>6
    <3> QED BY <1>5, <2>1, <3>1
  <2> QED BY <2>2, <2>3
<1>8. Starts(c) = S
  BY <1>7
<1> QED BY <1>8 DEF c, S

\* Weeks that were made canonical stay as they are.
LEMMA CanonicalTwice ==
    ASSUME NEW weeks \in Seq(Week)
    PROVE  Canonical(Canonical(weeks)) = Canonical(weeks)
<1> DEFINE c == Canonical(weeks)
           d == Canonical(c)
           S == Starts(weeks)
           starts == InOrder(S)
<1>1. /\ c \in Seq(Week) /\ c \in Seq(ToSet(weeks))
      /\ IsFiniteSet(S) /\ S \subseteq Int
      /\ Len(c) = Len(starts) /\ \A i \in 1 .. Len(c) : c[i].start = starts[i]
  BY CanonicalIsLast
<1>2. Lists(starts, S)
  BY <1>1, InOrderLists
<1> HIDE DEF c, S
<1>3. /\ d \in Seq(Week) /\ Len(d) = Len(InOrder(Starts(c)))
      /\ \A i \in 1 .. Len(d) : d[i].start = InOrder(Starts(c))[i]
      /\ \A i \in 1 .. Len(d) : \E j \in 1 .. Len(c) : d[i] = c[j]
  BY <1>1, CanonicalIsLast
<1> HIDE DEF starts, d
<1>4. /\ Len(c) \in Nat /\ DOMAIN c = 1 .. Len(c) /\ DOMAIN starts = 1 .. Len(c)
      /\ \A i \in 1 .. Len(c) : starts[i] \in S /\ starts[i] \in Int
      /\ \A x \in S : \E i \in 1 .. Len(c) : starts[i] = x
      /\ \A i, j \in 1 .. Len(c) : i < j => starts[i] < starts[j]
  <2>1. Len(c) \in Nat /\ DOMAIN c = 1 .. Len(c)
    BY <1>1
  <2>2. starts \in Seq(S)
    BY <1>2 DEF Lists
  <2>3. DOMAIN starts = 1 .. Len(starts) /\ \A i \in 1 .. Len(starts) : starts[i] \in S
    BY <2>2
  <2> QED BY <1>1, <1>2, <2>1, <2>3 DEF Lists
<1>6. Starts(c) = S
  BY CanonicalStarts DEF c, S
<1>7. InOrder(Starts(c)) = starts
  BY <1>6 DEF starts
<1>8. Len(d) = Len(c) /\ \A i \in 1 .. Len(c) : d[i].start = starts[i]
  BY <1>1, <1>3, <1>7
<1>9. ASSUME NEW i \in 1 .. Len(c) PROVE d[i] = c[i]
  <2>1. PICK j \in 1 .. Len(c) : d[i] = c[j]
    BY <1>3, <1>8
  <2>2. starts[j] = starts[i]
    BY <1>1, <1>8, <2>1
  <2>3. ~(i < j) /\ ~(j < i)
    BY <1>4, <2>2
  <2>4. i = j
    BY <1>4, <2>3
  <2> QED BY <2>1, <2>4
<1>10. c \in [1 .. Len(c) -> Week] /\ d \in [1 .. Len(c) -> Week]
  BY <1>1, <1>3, <1>8
<1>11. d = c
  BY <1>9, <1>10
<1> QED BY <1>11 DEF c, d

\* The weeks that are kept have the events of the weeks they were read from: what was
\* accepted once is not refused later (official.go 15-52, official_history.go 408-423).
THEOREM KeptWeeksHaveEvents ==
    ASSUME NEW weeks \in Seq(Week), OfficialEvents(weeks) # Corrupt
    PROVE  OfficialEvents(Canonical(weeks)) = OfficialEvents(weeks)
<1>1. \A week \in ToSet(weeks) : WeekIsValid(week)
  BY DEF OfficialEvents
<1>2. ToSet(Canonical(weeks)) \subseteq ToSet(weeks)
  <2>1. Canonical(weeks) \in Seq(ToSet(weeks))
    BY CanonicalIsLast
  <2> DEFINE S == ToSet(weeks)
             c == Canonical(weeks)
  <2> HIDE DEF S, c
  <2>2. DOMAIN c = 1 .. Len(c) /\ \A i \in 1 .. Len(c) : c[i] \in S
    BY <2>1 DEF S, c
  <2> QED BY <2>2 DEF ToSet, S, c
<1> QED BY <1>1, <1>2, CanonicalTwice DEF OfficialEvents

\* The events of weeks are a series, or an error (official.go 15-52).
THEOREM OfficialIsSeries ==
    ASSUME NEW weeks \in Seq(Week), OfficialEvents(weeks) # Corrupt
    PROVE  IsSeries(OfficialEvents(weeks))
<1> DEFINE canonical == Canonical(weeks)
           n == Len(canonical)
           parts == [i \in DOMAIN canonical |-> DaysOf(canonical[i])]
<1>1. \A week \in ToSet(weeks) : WeekIsValid(week)
  BY DEF OfficialEvents
<1>2. OfficialEvents(weeks) = Merge(parts)
  BY <1>1 DEF OfficialEvents
<1>3. canonical \in Seq(ToSet(weeks)) /\ canonical \in Seq(Week)
  BY CanonicalIsLast
<1> HIDE DEF canonical
<1>4. n \in Nat /\ DOMAIN canonical = 1 .. n
  BY <1>3
<1>5. \A i \in 1 .. n : canonical[i] \in Week /\ WeekIsValid(canonical[i])
  BY <1>1, <1>3, <1>4
<1>6. Len(parts) = n /\ \A i \in 1 .. n : parts[i] = DaysOf(canonical[i])
  <2> HIDE DEF n
  <2> QED BY <1>4
<1>7. \A i \in 1 .. n : IsSeries(parts[i])
  BY <1>5, <1>6, DaysAreSeries
<1> HIDE DEF n, parts
<1> QED BY <1>2, <1>4, <1>6, <1>7, MergeIsSeries

-----------------------------------------------------------------------------
(* The curve by definition *)

\* The share of the stars that is due to a sum of events, to the nearest.
Share(sum, total, stars) == (2 * stars * sum + total) \div (2 * total)

LEMMA ProductsGrow ==
    ASSUME NEW a \in Nat, NEW b \in Nat, NEW c \in Nat, a <= b
    PROVE  c * a \in Nat /\ c * b \in Nat /\ c * a <= c * b
<1>1. PICK d \in Nat : b = a + d
  <2>1. b - a \in Nat /\ b = a + (b - a)
    OBVIOUS
  <2> QED BY <2>1
<1>2. c * b = c * a + c * d
  BY <1>1
<1>3. c * a \in Nat /\ c * d \in Nat /\ c * b \in Nat
  OBVIOUS
<1> QED BY <1>2, <1>3

LEMMA SharesOfUnits ==
    ASSUME NEW x \in Nat, NEW y \in Nat, x <= y, NEW u \in Nat \ {0}
    PROVE  x \div u \in Nat /\ x \div u <= y \div u
OBVIOUS

LEMMA ShareOfAll ==
    ASSUME NEW total \in Nat \ {0}, NEW stars \in Nat
    PROVE  Share(total, total, stars) = stars
<1> DEFINE u == 2 * total
<1>1. u \in Nat \ {0} /\ 2 * stars * total = stars * u
  OBVIOUS
<1>2. total < u /\ total \in Nat
  OBVIOUS
<1> HIDE DEF u
<1>3. (stars * u + total) \div u = stars
  BY <1>1, <1>2
<1> QED BY <1>1, <1>3 DEF Share, u

\* As long as no product wraps, the share is what the code estimates, and the more
\* of the events the larger; with all of them it is all of the stars.
LEMMA SharesGrow ==
    ASSUME NEW total \in Nat \ {0}, NEW stars \in Nat, NEW a \in Nat, NEW b \in Nat,
           a <= b, b <= total
    PROVE  /\ Share(a, total, stars) \in Nat /\ Share(b, total, stars) \in 0 .. stars
           /\ Share(a, total, stars) <= Share(b, total, stars)
<1> DEFINE x == 2 * stars * a
           y == 2 * stars * b
           z == 2 * stars * total
           u == 2 * total
<1>1. 2 * stars \in Nat
  OBVIOUS
<1>2. x \in Nat /\ y \in Nat /\ z \in Nat /\ x <= y /\ y <= z
  BY <1>1, ProductsGrow
<1>3. u \in Nat \ {0} /\ total \in Nat
  OBVIOUS
<1> HIDE DEF x, y, z, u
<1>4. /\ (x + total) \div u \in Nat /\ (y + total) \div u \in Nat
      /\ (x + total) \div u <= (y + total) \div u
      /\ (y + total) \div u <= (z + total) \div u
  <2>1. x + total \in Nat /\ y + total \in Nat /\ z + total \in Nat
    BY <1>2, <1>3
  <2>2. x + total <= y + total /\ y + total <= z + total
    BY <1>2, <1>3
  <2> QED BY <1>3, <2>1, <2>2, SharesOfUnits
<1>5. (z + total) \div u = stars
  BY ShareOfAll DEF Share, z, u
<1> QED BY <1>4, <1>5 DEF Share, x, y, u

LEMMA EstimateIsShare ==
    ASSUME NEW total \in Nat \ {0}, NEW stars \in Nat, NEW sum \in Nat, sum <= total,
           2 * stars * total + total < Words, (2 * total) % Words # 0
    PROVE  /\ Estimate(sum, total, stars) \in Nat
           /\ stars # 0 => Estimate(sum, total, stars) = Share(sum, total, stars)
<1>1. Words \in Nat \ {0}
  BY SeriesAssumption
<1>2. \A n \in Int : n % Words \in Nat
  BY <1>1
<1>3. Estimate(sum, total, stars) \in Nat
  <2> DEFINE v == (stars * sum) % Words
             u == (2 * total) % Words
             t == (2 * v + total) % Words
  <2>1. stars * sum \in Int /\ 2 * total \in Int
    OBVIOUS
  <2>2. v \in Nat /\ u \in Nat \ {0}
    BY <1>2, <2>1
  <2> HIDE DEF v, u
  <2>3. 2 * v + total \in Int
    BY <2>2
  <2>4. t \in Nat
    BY <1>2, <2>3
  <2> HIDE DEF t
  <2>5. t \div u \in Nat
    BY <2>2, <2>4, SharesOfUnits
  <2> QED BY <2>5 DEF Estimate, v, u, t
<1>4. ASSUME stars # 0 PROVE Estimate(sum, total, stars) = Share(sum, total, stars)
  <2> DEFINE p == stars * sum
             q == stars * total
  <2>1. p \in Nat /\ q \in Nat /\ p <= q
    BY ProductsGrow
  <2>2. total <= q
    <3>1. 1 <= stars /\ 1 \in Nat
      BY <1>4
    <3>2. total * 1 <= total * stars
      BY <3>1, ProductsGrow
    <3> QED BY <3>2
  <2>3. 2 * stars * total = 2 * q /\ 2 * stars * sum = 2 * p
    OBVIOUS
  <2> HIDE DEF p, q
  <2>4. 2 * q + total < Words
    BY <2>3
  <2>5. p % Words = p /\ (2 * p + total) % Words = 2 * p + total /\ (2 * total) % Words = 2 * total
    BY <1>1, <2>1, <2>2, <2>4
  <2> QED BY <2>3, <2>5 DEF Estimate, Share, p
<1> QED BY <1>3, <1>4

LEMMA NoShare ==
    ASSUME NEW total \in Nat \ {0}, NEW stars \in Nat
    PROVE  Share(0, total, stars) = 0
<1>1. 2 * stars * 0 = 0
  OBVIOUS
<1>2. (0 + total) \div (2 * total) = 0
  OBVIOUS
<1> QED BY <1>1, <1>2 DEF Share

\* The first days of a list.
FirstDays(days, k) == {days[i] : i \in 1 .. k}

\* The points of the first days, each with its share.
Shares(g, days, total, stars, k) ==
    [i \in 1 .. k |-> [day |-> days[i], count |-> Share(g[FirstDays(days, i)], total, stars)]]

\* What the code has after some days: their sum, its share and the points.
HasShares(sofar, g, days, total, stars, k) ==
    /\ sofar.cumulative = g[FirstDays(days, k)]
    /\ sofar.count = Share(g[FirstDays(days, k)], total, stars)
    /\ sofar.points = Shares(g, days, total, stars, k)

LEMMA SharesAppended ==
    ASSUME NEW g, NEW days, NEW total, NEW stars, NEW k \in Nat
    PROVE  Append(Shares(g, days, total, stars, k),
                  [day |-> days[k + 1], count |-> Share(g[FirstDays(days, k + 1)], total, stars)])
             = Shares(g, days, total, stars, k + 1)
<1> DEFINE P(i) == [day |-> days[i], count |-> Share(g[FirstDays(days, i)], total, stars)]
           A == [i \in 1 .. k |-> P(i)]
           B == [i \in 1 .. k + 1 |-> P(i)]
<1> HIDE DEF P
<1>1. Len(A) = k /\ DOMAIN A = 1 .. k
  OBVIOUS
<1>2. Append(A, P(k + 1)) = [i \in 1 .. k + 1 |-> IF i = k + 1 THEN P(k + 1) ELSE A[i]]
  BY <1>1
<1>3. \A i \in 1 .. k + 1 : (IF i = k + 1 THEN P(k + 1) ELSE A[i]) = P(i)
  OBVIOUS
<1>4. Append(A, P(k + 1)) = B
  <2> HIDE DEF A
  <2> QED BY <1>2, <1>3
<1> QED BY <1>4 DEF Shares, P

LEMMA SmallInWords ==
    ASSUME NEW n \in Nat, n < Words
    PROVE  n % Words = n
BY SeriesAssumption

LEMMA RaisedCount ==
    ASSUME NEW stars \in Nat, NEW estimate \in Nat, NEW before \in Nat, NEW share \in 0 .. stars,
           before <= share, stars # 0 => estimate = share
    PROVE  Smaller(Larger(estimate, before), stars) = share
BY DEF Smaller, Larger

\* Of the next day the code makes the next share.
LEMMA RaisedHasShares ==
    ASSUME NEW series, NEW g, NEW days, NEW total \in Nat \ {0}, NEW stars \in Nat,
           NEW k \in Nat, NEW sofar, HasShares(sofar, g, days, total, stars, k),
           2 * stars * total + total < Words, (2 * total) % Words # 0,
           g[FirstDays(days, k)] \in Nat, series[days[k + 1]] \in Nat,
           g[FirstDays(days, k + 1)] = series[days[k + 1]] + g[FirstDays(days, k)],
           g[FirstDays(days, k + 1)] <= total
    PROVE  HasShares(Raised(sofar, days[k + 1], series, total, stars), g, days, total, stars, k + 1)
<1> DEFINE a == g[FirstDays(days, k)]
           b == g[FirstDays(days, k + 1)]
           x == series[days[k + 1]]
           cumulative == (sofar.cumulative + x) % Words
           estimate == Larger(Estimate(cumulative, total, stars), sofar.count)
           count == Smaller(estimate, stars)
           next == Raised(sofar, days[k + 1], series, total, stars)
<1>1. a \in Nat /\ b \in Nat /\ a <= b /\ b <= total /\ b = x + a /\ x \in Nat
  <2> HIDE DEF a, b, x
  <2>1. a \in Nat /\ x \in Nat /\ b = x + a /\ b <= total
    BY DEF a, b, x
  <2> QED BY <2>1
<1>2. sofar.cumulative = a /\ sofar.count = Share(a, total, stars)
      /\ sofar.points = Shares(g, days, total, stars, k)
  BY DEF HasShares
<1>3. next = [cumulative |-> cumulative, count |-> count,
              points |-> Append(sofar.points, [day |-> days[k + 1], count |-> count])]
  BY DEF Raised
<1> HIDE DEF a, b, x, next
<1>4. cumulative = b
  <2>1. 2 * stars * total \in Nat /\ Words \in Nat \ {0}
    <3>1. 2 * stars \in Nat /\ total \in Nat
      OBVIOUS
    <3> QED BY <3>1, ProductsGrow, SeriesAssumption
  <2>2. b < Words
    <3> DEFINE z == 2 * stars * total
    <3>1. z \in Nat /\ z + total < Words
      BY <2>1
    <3> HIDE DEF z
    <3> QED BY <1>1, <2>1, <3>1
  <2>3. sofar.cumulative + x = b
    BY <1>1, <1>2
  <2>4. b % Words = b
    BY <1>1, <2>1, <2>2, SmallInWords
  <2> QED BY <2>3, <2>4
<1> HIDE DEF cumulative
<1>5. /\ Share(a, total, stars) \in Nat /\ Share(b, total, stars) \in 0 .. stars
      /\ Share(a, total, stars) <= Share(b, total, stars)
  BY <1>1, SharesGrow
<1>6. /\ Estimate(b, total, stars) \in Nat
      /\ stars # 0 => Estimate(b, total, stars) = Share(b, total, stars)
  BY <1>1, EstimateIsShare
<1>7. count = Share(b, total, stars)
  <2> DEFINE e == Estimate(b, total, stars)
             p == Share(a, total, stars)
             q == Share(b, total, stars)
  <2>1. e \in Nat /\ p \in Nat /\ q \in 0 .. stars /\ p <= q /\ (stars # 0 => e = q)
    BY <1>5, <1>6
  <2>2. count = Smaller(Larger(e, p), stars)
    BY <1>2, <1>4
  <2> HIDE DEF e, p, q, count
  <2>3. Smaller(Larger(e, p), stars) = q
    BY <2>1, RaisedCount
  <2> QED BY <2>2, <2>3 DEF q
<1> HIDE DEF count
<1>8. Append(sofar.points, [day |-> days[k + 1], count |-> count]) = Shares(g, days, total, stars, k + 1)
  <2> DEFINE q == Shares(g, days, total, stars, k)
             p == [day |-> days[k + 1], count |-> Share(b, total, stars)]
  <2>1. sofar.points = q
    BY <1>2
  <2>2. [day |-> days[k + 1], count |-> count] = p
    BY <1>7
  <2>3. Append(q, p) = Shares(g, days, total, stars, k + 1)
    BY SharesAppended, Zenon DEF b
  <2> HIDE DEF q, p
  <2> QED BY <2>1, <2>2, <2>3
<1> QED BY <1>3, <1>4, <1>7, <1>8 DEF HasShares, b, next

DaysUpTo(series, day) == {d \in DOMAIN series : d <= day}

\* Each day of the series with its share.
SharedDays(series, g, total, stars) ==
    {[day |-> d, count |-> Share(g[DaysUpTo(series, d)], total, stars)] : d \in DOMAIN series}

\* The first days of a series are the days up to a day.
LEMMA FirstDaysOfSeries ==
    ASSUME NEW series, IsSeries(series), NEW k \in 1 .. Cardinality(DOMAIN series)
    PROVE  LET days == InOrder(DOMAIN series)
           IN /\ FirstDays(days, k) = DaysUpTo(series, days[k])
              /\ FirstDays(days, k) = FirstDays(days, k - 1) \cup {days[k]}
              /\ days[k] \in DOMAIN series
              /\ days[k] \notin FirstDays(days, k - 1)
              /\ k = Cardinality(DOMAIN series) => FirstDays(days, k) = DOMAIN series
<1> DEFINE days == InOrder(DOMAIN series)
           n == Cardinality(DOMAIN series)
<1>1. /\ n \in Nat
      /\ \A i \in 1 .. n : days[i] \in DOMAIN series /\ days[i] \in Int
      /\ \A x \in DOMAIN series : \E i \in 1 .. n : days[i] = x
      /\ \A i, j \in 1 .. n : i < j => days[i] < days[j]
  BY ListFacts
<1> HIDE DEF days, n
<1>2. k \in 1 .. n /\ k - 1 \in Nat
  BY DEF n
<1>3. \A i \in 1 .. k : i \in 1 .. n
  BY <1>1, <1>2
<1>4. FirstDays(days, k) = DaysUpTo(series, days[k])
  <2>1. ASSUME NEW i \in 1 .. k PROVE days[i] \in DaysUpTo(series, days[k])
    <3>1. i = k \/ i < k
      BY <1>2
    <3>2. days[i] \in DOMAIN series /\ days[i] \in Int
      BY <1>1, <1>3
    <3>3. days[i] <= days[k]
      BY <1>1, <1>2, <1>3, <3>1, <3>2
    <3> QED BY <3>2, <3>3 DEF DaysUpTo
  <2>2. ASSUME NEW x \in DaysUpTo(series, days[k]) PROVE x \in FirstDays(days, k)
    <3>1. PICK i \in 1 .. n : days[i] = x
      BY <1>1 DEF DaysUpTo
    <3>2. days[i] <= days[k] /\ days[i] \in Int /\ days[k] \in Int
      BY <1>1, <1>2, <3>1 DEF DaysUpTo
    <3>3. ~(k < i)
      <4>1. k < i => days[k] < days[i]
        BY <1>1, <1>2
      <4> QED BY <3>2, <4>1
    <3>4. i \in 1 .. k
      BY <1>1, <1>2, <3>3
    <3> QED BY <3>1, <3>4 DEF FirstDays
  <2> QED BY <2>1, <2>2 DEF FirstDays
<1>5. FirstDays(days, k) = FirstDays(days, k - 1) \cup {days[k]}
  <2>1. \A i : i \in 1 .. k <=> i \in 1 .. k - 1 \/ i = k
    BY <1>2
  <2> QED BY <2>1 DEF FirstDays
<1>6. days[k] \notin FirstDays(days, k - 1)
  <2>1. ASSUME NEW i \in 1 .. k - 1 PROVE days[i] # days[k]
    <3>1. i \in 1 .. n /\ i < k
      BY <1>1, <1>2
    <3>2. days[i] < days[k] /\ days[i] \in Int /\ days[k] \in Int
      BY <1>1, <1>2, <3>1
    <3> QED BY <3>2
  <2> QED BY <2>1 DEF FirstDays
<1>7. k = n => FirstDays(days, k) = DOMAIN series
  BY <1>1 DEF FirstDays
<1> QED BY <1>1, <1>2, <1>4, <1>5, <1>6, <1>7 DEF days, n

\* After each day the code has the shares up to it.
LEMMA RaisingHasShares ==
    ASSUME NEW series, IsSeries(series), NEW g, Sums(g, series, DOMAIN series),
           NEW total \in Nat \ {0}, total = g[DOMAIN series], NEW stars \in Nat,
           2 * stars * total + total < Words, (2 * total) % Words # 0, NEW iter,
           IsRaising(iter, InOrder(DOMAIN series), series, total, stars,
                     1 .. Cardinality(DOMAIN series))
    PROVE  HasShares(iter[1 .. Cardinality(DOMAIN series)], g, InOrder(DOMAIN series), total, stars,
                     Cardinality(DOMAIN series))
<1> DEFINE days == InOrder(DOMAIN series)
           n == Cardinality(DOMAIN series)
           S == {k \in Nat : k <= n => HasShares(iter[1 .. k], g, days, total, stars, k)}
<1>1. n \in Nat
  BY ListFacts
<1>2. \A k \in 1 .. n :
        /\ FirstDays(days, k) = FirstDays(days, k - 1) \cup {days[k]}
        /\ FirstDays(days, k) \subseteq DOMAIN series
        /\ days[k] \in DOMAIN series /\ days[k] \notin FirstDays(days, k - 1)
  <2> SUFFICES ASSUME NEW k \in 1 .. n
               PROVE  /\ FirstDays(days, k) = FirstDays(days, k - 1) \cup {days[k]}
                      /\ FirstDays(days, k) \subseteq DOMAIN series
                      /\ days[k] \in DOMAIN series /\ days[k] \notin FirstDays(days, k - 1)
    OBVIOUS
  <2>1. /\ FirstDays(days, k) = DaysUpTo(series, days[k])
        /\ FirstDays(days, k) = FirstDays(days, k - 1) \cup {days[k]}
        /\ days[k] \in DOMAIN series
        /\ days[k] \notin FirstDays(days, k - 1)
    BY FirstDaysOfSeries
  <2> HIDE DEF days
  <2>2. DaysUpTo(series, days[k]) \subseteq DOMAIN series
    BY DEF DaysUpTo
  <2> QED BY <2>1, <2>2
<1>3. IsRaising(iter, days, series, total, stars, 1 .. n)
  OBVIOUS
<1> HIDE DEF days, n
<1>4. 0 \in S
  <2>1. 1 .. 0 = {} /\ {} \in SUBSET (1 .. n)
    OBVIOUS
  <2>2. iter[1 .. 0] = Unraised
    BY <1>3, <2>1 DEF IsRaising
  <2>3. FirstDays(days, 0) = {}
    BY <2>1 DEF FirstDays
  <2>4. g[{}] = 0
    BY DEF Sums, IsSumming
  <2>5. Shares(g, days, total, stars, 0) = << >>
    BY <2>1 DEF Shares
  <2>6. HasShares(Unraised, g, days, total, stars, 0)
    <3>1. Share(0, total, stars) = 0
      BY NoShare
    <3>2. Unraised.cumulative = 0 /\ Unraised.count = 0 /\ Unraised.points = << >>
      BY DEF Unraised
    <3> QED BY <2>3, <2>4, <2>5, <3>1, <3>2 DEF HasShares
  <2> QED BY <2>2, <2>6
<1>5. ASSUME NEW k \in Nat, k \in S PROVE k + 1 \in S
  <2> SUFFICES ASSUME k + 1 <= n PROVE HasShares(iter[1 .. k + 1], g, days, total, stars, k + 1)
    OBVIOUS
  <2>1. k <= n /\ k + 1 \in 1 .. n /\ (k + 1) - 1 = k
    BY <1>1
  <2>2. HasShares(iter[1 .. k], g, days, total, stars, k)
    BY <1>5, <2>1
  <2>3. iter[1 .. k + 1] = Raised(iter[1 .. k], days[k + 1], series, total, stars)
    BY <1>1, <1>3, <2>1, RaisedNext
  <2>4. /\ FirstDays(days, k + 1) = FirstDays(days, k) \cup {days[k + 1]}
        /\ FirstDays(days, k + 1) \subseteq DOMAIN series
        /\ days[k + 1] \in DOMAIN series /\ days[k + 1] \notin FirstDays(days, k)
    BY <1>2, <2>1
  <2>5. FirstDays(days, k) = FirstDays(days, k + 1) \ {days[k + 1]}
    BY <2>4
  <2>6. g[FirstDays(days, k + 1)] = series[days[k + 1]] + g[FirstDays(days, k)]
    <3> DEFINE R == FirstDays(days, k + 1)
               D == DOMAIN series
               z == days[k + 1]
    <3>1. R \in SUBSET D /\ z \in R /\ Sums(g, series, D)
      BY <2>4
    <3> HIDE DEF R, D, z
    <3>2. g[R] = series[z] + g[R \ {z}]
      BY <3>1, PartWithout
    <3> QED BY <2>5, <3>2 DEF R, z
  <2>7. /\ g[FirstDays(days, k)] \in Nat /\ g[FirstDays(days, k + 1)] <= total
        /\ series[days[k + 1]] \in Nat
    <3>1. FirstDays(days, k) \in SUBSET DOMAIN series /\ FirstDays(days, k + 1) \in SUBSET DOMAIN series
      BY <2>4
    <3> QED BY <2>4, <3>1, PartIsSmaller DEF Sums
  <2> DEFINE sofar == iter[1 .. k]
  <2>8. HasShares(sofar, g, days, total, stars, k)
    BY <2>2
  <2> HIDE DEF sofar
  <2>9. HasShares(Raised(sofar, days[k + 1], series, total, stars), g, days, total, stars, k + 1)
    BY <2>6, <2>7, <2>8, RaisedHasShares
  <2> QED BY <2>3, <2>9 DEF sofar
<1>6. Nat \subseteq S
  <2> HIDE DEF S
  <2>1. \A k \in Nat : k \in S => k + 1 \in S
    BY <1>5
  <2> QED BY <1>4, <2>1, Induction
<1>7. HasShares(iter[1 .. n], g, days, total, stars, n)
  BY <1>1, <1>6
<1> QED BY <1>7 DEF days, n

\* As long as no product wraps, a curve has a point for each day of its series: the
\* share of the stars that the events up to that day are of all events, to the
\* nearest (history.go 27-67).
THEOREM CurvesAreShares ==
    ASSUME NEW series, IsSeries(series), CanNormalize(series), NEW stars \in Nat,
           NEW g, Sums(g, series, DOMAIN series),
           2 * stars * Total(series) + Total(series) < Words
    PROVE  ToSet(Normalize(series, stars)) = SharedDays(series, g, Total(series), stars)
<1> DEFINE total == Total(series)
           S == DOMAIN series
           days == InOrder(S)
           n == Cardinality(S)
<1>1. total \in Nat /\ total = g[S]
  <2>1. PICK h : IsSumming(h, series, SUBSET S) /\ total = h[S]
    BY TotalIsSum
  <2>2. Sums(h, series, S)
    BY <2>1 DEF Sums
  <2>3. S \in SUBSET S /\ SameOn(series, series, S)
    BY DEF SameOn
  <2>4. total \in Nat
    BY TotalIsNatural
  <2> HIDE DEF S, total
  <2>5. Sums(g, series, S)
    BY DEF S
  <2>6. g[S] = h[S]
    BY <2>2, <2>3, <2>5, SumsOfSame
  <2> QED BY <2>1, <2>4, <2>6
<1>2. 2 * stars * total + total < Words
  OBVIOUS
<1>3. Total(series) % Words = total
  <2> HIDE DEF total
  <2> DEFINE z == 2 * stars * total
  <2>1. z \in Nat
    <3>1. 2 * stars \in Nat
      OBVIOUS
    <3> QED BY <1>1, <3>1, ProductsGrow
  <2> HIDE DEF z
  <2>2. z + total < Words
    BY <1>2 DEF z
  <2>3. total < Words
    BY <1>1, <2>1, <2>2, SeriesAssumption
  <2>4. total % Words = total
    BY <1>1, <2>3, SmallInWords
  <2> QED BY <2>4 DEF total
<1>4. PICK iter : /\ IsRaising(iter, days, series, total, stars, 1 .. n)
                  /\ Normalize(series, stars) = IF total = 0 THEN << >> ELSE Ended(iter[1 .. n].points, stars)
  BY <1>3, CurveIsRaised
<1>5. /\ n \in Nat
      /\ \A i \in 1 .. n : days[i] \in S
      /\ \A x \in S : \E i \in 1 .. n : days[i] = x
  BY ListFacts
<1>6. CASE total = 0
  <2>1. S = {}
    <3>1. \A x \in S : series[x] \in Nat /\ series[x] # 0
      BY DEF IsSeries
    <3> HIDE DEF S, total
    <3>2. Sums(g, series, S)
      BY DEF S
    <3>3. (\E x \in S : series[x] # 0) => g[S] # 0
      BY <3>2, SumOfNaturals DEF Sums
    <3> QED BY <1>1, <1>6, <3>1, <3>3
  <2>2. SharedDays(series, g, total, stars) = {}
    BY <2>1 DEF SharedDays
  <2>3. ToSet(<< >>) = {}
    BY DEF ToSet
  <2> QED BY <1>4, <1>6, <2>2, <2>3
<1>7. CASE total # 0
  <2>1. (2 * total) % Words # 0 /\ total \in Nat \ {0}
    BY <1>1, <1>3, <1>7 DEF CanNormalize
  <2>2. n # 0
    <3> SUFFICES ASSUME n = 0 PROVE FALSE
      OBVIOUS
    <3> HIDE DEF n, S, total
    <3>1. S = {}
      <4>1. \A i \in 1 .. n : FALSE
        OBVIOUS
      <4> QED BY <1>5, <4>1
    <3>2. g[{}] = 0
      <4>1. {} \in SUBSET DOMAIN series
        OBVIOUS
      <4> QED BY <4>1 DEF Sums, IsSumming
    <3> QED BY <1>1, <1>7, <3>1, <3>2
  <2>3. HasShares(iter[1 .. n], g, days, total, stars, n)
    <3> HIDE DEF total
    <3> QED BY <1>1, <1>2, <1>4, <2>1, RaisingHasShares
  <2> DEFINE points == Shares(g, days, total, stars, n)
             P(i) == [day |-> days[i], count |-> Share(g[FirstDays(days, i)], total, stars)]
  <2>4. points = [i \in 1 .. n |-> P(i)] /\ Len(points) = n
    <3> HIDE DEF days, n, total
    <3> QED BY <1>5 DEF Shares
  <2>5. P(n).count = stars
    <3>1. n \in 1 .. n
      BY <1>5, <2>2
    <3>2. FirstDays(days, n) = S
      BY <3>1, FirstDaysOfSeries
    <3>3. Share(total, total, stars) = stars
      BY <2>1, ShareOfAll
    <3> QED BY <1>1, <3>2, <3>3
  <2>6. \A i \in 1 .. n : P(i) = [day |-> days[i], count |-> Share(g[DaysUpTo(series, days[i])], total, stars)]
    BY FirstDaysOfSeries
  <2>7. Ended(points, stars) = points
    <3> HIDE DEF P, points
    <3>1. points[n] = P(n)
      BY <1>5, <2>2, <2>4
    <3>2. [points[n] EXCEPT !.count = stars] = points[n]
      BY <2>5, <3>1 DEF P
    <3>3. Ended(points, stars) = [points EXCEPT ![n] = [points[n] EXCEPT !.count = stars]]
      BY <2>4 DEF Ended
    <3>4. [points EXCEPT ![n] = points[n]] = points
      BY <2>4
    <3> QED BY <3>2, <3>3, <3>4
  <2>8. ToSet(points) = {P(i) : i \in 1 .. n}
    <3> HIDE DEF P, points
    <3> QED BY <2>4 DEF ToSet
  <2>9. {P(i) : i \in 1 .. n} = SharedDays(series, g, total, stars)
    <3> DEFINE Q(d) == [day |-> d, count |-> Share(g[DaysUpTo(series, d)], total, stars)]
    <3>1. \A i \in 1 .. n : P(i) = Q(days[i])
      BY <2>6
    <3>2. SharedDays(series, g, total, stars) = {Q(d) : d \in S}
      BY DEF SharedDays
    <3> HIDE DEF P, Q, S, days, n
    <3>3. \A x : x \in {P(i) : i \in 1 .. n} <=> x \in {Q(d) : d \in S}
      BY <1>5, <3>1
    <3> QED BY <3>2, <3>3
  <2> HIDE DEF points
  <2>10. iter[1 .. n].points = points
    BY <2>3 DEF HasShares, points
  <2> HIDE DEF P
  <2> QED BY <1>4, <1>7, <2>7, <2>8, <2>9, <2>10
<1> QED BY <1>6, <1>7

-----------------------------------------------------------------------------
(* Weeks that do not overlap *)

\* The weeks begin on the same day of the week.
Aligned(weeks, weekday) == \A i \in DOMAIN weeks : weeks[i].start % 7 = weekday

LEMMA WeeksApart ==
    ASSUME NEW a \in Int, NEW b \in Int, a % 7 = b % 7, a < b
    PROVE  a + 7 <= b
OBVIOUS

\* The week has stars on its j-th day, which is this day.
IsStarred(week, j, day) == j \in DOMAIN week.days /\ week.days[j] > 0 /\ day = week.start + j - 1

LEMMA DaysOfWeek ==
    ASSUME NEW week \in Week, WeekIsValid(week)
    PROVE  /\ \A j, day : IsStarred(week, j, day) =>
                 day \in DOMAIN DaysOf(week) /\ DaysOf(week)[day] = week.days[j]
           /\ \A day \in DOMAIN DaysOf(week) :
                 /\ \E j : IsStarred(week, j, day)
                 /\ day \in Int /\ week.start <= day /\ day < week.start + 7
<1> DEFINE n == Len(week.days)
           given == {week.start + i - 1 : i \in {j \in DOMAIN week.days : week.days[j] > 0}}
           Of(day) == week.days[day - week.start + 1]
<1>1. week.start \in Int /\ n \in 1 .. 7 /\ DOMAIN week.days = 1 .. n
  BY DEF Week, WeekIsValid
<1>2. DaysOf(week) = [day \in given |-> Of(day)]
  BY DEF DaysOf
<1> HIDE DEF n
<1>3. \A day : day \in given <=> \E j : IsStarred(week, j, day)
  BY DEF IsStarred
<1>4. ASSUME NEW j, NEW day, IsStarred(week, j, day) PROVE Of(day) = week.days[j]
  <2>1. j \in Int /\ day = week.start + j - 1
    BY <1>1, <1>4 DEF IsStarred
  <2>2. day - week.start + 1 = j
    BY <1>1, <2>1
  <2> QED BY <2>2
<1>5. ASSUME NEW day, NEW j, IsStarred(week, j, day)
      PROVE  day \in Int /\ week.start <= day /\ day < week.start + 7
  <2>1. j \in 1 .. n /\ day = week.start + j - 1
    BY <1>1, <1>5 DEF IsStarred
  <2> QED BY <1>1, <2>1
<1> HIDE DEF given, Of
<1>6. DOMAIN DaysOf(week) = given /\ \A day \in given : DaysOf(week)[day] = Of(day)
  BY <1>2
<1> QED BY <1>3, <1>4, <1>5, <1>6

\* Of canonical weeks that begin on the same day of the week no two overlap, and their
\* events are the days that have stars, each with the count it has in its week
\* (official.go 15-52).
THEOREM EventsOfWeeks ==
    ASSUME NEW weeks \in Seq(Week), OfficialEvents(weeks) # Corrupt, Canonical(weeks) = weeks,
           NEW weekday, Aligned(weeks, weekday)
    PROVE  /\ \A i \in 1 .. Len(weeks) : \A j, day : IsStarred(weeks[i], j, day) =>
                 /\ day \in DOMAIN OfficialEvents(weeks)
                 /\ OfficialEvents(weeks)[day] = weeks[i].days[j]
           /\ \A day \in DOMAIN OfficialEvents(weeks) :
                 \E i \in 1 .. Len(weeks) : \E j : IsStarred(weeks[i], j, day)
           /\ \A i, j \in 1 .. Len(weeks) : weeks[i].start = weeks[j].start => i = j
<1> DEFINE n == Len(weeks)
           parts == [i \in DOMAIN weeks |-> DaysOf(weeks[i])]
           events == OfficialEvents(weeks)
<1>1. \A week \in ToSet(weeks) : WeekIsValid(week)
  BY DEF OfficialEvents
<1>2. n \in Nat /\ DOMAIN weeks = 1 .. n
  OBVIOUS
<1>3. ASSUME NEW i \in 1 .. n PROVE weeks[i] \in Week /\ WeekIsValid(weeks[i]) /\ weeks[i].start \in Int
  <2>1. weeks[i] \in Week
    OBVIOUS
  <2>2. weeks[i] \in ToSet(weeks)
    BY <1>2 DEF ToSet
  <2> QED BY <1>1, <2>1, <2>2 DEF Week
<1>4. ASSUME NEW i \in 1 .. n, NEW j \in 1 .. n, i < j PROVE weeks[i].start < weeks[j].start
  <2>1. /\ IsFiniteSet(Starts(weeks)) /\ Starts(weeks) \subseteq Int
        /\ n = Len(InOrder(Starts(weeks)))
        /\ \A k \in 1 .. n : weeks[k].start = InOrder(Starts(weeks))[k]
    <3> DEFINE c == Canonical(weeks)
               starts == InOrder(Starts(weeks))
    <3>1. /\ IsFiniteSet(Starts(weeks)) /\ Starts(weeks) \subseteq Int
          /\ Len(c) = Len(starts)
          /\ \A k \in 1 .. Len(c) : c[k].start = starts[k]
      BY CanonicalIsLast
    <3>2. c = weeks
      OBVIOUS
    <3> HIDE DEF c, starts
    <3>3. Len(weeks) = Len(starts) /\ \A k \in 1 .. Len(weeks) : weeks[k].start = starts[k]
      BY <3>1, <3>2
    <3> QED BY <3>1, <3>3 DEF starts
  <2>2. Lists(InOrder(Starts(weeks)), Starts(weeks))
    BY <2>1, InOrderLists
  <2> HIDE DEF n
  <2> QED BY <1>4, <2>1, <2>2 DEF Lists
<1>5. events = Merge(parts)
  BY <1>1 DEF OfficialEvents
<1>6. Len(parts) = n /\ \A i \in 1 .. n : parts[i] = DaysOf(weeks[i])
  <2> HIDE DEF n
  <2> QED BY <1>2
<1>7. \A i \in 1 .. n : IsSeries(parts[i])
  BY <1>3, <1>6, DaysAreSeries
<1>8. Merge(parts) # Corrupt
  BY <1>5
<1>9. ASSUME NEW i \in 1 .. n, NEW j \in 1 .. n, i # j, NEW day \in DOMAIN DaysOf(weeks[i])
      PROVE  day \notin DOMAIN DaysOf(weeks[j])
  <2>1. weeks[i].start \in Int /\ weeks[j].start \in Int
    BY <1>3
  <2>2. weeks[i].start % 7 = weeks[j].start % 7
    BY <1>2 DEF Aligned
  <2>3. weeks[i].start + 7 <= weeks[j].start \/ weeks[j].start + 7 <= weeks[i].start
    <3>1. i < j \/ j < i
      BY <1>2, <1>9
    <3>2. weeks[i].start < weeks[j].start \/ weeks[j].start < weeks[i].start
      BY <1>4, <3>1
    <3> QED BY <2>1, <2>2, <3>2, WeeksApart
  <2>4. day \in Int /\ weeks[i].start <= day /\ day < weeks[i].start + 7
    BY <1>3, <1>9, DaysOfWeek
  <2>5. day \in DOMAIN DaysOf(weeks[j]) => weeks[j].start <= day /\ day < weeks[j].start + 7
    BY <1>3, DaysOfWeek
  <2> DEFINE a == weeks[i].start
             b == weeks[j].start
  <2>6. ~(b <= day /\ day < b + 7)
    <3>1. a \in Int /\ b \in Int /\ day \in Int /\ a <= day /\ day < a + 7
          /\ (a + 7 <= b \/ b + 7 <= a)
      BY <2>1, <2>3, <2>4
    <3> HIDE DEF a, b
    <3> QED BY <3>1
  <2> QED BY <2>5, <2>6
<1> HIDE DEF parts, events, n
<1>10. ASSUME NEW i \in 1 .. n, NEW j, NEW day, IsStarred(weeks[i], j, day)
       PROVE  day \in DOMAIN events /\ events[day] = weeks[i].days[j]
  <2>1. day \in DOMAIN parts[i] /\ parts[i][day] = weeks[i].days[j]
    BY <1>3, <1>6, <1>10, DaysOfWeek
  <2>2. \A k \in 1 .. n : k # i => day \notin DOMAIN parts[k]
    BY <1>6, <1>9, <2>1
  <2>3. day \in DOMAIN Merge(parts) /\ Merge(parts)[day] = parts[i][day]
    BY <1>2, <1>6, <1>7, <1>8, <2>1, <2>2, MergeKeepsDay
  <2> QED BY <1>5, <2>1, <2>3
<1>11. ASSUME NEW day \in DOMAIN events
       PROVE  \E i \in 1 .. n : \E j : IsStarred(weeks[i], j, day)
  <2>1. day \in DaysOfParts(parts, n)
    <3>1. events = [d \in DaysOfParts(parts, n) |-> events[d]]
      BY <1>2, <1>5, <1>6, <1>7, <1>8, MergeIsSum
    <3>2. \A d : d \in DOMAIN events => d \in DaysOfParts(parts, n)
      BY <3>1
    <3> QED BY <3>2
  <2>2. PICK i \in 1 .. n : day \in DOMAIN parts[i]
    BY <2>1 DEF DaysOfParts
  <2>3. \E j : IsStarred(weeks[i], j, day)
    BY <1>3, <1>6, <2>2, DaysOfWeek
  <2> QED BY <2>3
<1>12. ASSUME NEW i \in 1 .. n, NEW j \in 1 .. n, weeks[i].start = weeks[j].start PROVE i = j
  <2>1. ~(i < j) /\ ~(j < i)
    BY <1>3, <1>4, <1>12
  <2> QED BY <1>2, <2>1
<1> QED BY <1>10, <1>11, <1>12 DEF events, n
=============================================================================
