------------------------------ MODULE StarSeries ------------------------------
(***************************************************************************)
(* The calculations on a repository's stars, internal/series: merging and  *)
(* storing the counts of its days, the weeks of GitHub's official history  *)
(* spread over their days, the curve calibrated on the stars of today, and *)
(* the selection of its points for a range.                                *)
(*                                                                         *)
(* A day is its number since the Unix epoch.  A series of days is a        *)
(* function from the days that have events to their counts; a curve is a   *)
(* sequence of points in the order of their days.                          *)
(***************************************************************************)
EXTENDS Integers, Sequences, FiniteSets, SequencesExt

CONSTANTS
    Words,              \* the values of a machine word: 2^64
    MaximumPoints,      \* MAXIMUM_HISTORY_POINTS
    Corrupt             \* an error, where a series or a curve is expected

\* server.go:95 accepts a maximum of 1 too, with which history.go:129 divides
\* by zero as soon as there are two points to choose from.
ASSUME SeriesAssumption ==
    /\ Words \in Nat \ {0} /\ Words % 2 = 0
    /\ MaximumPoints \in Nat \ {0, 1}

MaxInt == Words \div 2 - 1

Larger(a, b) == IF a < b THEN b ELSE a
Smaller(a, b) == IF a < b THEN a ELSE b

\* The members of a finite set, each after those that are before it.
Sorted(S, Before(_, _)) ==
    LET rank == [x \in S |-> Cardinality({y \in S : Before(y, x)})]
    IN [i \in 1 .. Cardinality(S) |-> CHOOSE x \in S : rank[x] = i - 1]

InOrder(days) ==
    MapThenFoldSet(LAMBDA day, listed : Append(listed, day), << >>, LAMBDA day : day, Max, days)

\* The members of a sequence at the places, in order.
AtPlaces(list, places) ==
    LET listed == InOrder(places)
    IN [i \in DOMAIN listed |-> list[listed[i]]]

-----------------------------------------------------------------------------
(* Series: codec.go *)

\* Finitely many days, each with a count above 0.
IsSeries(series) ==
    /\ IsFiniteSet(DOMAIN series)
    /\ DOMAIN series \subseteq Nat
    /\ series \in [DOMAIN series -> Nat \ {0}]

CountOn(series, day) == IF day \in DOMAIN series THEN series[day] ELSE 0

\* The series with the count of a day.
Counting(series, day, count) ==
    [d \in DOMAIN series \cup {day} |-> IF d = day THEN count ELSE series[d]]

\* Counts of the same day are added; a sum beyond a word is an error.
Merge(parts) ==
    LET days == UNION {DOMAIN parts[i] : i \in 1 .. Len(parts)}
        Count(day) == MapThenSumSet(LAMBDA i : CountOn(parts[i], day), 1 .. Len(parts))
    IN IF \E day \in days : Count(day) >= Words THEN Corrupt ELSE [day \in days |-> Count(day)]

\* Mutant: each day is counted from the first one.
EncodeFromFirst(series) ==
    LET days == InOrder(DOMAIN series)
        Since(k) == IF k = 1 THEN days[1] ELSE days[k] - days[1]
    IN [i \in 1 .. 2 * Len(days) |->
           IF i % 2 = 1 THEN Since((i + 1) \div 2) ELSE series[days[i \div 2]]]

\* The payload is a sequence of numbers, as its varints are read: the distance
\* from the day before (from the epoch, for the first) and the day's count.
Encode(series) ==
    LET days == InOrder(DOMAIN series)
        Since(k) == IF k = 1 THEN days[1] ELSE days[k] - days[k - 1]
    IN [i \in 1 .. 2 * Len(days) |->
           IF i % 2 = 1 THEN Since((i + 1) \div 2) ELSE series[days[i \div 2]]]

Decode(payload, points) ==
    LET Read(sofar, k) ==
            LET day == sofar.day + payload[2 * k - 1]
            IN [day |-> day, series |-> Counting(sofar.series, day, payload[2 * k])]
        pairs == [k \in 1 .. Len(payload) \div 2 |-> k]
        isValid == \A k \in DOMAIN pairs :
                       payload[2 * k] # 0 /\ (k = 1 \/ payload[2 * k - 1] # 0)
    IN IF Len(payload) = 2 * points /\ isValid
       THEN FoldLeft(Read, [day |-> 0, series |-> << >>], pairs).series
       ELSE Corrupt

-----------------------------------------------------------------------------
(* The official history: official.go.  A week is the day it starts on and   *)
(* the counts of its days; the same week may come several times.            *)

Week == [start : Int, days : Seq(Int)]

WeekIsValid(week) ==
    /\ week.start > 0
    /\ Len(week.days) \in 1 .. 7
    /\ \A i \in DOMAIN week.days : week.days[i] >= 0

\* Mutant: the first week given with a start is kept.
CanonicalFirst(weeks) ==
    LET starts == InOrder({week.start : week \in ToSet(weeks)})
    IN [i \in DOMAIN starts |->
           weeks[SelectInSeq(weeks, LAMBDA week : week.start = starts[i])]]

\* One week per start, the last one given, in order.
Canonical(weeks) ==
    LET starts == InOrder({week.start : week \in ToSet(weeks)})
    IN [i \in DOMAIN starts |->
           weeks[SelectLastInSeq(weeks, LAMBDA week : week.start = starts[i])]]

\* What a week adds to the series: days without stars are left out.
DaysOf(week) ==
    [day \in {week.start + i - 1 : i \in {j \in DOMAIN week.days : week.days[j] > 0}} |->
        week.days[day - week.start + 1]]

OfficialEvents(weeks) ==
    IF \A week \in ToSet(weeks) : WeekIsValid(week)
    THEN LET canonical == Canonical(weeks)
         IN Merge([i \in DOMAIN canonical |-> DaysOf(canonical[i])])
    ELSE Corrupt

-----------------------------------------------------------------------------
(* The curve: history.go *)

Point == [day : Nat, count : Nat]

Total(series) == SumFunction(series)

\* The share of the events up to a day, of the stars of today, rounded.  The
\* products are taken in words and may wrap.
Estimate(cumulative, total, stars) ==
    LET numerator == (stars * cumulative) % Words
    IN ((2 * numerator + total) % Words) \div ((2 * total) % Words)

\* There is no share of a total whose double wraps to 0: the division panics.
CanNormalize(series) ==
    LET total == Total(series) % Words IN total # 0 => (2 * total) % Words # 0

Normalize(series, stars) ==
    LET days == InOrder(DOMAIN series)
        total == Total(series) % Words
        Next(sofar, day) ==
            LET cumulative == (sofar.cumulative + series[day]) % Words
                estimate == Larger(Estimate(cumulative, total, stars), sofar.count)
                count == Smaller(estimate, stars)
            IN [cumulative |-> cumulative, count |-> count,
                points |-> Append(sofar.points, [day |-> day, count |-> count])]
        start == [cumulative |-> 0, count |-> 0, points |-> << >>]
        points == FoldLeft(Next, start, days).points
    IN IF total = 0 THEN << >> ELSE [points EXCEPT ![Len(points)].count = stars]

\* Months are numbered from March of the year 0, so that a leap day is the last
\* day of its year.
FirstOf(month) ==
    LET year == month \div 12
    IN 365 * year + year \div 4 - year \div 100 + year \div 400
       + (153 * (month % 12) + 2) \div 5 - 719468

Month(day) ==
    LET guess == ((day + 719468) * 1600) \div 48699
    IN CHOOSE m \in guess - 1 .. guess + 1 : FirstOf(m) <= day /\ day < FirstOf(m + 1)

\* The same day of an earlier month, or as many days after its end as that
\* month is too short.
MonthsBefore(day, n) == FirstOf(Month(day) - n) + (day - FirstOf(Month(day)))

Cutoff(range, today) ==
    CASE range = "3m" -> MonthsBefore(today, 3)
      [] range = "1y" -> MonthsBefore(today, 12)
      [] range = "all" -> 0

\* Day 0 was a Thursday; ISO weeks begin on Mondays.
Bucket(range, day) ==
    CASE range = "3m" -> day
      [] range = "1y" -> (day + 3) \div 7
      [] range = "all" -> Month(day)

\* Mutant: the distance is taken from one point more, and the last is left out.
SpreadShort(grouped) ==
    LET Source(i) == ((i - 1) * (Len(grouped) - 1)) \div MaximumPoints + 1
    IN [i \in 1 .. MaximumPoints |-> grouped[Source(i)]]

\* MaximumPoints of the points, evenly spread, with the first and the last.
Spread(grouped) ==
    LET Source(i) == ((i - 1) * (Len(grouped) - 1)) \div (MaximumPoints - 1) + 1
    IN [i \in 1 .. MaximumPoints |-> grouped[Source(i)]]

Recent(points, cutoff) == AtPlaces(points, {i \in DOMAIN points : points[i].day >= cutoff})

\* The last point of each bucket.
Grouped(points, range) ==
    AtPlaces(points, {i \in DOMAIN points :
                  \/ i = Len(points)
                  \/ Bucket(range, points[i].day) # Bucket(range, points[i + 1].day)})

\* At most MaximumPoints of these.
SelectRange(points, range, today) ==
    LET grouped == Grouped(Recent(points, Cutoff(range, today)), range)
    IN IF Len(grouped) <= MaximumPoints THEN grouped ELSE Spread(grouped)
==============================================================================
