------------------------------- MODULE StarCard -------------------------------
(***************************************************************************)
(* What the card of a repository shows of its curve, internal/card: the    *)
(* events of its journey, the growth of the last 90 days and the points    *)
(* its line is drawn through.                                              *)
(*                                                                         *)
(* All points of a curve have one source and one precision.  Dates are     *)
(* days: those of a curve and of the coverage are midnights, a repository  *)
(* is created after the midnight of its day and, if on the same day, a     *)
(* card is generated later.  A product of floats is taken as the exact     *)
(* fraction, a quotient as the pair of its terms; of a repository with     *)
(* more than ten thousand million stars the thresholds are those below it. *)
(***************************************************************************)
EXTENDS StarSeries

CONSTANTS
    MaximumDrawn,       \* maximumDrawnPoints
    None                \* no creation date, no growth

\* With four anchors left out, three points must remain to be sampled.
ASSUME CardAssumption ==
    /\ MaximumDrawn \in Nat /\ MaximumDrawn >= 7
    /\ None \notin Point

First(points) == points[1]
Latest(points) == points[Len(points)]

\* The index of the last point on a day or before it, 0 if there is none.
LastBefore(points, day) ==
    Cardinality({i \in DOMAIN points : points[i].day <= day})

\* The first of the arguments with the largest value.
FirstLargest(value) ==
    CHOOSE i \in DOMAIN value : \A j \in DOMAIN value :
        value[j] < value[i] \/ (value[j] = value[i] /\ i <= j)

-----------------------------------------------------------------------------
(* The line *)

\* The line begins with no stars on the day of creation.
AddingCreationBaseline(points, created) ==
    IF created = None \/ created >= First(points).day
    THEN points
    ELSE <<[day |-> created, count |-> 0]>> \o points

\* The bucket of each drawn point but the first and the last, of indexes
\* counted from 0, and the point of it that spans the largest triangle with
\* the point drawn before and the average of the next bucket.
LargestTriangleThreeBuckets(points, threshold) ==
    LET n == Len(points)
        Bound(b) == (b * (n - 2)) \div (threshold - 2) + 1
        X == [i \in 0 .. n - 1 |-> points[i + 1].day - First(points).day]
        Y == [i \in 0 .. n - 1 |-> points[i + 1].count]
        AverageOver(b) ==
            LET from == Smaller(Bound(b + 1), n - 1)
                to == Smaller(Bound(b + 2), n)
            IN from .. Larger(to, from + 1) - 1
        Candidates(b) ==
            LET from == Smaller(Bound(b), n - 2)
                to == Smaller(Bound(b + 1), n - 1)
            IN from .. Larger(to, from + 1) - 1
        Area(b, previous, i) ==
            LET next == AverageOver(b)
                size == Cardinality(next)
                sumX == SumFunctionOnSet(X, next)
                sumY == SumFunctionOnSet(Y, next)
                area == (size * X[previous] - sumX) * (Y[i] - Y[previous])
                        - (X[previous] - X[i]) * (sumY - size * Y[previous])
            IN IF area < 0 THEN -area ELSE area
        Selected(b, previous) == FirstLargest([i \in Candidates(b) |-> Area(b, previous, i)])
        drawn[k \in 1 .. threshold - 1] == IF k = 1 THEN 0 ELSE Selected(k - 2, drawn[k - 1])
    IN IF threshold >= n \/ threshold < 3
       THEN points
       ELSE [k \in 1 .. threshold |->
                IF k = threshold THEN Latest(points) ELSE points[drawn[k] + 1]]

\* Mutant: the points are not sampled again when the anchors need room.
RenderedPointsUnbounded(points, events) ==
    LET anchors == {e.point : e \in {x \in ToSet(events) : x.point # None}}
        sampled == LargestTriangleThreeBuckets(points, MaximumDrawn)
        missing == {p \in anchors : \A q \in ToSet(sampled) : q.day # p.day}
    IN Sorted(ToSet(sampled) \cup missing, LAMBDA p, q : p.day < q.day)

\* The points of the chart's events are drawn as well, in their places.
RenderedPointsWithAnchors(points, events) ==
    LET anchors == {e.point : e \in {x \in ToSet(events) : x.point # None}}
        Missing(base) == {p \in anchors : \A q \in ToSet(base) : q.day # p.day}
        WithAnchors(base) == Sorted(ToSet(base) \cup Missing(base), LAMBDA p, q : p.day < q.day)
        sampled == LargestTriangleThreeBuckets(points, MaximumDrawn)
    IN IF Len(sampled) + Cardinality(Missing(sampled)) > MaximumDrawn
       THEN WithAnchors(LargestTriangleThreeBuckets(points, MaximumDrawn - Cardinality(anchors)))
       ELSE WithAnchors(sampled)

-----------------------------------------------------------------------------
(* The journey *)

LargeScales == {100000, 1000000, 10000000, 100000000, 1000000000}

Thresholds(current) ==
    IF current < 10 THEN <<1, 3, 5, 10>>
    ELSE IF current < 100 THEN <<10, 25, 50, 100>>
    ELSE IF current < 1000 THEN <<10, 100, 250, 500, 1000>>
    ELSE IF current < 10000 THEN <<1000, 2500, 5000, 10000>>
    ELSE IF current < 100000 THEN <<1000, 10000, 25000, 50000, 100000>>
    ELSE LET scale == Max({s \in LargeScales : s <= current})
         IN <<scale \div 10, scale, 5 * (scale \div 2), 5 * scale, 10 * scale>>

MilestonePriority(threshold) ==
    IF threshold \in {10 ^ k : k \in 0 .. 9} THEN 82 ELSE 58

Event(kind, day, point, size, priority) ==
    [kind |-> kind, day |-> day, point |-> point, size |-> size, priority |-> priority]

\* Mutant: the milestone is set on the last point below its threshold.
MilestoneEventsBefore(points, current) ==
    LET Reached(threshold) ==
            SelectInSubSeq(points, 2, Len(points), LAMBDA p : p.count >= threshold)
        IsMilestone(threshold) ==
            /\ First(points).count < threshold
            /\ Reached(threshold) \in 2 .. Len(points) - 1
        Milestone(threshold) ==
            LET point == points[Reached(threshold) - 1]
            IN Event("milestone", point.day, point, threshold, MilestonePriority(threshold))
        thresholds == InOrder({t \in ToSet(Thresholds(current)) : IsMilestone(t)})
    IN [i \in DOMAIN thresholds |-> Milestone(thresholds[i])]

\* A milestone is the first point at its threshold, unless the curve begins
\* above it or reaches it with its last point, which is the current event's.
MilestoneEvents(points, current) ==
    LET Reached(threshold) ==
            SelectInSubSeq(points, 2, Len(points), LAMBDA p : p.count >= threshold)
        IsMilestone(threshold) ==
            /\ First(points).count < threshold
            /\ Reached(threshold) \in 2 .. Len(points) - 1
        Milestone(threshold) ==
            LET point == points[Reached(threshold)]
            IN Event("milestone", point.day, point, threshold, MilestonePriority(threshold))
        thresholds == InOrder({t \in ToSet(Thresholds(current)) : IsMilestone(t)})
    IN [i \in DOMAIN thresholds |-> Milestone(thresholds[i])]

Percent(total, n) == (total * n + 99) \div 100

\* The largest growth in a week that stands out from the four weeks before it,
\* else the largest in a week or, unless that is half as large again, in a day;
\* from the coverage's start on.
GrowthEvent(points, total, coverageStart) ==
    LET Daily(i) == points[i].count - points[i - 1].count
        WeekBefore(i) == LastBefore(points, points[i].day - 7)
        MonthBefore(i) == LastBefore(points, points[i].day - 35)
        Weekly(i) == points[i].count - points[WeekBefore(i)].count
        covered == {i \in 2 .. Len(points) : points[i - 1].day >= coverageStart}
        days == {i \in covered : Daily(i) >= Larger(3, Percent(total, 1))}
        weeks == {i \in covered :
                     /\ WeekBefore(i) > 0
                     /\ Weekly(i) >= Larger(5, Percent(total, 2))}
        spikes == {i \in covered :
                      /\ MonthBefore(i) > 0
                      /\ Weekly(i) >= Larger(10, Percent(total, 5))
                      /\ 4 * Weekly(i)
                         >= 3 * (points[WeekBefore(i)].count - points[MonthBefore(i)].count)}
        At(kind, i, growth, priority) ==
            <<Event(kind, points[i].day, points[i], growth, priority)>>
        day == FirstLargest([i \in days |-> Daily(i)])
        week == FirstLargest([i \in weeks |-> Weekly(i)])
        spike == FirstLargest([i \in spikes |-> Weekly(i)])
        weekIsBest == weeks # {} /\ (days = {} \/ 2 * Weekly(week) >= 3 * Daily(day))
    IN IF spikes # {} THEN At("spike", spike, Weekly(spike), 100)
       ELSE IF weekIsBest THEN At("bestWeek", week, Weekly(week), 72)
       ELSE IF days # {} THEN At("bestDay", day, Daily(day), 68)
       ELSE << >>

\* One after the other the event with the highest priority, raised by up to 32
\* for its distance from the nearest one chosen before; then all by their days.
RankJourney(events) ==
    LET days == {events[i].day : i \in DOMAIN events}
        duration == Larger(1, Max(days) - Min(days))
        Distance(i, j) == IF events[i].day < events[j].day
                          THEN events[j].day - events[i].day
                          ELSE events[i].day - events[j].day
        Score(i, chosen) ==
            events[i].priority * duration
            + (IF chosen = << >> THEN 0
               ELSE 32 * Min({Distance(i, j) : j \in ToSet(chosen)}))
        Rest(chosen) == DOMAIN events \ ToSet(chosen)
        Choose(chosen) == Append(chosen, FirstLargest([i \in Rest(chosen) |-> Score(i, chosen)]))
        ranking[k \in 0 .. Len(events)] == IF k = 0 THEN << >> ELSE Choose(ranking[k - 1])
        order == ranking[Len(events)]
        places == Sorted(DOMAIN order, LAMBDA k, m :
                      LET a == events[order[k]].day
                          b == events[order[m]].day
                      IN a < b \/ (a = b /\ k < m))
    IN [k \in DOMAIN places |-> events[order[places[k]]]]

AtMost(events, n) == SubSeq(events, 1, Smaller(n, Len(events)))

BuildJourney(points, created, current, coverageStart) ==
    LET latest == Latest(points)
        Optional(condition, event) == IF condition THEN <<event>> ELSE << >>
        recorded == SelectInSubSeq(points, 1, Len(points) - 1, LAMBDA p : p.count > 0)
        events ==
            Optional(created # None /\ created <= latest.day,
                     Event("created", created, None, 0, 900))
            \o Optional(current > 0 /\ recorded > 0,
                        Event("firstRecorded", points[recorded].day, points[recorded], 0, 76))
            \o MilestoneEvents(points, current)
            \o GrowthEvent(points, current, coverageStart)
            \o <<Event("current", latest.day, latest, 0, 1000)>>
        OnChart(event) ==
            \/ event.kind \in {"current", "milestone", "spike"}
            \/ current < 10 /\ event.kind = "firstRecorded"
        marked == {i \in DOMAIN events : OnChart(events[i])}
    IN [ranked |-> AtMost(RankJourney(events), 7),
        chart |-> AtMost(RankJourney(AtPlaces(events, marked)), 4)]

-----------------------------------------------------------------------------
(* The metrics and the card *)

\* Mutant: the growth is counted from the first point after the cutoff.
BuildMetricsAfter(points, created, coverageStart, generated) ==
    LET latest == Latest(points)
        cutoff == latest.day - 90
        recentCreation == created # None /\ created >= cutoff /\ created < latest.day
        start == IF recentCreation THEN created ELSE cutoff
        days == latest.day - start
        baseline == LastBefore(points, cutoff) + 1
        baselineCount == IF recentCreation THEN 0 ELSE points[baseline].count
        growth == latest.count - baselineCount
        isKnown == recentCreation \/ (baseline > 1 /\ coverageStart <= cutoff)
    IN [age |-> IF created # None /\ created <= generated THEN generated - created ELSE None,
        days |-> days,
        growth |-> IF isKnown THEN growth ELSE None,
        rate |-> IF isKnown /\ baselineCount > 0 THEN <<growth, baselineCount>> ELSE None,
        average |-> IF isKnown THEN <<growth, days>> ELSE None]

\* The repository's age when the card is generated, and the growth of the last 90
\* days, or since the creation if that is later, in all, as a share of the stars
\* before, and by day.
BuildMetrics(points, created, coverageStart, generated) ==
    LET latest == Latest(points)
        cutoff == latest.day - 90
        recentCreation == created # None /\ created >= cutoff /\ created < latest.day
        start == IF recentCreation THEN created ELSE cutoff
        days == latest.day - start
        baseline == LastBefore(points, cutoff)
        baselineCount == IF recentCreation THEN 0 ELSE points[baseline].count
        growth == latest.count - baselineCount
        isKnown == recentCreation \/ (baseline > 0 /\ coverageStart <= cutoff)
    IN [age |-> IF created # None /\ created <= generated THEN generated - created ELSE None,
        days |-> days,
        growth |-> IF isKnown THEN growth ELSE None,
        rate |-> IF isKnown /\ baselineCount > 0 THEN <<growth, baselineCount>> ELSE None,
        average |-> IF isKnown THEN <<growth, days>> ELSE None]

\* What is drawn has two points and ends at the stars of today.
CanRender(points, stars) == Len(points) >= 2 /\ Latest(points).count = stars

\* The coverage of either source starts with the curve.
Render(points, created, stars, generated) ==
    LET coverageStart == First(points).day
        journey == BuildJourney(points, created, stars, coverageStart)
    IN [journey |-> journey,
        metrics |-> BuildMetrics(points, created, coverageStart, generated),
        drawn |-> RenderedPointsWithAnchors(AddingCreationBaseline(points, created),
                                            journey.chart)]
==============================================================================
