---------------------------- MODULE HistoryReplies ----------------------------
(***************************************************************************)
(* What the service answers when it is asked for a repository's curve or   *)
(* for its card, from either source of events: GitHub's official history,  *)
(* loaded page by page while it grows, or the series of the archive, to    *)
(* which deltas are merged.  One client asks; it keeps the last body with  *)
(* its tag and sends the tag when it asks for the same again.              *)
(*                                                                         *)
(* Loading, caching and publishing have modules of their own               *)
(* (OfficialHistory, GitHubCalls, HistoryRegistry); here they are the      *)
(* steps that change what a reply is calculated from.  A tag is the tuple  *)
(* that is hashed into it, of one repository, path, theme and locale;      *)
(* what is hashed besides (GitHub's tag of the first page, the archive's   *)
(* watermark) is left out, so that more replies are confirmed here than    *)
(* by the program.  The name in the body of a curve is that of the path.   *)
(***************************************************************************)
EXTENDS StarCard

CONSTANTS
    Histories,          \* what GitHub has at first: sequences of weeks
    Patterns,           \* the counts a week may have
    PerPage,            \* weeks on the first page
    Snapshots,          \* the series the archive may begin with, or None
    Additions,          \* counts a delta may add to a day
    StarCounts,         \* stars of the repository
    Creations,          \* when it may have been created, or None in a row of
                        \* metadata that is older than the column
    Descriptions,       \* what else the metadata may say of it: name, text, topics,
                        \* language and avatar
    MaxChanges          \* bound: weeks begun or revised, deltas sent, days passed,
                        \* descriptions changed, archives published again

\* The repository has weeks, which begin after the first of the epoch.  What the
\* archive begins with is a series whose total fits into an int, as the count does
\* that a delta adds (registry.go 863-868); an int holds the stars.
ASSUME RepliesAssumption ==
    /\ Histories \subseteq Seq(Week)
    /\ \A history \in Histories :
          Len(history) > 0 /\ history[Len(history)].start \in Nat \ {0}
    /\ Patterns \subseteq Seq(Int)
    /\ PerPage \in Nat \ {0}
    /\ \A snapshot \in Snapshots :
          snapshot # None => /\ IsSeries(snapshot) /\ snapshot # Corrupt
                             /\ Total(snapshot) \in 1 .. MaxInt
    /\ Additions \subseteq 1 .. MaxInt
    /\ StarCounts \subseteq 0 .. MaxInt
    /\ Creations \subseteq Nat \cup {None}
    /\ MaxChanges \in Nat

IsSunday(day) == day % 7 = 3

\* GitHub's weeks begin on Sundays (model/history.go 7), as day 3 of the epoch was.
ASSUME SundayAssumption ==
    \A history \in Histories : \A i \in DOMAIN history : IsSunday(history[i].start)

Kinds == {"3m", "1y", "all", "card"}

\* A reply without a tag and a body.
Nothing == << >>

VARIABLES
    source,             \* "official" with a provider of GitHub's history, as
                        \* server.New gives the handler one, else "archive"
    metadata,           \* what the service knows of the repository, but its stars
    today,
    github,             \* GitHub's weeks, oldest first
    page,               \* the first page of a complete read under way, or None
    row,                \* the weeks kept for the repository, or None
    stored,             \* the repository's row in the archive, or None
    generated,          \* when the row was fetched or last confirmed by GitHub, or
                        \* the archive's generated_at
    client,             \* the last reply
    known,              \* what GitHub said last of each week that was loaded
    applied,            \* the counts of the snapshot and of all merged deltas
    changes             \* counts towards MaxChanges

server == <<source, page, row, stored, generated>>
outside == <<metadata, today, github>>
observed == <<known, applied, changes>>
vars == <<server, outside, client, observed>>

Metadata == [created : Creations, description : Descriptions]

Row(series) ==
    [series |-> Encode(series), points |-> Cardinality(DOMAIN series),
     total |-> Total(series) % Words]

Init ==
    /\ source \in {"official", "archive"}
    /\ metadata \in Metadata
    /\ github \in Histories
    /\ today = github[Len(github)].start + 6
    /\ generated = today
    /\ applied \in Snapshots
    /\ stored = IF applied = None THEN None ELSE Row(applied)
    /\ page = None
    /\ row = None
    /\ known = << >>
    /\ client = [kind |-> None, status |-> 0, tag |-> Nothing, body |-> Nothing]
    /\ changes = 0
    /\ IF source = "official"
       THEN applied = None
       ELSE \A history \in Histories : Len(history) <= Len(github)

-----------------------------------------------------------------------------
(* The repository and GitHub *)

\* GitHub is of no concern to the archive: there only time passes.
BeginWeek ==
    /\ changes < MaxChanges
    /\ \E days \in Patterns :
        LET week == [start |-> github[Len(github)].start + 7, days |-> days]
        IN github' = IF source = "official" THEN Append(github, week) ELSE github
    /\ today' = today + 7
    /\ changes' = changes + 1
    /\ UNCHANGED <<server, metadata, client, known, applied>>

ReviseWeek ==
    /\ source = "official"
    /\ changes < MaxChanges
    /\ \E days \in Patterns : github' = [github EXCEPT ![Len(github)].days = days]
    /\ changes' = changes + 1
    /\ UNCHANGED <<server, metadata, today, client, known, applied>>

\* A day passes on which GitHub's counts stay what they are.
PassDay ==
    /\ changes < MaxChanges
    /\ today' = today + 1
    /\ changes' = changes + 1
    /\ UNCHANGED <<server, metadata, github, client, known, applied>>

\* The service reads the metadata again: the owner may have described the
\* repository otherwise, and its creation is there from now on.
Describe ==
    /\ changes < MaxChanges
    /\ \E other \in Metadata \ {metadata} :
        /\ metadata.created # None => other.created = metadata.created
        /\ metadata' = other
    /\ changes' = changes + 1
    /\ UNCHANGED <<server, today, github, client, known, applied>>

-----------------------------------------------------------------------------
(* Loading the official history: official_history.go.  The newest weeks are *)
(* on the first page; a week that begins before the others are read moves   *)
(* the last one of that page to the next, where it is read again.           *)

FirstPage == SubSeq(github, Larger(1, Len(github) - PerPage + 1), Len(github))
OtherPages == SubSeq(github, 1, Len(github) - PerPage)

Saying(said, week) ==
    [start \in DOMAIN said \cup {week.start} |->
        IF start = week.start THEN week.days ELSE said[start]]

\* What GitHub says of the weeks, the last word on each, after what it said before.
Said(weeks, before) == FoldLeft(Saying, before, weeks)

\* Weeks that make no sense are refused, and what was kept stays.  Otherwise what
\* is kept has the date of now, though it be the same as before, which is all that
\* GitHub's 304 to an incremental refresh leads to.
Keep(weeks, said) ==
    IF OfficialEvents(weeks) = Corrupt
    THEN UNCHANGED <<row, known, generated>>
    ELSE row' = Canonical(weeks) /\ known' = said /\ generated' = today

ReadFirst ==
    /\ source = "official"
    /\ page = None
    /\ page' = FirstPage
    /\ UNCHANGED <<source, row, stored, generated, outside, client, observed>>

ReadRest ==
    /\ page # None
    /\ page' = None
    /\ Keep(page \o OtherPages, Said(page \o OtherPages, << >>))
    /\ UNCHANGED <<source, stored, outside, client, applied, changes>>

ReadRecent ==
    /\ page = None
    /\ row # None
    /\ Keep(row \o FirstPage, Said(FirstPage, known))
    /\ UNCHANGED <<source, page, stored, outside, client, applied, changes>>

-----------------------------------------------------------------------------
(* The archive's row: store.go *)

\* The series with a delta's counts, Corrupt when it cannot be merged.
Merged(addition) ==
    LET existing == IF stored = None THEN << >> ELSE Decode(stored.series, stored.points)
    IN IF existing = Corrupt THEN Corrupt ELSE Merge(<<existing, addition>>)

\* Mutant: any total is taken.
TooManyNever(series) == FALSE

\* A row's total must fit into an int.
TooMany(series) == Total(series) % Words > MaxInt

\* A delta counts the events of one day; deltas for the same day add up.
ApplyDelta ==
    /\ source = "archive"
    /\ changes < MaxChanges
    /\ \E day \in {today - 7, today}, count \in Additions :
        \E merged \in {Merged([d \in {day} |-> count])} :
           IF merged = Corrupt \/ TooMany(merged)
           THEN UNCHANGED <<stored, applied, generated>>
           ELSE /\ stored' = Row(merged)
                /\ generated' = today
                /\ applied' = IF stored = None THEN [d \in {day} |-> count]
                              ELSE Counting(applied, day, CountOn(applied, day) + count)
    /\ changes' = changes + 1
    /\ UNCHANGED <<source, page, row, outside, client, known>>

\* A delta without events of the repository is merged, or the same deltas are merged
\* again after a rollback to their snapshot: the repository's row stays the same, and
\* the archive has another date.
Republish ==
    /\ source = "archive"
    /\ changes < MaxChanges
    /\ generated # today
    /\ generated' = today
    /\ changes' = changes + 1
    /\ UNCHANGED <<source, page, row, stored, outside, client, known, applied>>

-----------------------------------------------------------------------------
(* Replies: history.go, official_history.go, embed.go *)

IsFound == IF source = "official" THEN row # None ELSE stored # None

Events ==
    IF source = "official" THEN OfficialEvents(row) ELSE Decode(stored.series, stored.points)

\* Mutant: the tag does not depend on the stars.
TagOfEvents(kind, stars) ==
    [kind |-> kind, stars |-> CHOOSE n \in StarCounts : TRUE,
     events |-> IF source = "official" THEN row ELSE stored.series]

\* From the official history or from the archive's row, the tag depends on the
\* kind, the stars and the events.  It depends neither on the day nor on the row's
\* or the archive's date, nor on what the metadata say besides the stars.
Tag(kind, stars) ==
    [kind |-> kind, stars |-> stars,
     events |-> IF source = "official" THEN row ELSE stored.series]

\* A body with this date and of a repository that is said to be so.
BodyOf(kind, points, stars, date, repository) ==
    IF kind = "card"
    THEN [points |-> points, card |-> Render(points, repository.created, stars, date),
          generated |-> date, metadata |-> repository]
    ELSE [points |-> SelectRange(points, kind, today), card |-> None,
          generated |-> date, metadata |-> None]

Body(kind, points, stars) == BodyOf(kind, points, stars, generated, metadata)

\* A card needs two points; of GitHub's history a curve needs one that is left,
\* from the archive it may be empty.
HasContent(kind, points) ==
    IF kind = "card" THEN Len(points) >= 2
    ELSE source = "archive" \/ SelectRange(points, kind, today) # << >>

Reply(kind, status, tag, body) ==
    client' = [kind |-> kind, status |-> status, tag |-> tag, body |-> body]

\* The stars are those of the repository's metadata or, for a curve, the ones the
\* request names.  The client names the tag of the reply it holds.  Without a row
\* of the official history the request loads one before it goes on.  A request
\* that panics loses its connection, and the client keeps what it has.
Ask(kind, stars) ==
    /\ source = "official" => IsFound
    /\ IF ~IsFound THEN Reply(kind, 404, Nothing, Nothing)
       ELSE \E events \in {Events} :
            LET points == Normalize(events, stars)
            IN IF events = Corrupt THEN Reply(kind, 500, Nothing, Nothing)
               ELSE IF ~CanNormalize(events) THEN UNCHANGED client
               ELSE IF ~HasContent(kind, points) THEN Reply(kind, 404, Nothing, Nothing)
               ELSE IF kind = "card" /\ ~CanRender(points, stars) THEN Reply(kind, 500, Nothing, Nothing)
               ELSE IF client.tag = Tag(kind, stars) THEN Reply(kind, 304, client.tag, client.body)
               ELSE Reply(kind, 200, Tag(kind, stars), Body(kind, points, stars))
    /\ UNCHANGED <<server, outside, observed>>

Next ==
    \/ BeginWeek \/ ReviseWeek \/ PassDay \/ Describe
    \/ ReadFirst \/ ReadRest \/ ReadRecent
    \/ ApplyDelta \/ Republish
    \/ \E kind \in Kinds, stars \in StarCounts : Ask(kind, stars)

Spec == Init /\ [][Next]_vars
-----------------------------------------------------------------------------
(* Properties *)

IsCurve(points) ==
    \A i \in DOMAIN points : points[i].day \in Nat /\ points[i].count \in 0 .. MaxInt

Shown == IF client.body = Nothing THEN << >> ELSE client.body.points
HasCard == client.body # Nothing /\ client.kind = "card"

\* Types of the state: what is stored, and what the client holds.
TypeOK ==
    /\ source \in {"official", "archive"}
    /\ metadata \in Metadata
    /\ today \in Nat
    /\ generated \in Nat /\ generated <= today
    /\ row # None => \A week \in ToSet(row) : WeekIsValid(week)
    /\ stored # None => stored.total \in 1 .. MaxInt /\ Len(stored.series) = 2 * stored.points
    /\ client.status \in {0, 200, 304, 404}
    /\ (client.body = Nothing) <=> (client.status \in {0, 404})
    /\ IsCurve(Shown)
    /\ changes \in 0 .. MaxChanges

\* The row of the archive, decoded, has for each day the sum of the counts that
\* the snapshot and the accepted deltas gave it, and the right totals; a delta
\* that is refused leaves no trace (codec.go 33-149, store.go 670-787).
SeriesIsTheSum ==
    stored # None =>
        /\ Decode(stored.series, stored.points) = applied
        /\ stored.total = Total(applied)

\* Whatever the products wrap to, a curve goes on from day to day, never falls
\* and ends at the stars it was asked for (history.go 27-67, 71-133: the last
\* point survives the buckets and the selection).
CurveIsMonotone ==
    client.body # Nothing =>
        /\ \A i \in 2 .. Len(Shown) :
            /\ Shown[i - 1].day < Shown[i].day
            /\ Shown[i - 1].count <= Shown[i].count
        /\ Shown # << >> => Latest(Shown).count = client.tag.stars

StarsOf(given) == MapThenSumSet(LAMBDA d : d.count, given)

\* The curve by definition: for each day with stars the share of all stars
\* given up to it, to the nearest of the stars of today.
Curve(given, stars) ==
    LET total == StarsOf(given)
        UpTo(day) == StarsOf({d \in given : d.day <= day})
    IN {[day |-> d.day, count |-> (2 * stars * UpTo(d.day) + total) \div (2 * total)] : d \in given}

\* The days with stars and their counts, as GitHub said last or as they were sent.
Given ==
    IF source = "official"
    THEN UNION {{[day |-> start + i - 1, count |-> known[start][i]] :
                     i \in {j \in DOMAIN known[start] : known[start][j] > 0}} : start \in DOMAIN known}
    ELSE {[day |-> day, count |-> applied[day]] : day \in DOMAIN applied}

\* The client holds a reply whose tag is that of a request with these stars: if
\* it were to ask now, it would be told that nothing has changed.
HoldsReplyFor(stars) ==
    IsFound /\ client.body # Nothing /\ client.tag = Tag(client.kind, stars)

\* What is shown, when it is sent and as long as it is confirmed with a 304, is of the
\* curve of what GitHub said last of each week, though weeks arrive twice, with other
\* counts, and in any order (official.go 15-52, official_history.go 408-423), or of the
\* deltas, though they were merged and encoded one after the other; a card shows the
\* whole curve; so long as the products fit into a word.
CurveFollowsEvents ==
    \A stars \in StarCounts :
        HoldsReplyFor(stars)
        => (2 * stars * StarsOf(Given) + StarsOf(Given) < Words
            => /\ ToSet(Shown) \subseteq Curve(Given, stars)
               /\ client.kind = "card" => Curve(Given, stars) \subseteq ToSet(Shown))

\* Who is told that nothing has changed holds the points that a full reply would
\* bring and, on a card, what is calculated from them: only the date, with the age
\* that is counted to it, and the metadata may still be those of the reply it holds
\* (official_history.go 101-117, 139-163, history.go 205-221, embed.go 92-129).  The
\* curves of 3m and 1y are left out: their beginning moves with the day, and the
\* tag does not.
ConfirmedCurveIsCurrent ==
    \A stars \in StarCounts :
        (client.kind \in {"all", "card"} /\ HoldsReplyFor(stars))
        => client.body = BodyOf(client.kind, Normalize(Events, stars), stars,
                                client.body.generated, client.body.metadata)

\* The line of a card is drawn through at most MaximumDrawn points, each of the
\* curve or its beginning at the creation, from the first to the last, in the
\* order of their days and never falling (render.go 784-878).
LineIsDrawn ==
    HasCard =>
        LET drawn == client.body.card.drawn
            plotted == AddingCreationBaseline(Shown, client.body.metadata.created)
        IN /\ Len(drawn) <= MaximumDrawn
           /\ ToSet(drawn) \subseteq ToSet(plotted)
           /\ First(drawn) = First(plotted)
           /\ Latest(drawn) = Latest(plotted)
           /\ \A i \in 2 .. Len(drawn) :
                drawn[i - 1].day < drawn[i].day /\ drawn[i - 1].count <= drawn[i].count

\* Each event that the chart marks is marked on the line, and where it marks a
\* milestone the drawn line is below the threshold until that day and no longer
\* below from that day on (render.go 567-620, 801-835: the anchors stay).
MilestonesAreOnTheLine ==
    HasCard =>
        LET drawn == ToSet(client.body.card.drawn)
        IN \A event \in ToSet(client.body.card.journey.chart) :
            /\ event.point \in drawn
            /\ event.kind = "milestone" =>
                \A p \in drawn : p.count >= event.size <=> p.day >= event.day

\* No week or day of the journey that lies in the period of the metrics shows
\* more growth than the metrics do for the whole period (render.go 500-537 and
\* 655-700: two calculations, each with its own point to start from).
BurstsFitThePeriod ==
    HasCard =>
        LET metrics == client.body.card.metrics
        IN metrics.growth # None =>
            /\ metrics.growth \in 0 .. Latest(Shown).count
            /\ \A event \in ToSet(client.body.card.journey.ranked) :
                (/\ event.kind \in {"bestDay", "bestWeek", "spike"}
                 /\ event.day - 7 >= Latest(Shown).day - metrics.days)
                => event.size <= metrics.growth
==============================================================================
