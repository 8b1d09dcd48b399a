------------------------ MODULE HistoryReplies_proofs ------------------------
(***************************************************************************)
(* Theorems about HistoryReplies: what the archive's row says, what a      *)
(* client that is told that nothing has changed holds, that every curve    *)
(* rises to the stars it was asked for, the types of the state, the cards, *)
(* and that the curve of a card is that of what GitHub said last.          *)
(***************************************************************************)
EXTENDS HistoryReplies, SequenceTheorems, StarCard_proofs

USE RepliesAssumption

-----------------------------------------------------------------------------
(* The archive's row is the sum of the counts *)

LEMMA WordSize == MaxInt \in Nat /\ 2 * MaxInt + 2 = Words
BY SeriesAssumption DEF MaxInt

LEMMA StarsFit ==
    ASSUME NEW stars \in StarCounts
    PROVE  stars \in Nat /\ stars <= MaxInt
<1>1. stars \in 0 .. MaxInt /\ MaxInt \in Nat
  BY WordSize
<1> QED BY <1>1

LEMMA FitsIntoWord ==
    ASSUME NEW n \in Nat, n <= 2 * MaxInt
    PROVE  n % Words = n
<1>1. Words \in Nat \ {0} /\ n < Words
  BY WordSize
<1> QED BY <1>1

\* The row is the one written for the series of the counts that were accepted,
\* whose total fits into an int; a delta's day is after the epoch.
RowInv ==
    /\ today \in Nat /\ today >= 7
    /\ stored # None =>
          /\ IsSeries(applied) /\ applied # Corrupt
          /\ Total(applied) \in 1 .. MaxInt /\ stored = Row(applied)

LEMMA RowInvInit == Init => RowInv
<1> SUFFICES ASSUME Init PROVE RowInv
  OBVIOUS
<1>1. today \in Nat /\ today >= 7
  <2>1. github \in Histories /\ today = github[Len(github)].start + 6
    BY DEF Init
  <2> QED BY <2>1
<1>2. ASSUME stored # None
      PROVE  /\ IsSeries(applied) /\ applied # Corrupt
             /\ Total(applied) \in 1 .. MaxInt /\ stored = Row(applied)
  BY <1>2 DEF Init
<1> QED BY <1>1, <1>2 DEF RowInv

\* A row whose total fits into an int can be decoded, and has that total.
LEMMA StoredDecodes ==
    ASSUME NEW series, IsSeries(series), Total(series) \in 1 .. MaxInt
    PROVE  /\ Decode(Row(series).series, Row(series).points) = series
           /\ Row(series).total = Total(series)
<1>1. Total(series) % Words = Total(series)
  BY WordSize, FitsIntoWord
<1> QED BY <1>1, RowsAreReadBack DEF Row

LEMMA SingleDay ==
    ASSUME NEW day \in Nat, NEW count \in Nat \ {0}
    PROVE  IsSeries([d \in {day} |-> count])
BY FS_Singleton DEF IsSeries

\* A delta for one day adds its count to that day.
LEMMA DeltaCounts ==
    ASSUME NEW series, IsSeries(series), NEW day, NEW count \in Nat
    PROVE  SumOf(series, [d \in {day} |-> count])
               = Counting(series, day, CountOn(series, day) + count)
<1> DEFINE addition == [d \in {day} |-> count]
<1>1. DOMAIN addition = {day} /\ addition[day] = count
  OBVIOUS
<1>2. \A d \in DOMAIN series : d # day => CountOn(series, d) + CountOn(addition, d) = series[d]
  BY <1>1 DEF CountOn, IsSeries
<1>3. CountOn(series, day) + CountOn(addition, day) = CountOn(series, day) + count
  BY <1>1 DEF CountOn
<1> HIDE DEF addition
<1>4. SumOf(series, addition) = Counting(series, day, CountOn(series, day) + count)
  BY <1>1, <1>2, <1>3 DEF Counting, SumOf
<1> QED BY <1>4 DEF addition

LEMMA DeltaOfNone ==
    ASSUME NEW day, NEW count \in Nat
    PROVE  [d \in {day} |-> count] = Counting(<< >>, day, CountOn(<< >>, day) + count)
BY DEF Counting, CountOn

LEMMA RowInvApplyDelta ==
    ASSUME RowInv, ApplyDelta
    PROVE  RowInv'
<1>1. PICK day \in {today - 7, today}, count \in Additions :
         \E merged \in {Merged([d \in {day} |-> count])} :
            IF merged = Corrupt \/ TooMany(merged)
            THEN UNCHANGED <<stored, applied>>
            ELSE /\ stored' = Row(merged)
                 /\ applied' = IF stored = None THEN [d \in {day} |-> count]
                               ELSE Counting(applied, day, CountOn(applied, day) + count)
  BY DEF ApplyDelta
<1>2. today' = today
  BY DEF ApplyDelta, outside
<1>3. today \in Nat /\ today >= 7
  BY DEF RowInv
<1> DEFINE addition == [d \in {day} |-> count]
           merged == Merged(addition)
           existing == IF stored = None THEN << >> ELSE applied
           sum == Counting(existing, day, CountOn(existing, day) + count)
<1>4. day \in Nat /\ count \in Nat \ {0} /\ count <= MaxInt
  <2>1. day \in Nat
    BY <1>3
  <2>2. count \in 1 .. MaxInt /\ MaxInt \in Nat
    BY WordSize
  <2> QED BY <2>1, <2>2
<1>5. IsSeries(existing) /\ Total(existing) \in 0 .. MaxInt
  BY TotalOfNone, WordSize DEF RowInv
<1>6. existing = IF stored = None THEN << >> ELSE Decode(stored.series, stored.points)
  BY StoredDecodes DEF RowInv
<1>7. merged = IF existing = Corrupt THEN Corrupt ELSE Merge(<<existing, addition>>)
  BY <1>6 DEF Merged
<1> HIDE DEF existing
<1>8. merged \in {Corrupt, sum}
  <2>1. IsSeries(addition)
    BY <1>4, SingleDay
  <2>2. SumOf(existing, addition) = sum
    BY <1>4, <1>5, DeltaCounts
  <2> HIDE DEF addition, sum
  <2> QED BY <1>5, <1>7, <2>1, <2>2, MergeAdds
<1>9. IsSeries(sum) /\ Total(sum) = Total(existing) + count
  BY <1>4, <1>5, TotalAdds
<1>10. CASE merged = Corrupt \/ TooMany(merged)
  BY <1>1, <1>2, <1>10 DEF RowInv
<1>11. CASE ~(merged = Corrupt \/ TooMany(merged))
  <2>1. merged = sum /\ sum # Corrupt /\ stored' = Row(merged)
    BY <1>1, <1>8, <1>11
  <2>2. applied' = sum
    BY <1>1, <1>4, <1>11, DeltaOfNone DEF existing
  <2> HIDE DEF sum, merged
  <2>3. Total(sum) \in 1 .. MaxInt
    <3>1. Total(sum) \in 1 .. 2 * MaxInt
      BY <1>4, <1>5, <1>9, WordSize
    <3>2. ~(Total(sum) % Words > MaxInt)
      BY <1>11, <2>1 DEF TooMany
    <3>3. Total(sum) % Words = Total(sum)
      BY <3>1, WordSize, FitsIntoWord
    <3> QED BY <3>1, <3>2, <3>3, WordSize
  <2> QED BY <1>2, <1>3, <1>9, <2>1, <2>2, <2>3 DEF RowInv
<1> QED BY <1>10, <1>11

\* Days that pass, other metadata and another date of the archive leave alone what a
\* curve is calculated from.
LEMMA UpdatesLeave ==
    ASSUME PassDay \/ Describe \/ Republish
    PROVE  /\ UNCHANGED <<source, page, row, stored, github, client, known, applied>>
           /\ today' \in {today, today + 1}
BY DEF PassDay, Describe, Republish, server, outside

LEMMA RowInvNext == RowInv /\ [Next]_vars => RowInv'
<1> SUFFICES ASSUME RowInv, [Next]_vars PROVE RowInv'
  OBVIOUS
<1> USE DEF RowInv
<1>1. CASE BeginWeek
  BY <1>1 DEF BeginWeek, server
<1>2. CASE ReviseWeek
  BY <1>2 DEF ReviseWeek, server
<1>3. CASE ReadFirst
  BY <1>3 DEF ReadFirst, outside, observed
<1>4. CASE ReadRest
  BY <1>4 DEF ReadRest, outside
<1>5. CASE ReadRecent
  BY <1>5 DEF ReadRecent, outside
<1>6. CASE ApplyDelta
  BY <1>6, RowInvApplyDelta
<1>7. ASSUME NEW kind \in Kinds, NEW stars \in StarCounts, Ask(kind, stars) PROVE RowInv'
  BY <1>7 DEF Ask, server, outside, observed
<1>8. CASE PassDay \/ Describe \/ Republish
  BY <1>8, UpdatesLeave
<1>9. CASE UNCHANGED vars
  BY <1>9 DEF vars, server, outside, observed
<1> QED BY <1>1, <1>2, <1>3, <1>4, <1>5, <1>6, <1>7, <1>8, <1>9 DEF Next

\* The archive's row, decoded, is the sum of the snapshot's counts and of those of
\* all deltas that were accepted (store.go 670-787, codec.go 33-149).
THEOREM RowIsTheSum == Spec => []SeriesIsTheSum
<1>1. RowInv => SeriesIsTheSum
  BY StoredDecodes DEF RowInv, SeriesIsTheSum
<1> QED BY <1>1, RowInvInit, RowInvNext, PTL DEF Spec

-----------------------------------------------------------------------------
(* Who is told that nothing has changed *)

\* The series that the events in a tag stand for.
Meaning(events) ==
    IF source = "official" THEN OfficialEvents(events) ELSE Decode(events, Len(events) \div 2)

\* The body of a whole curve or of a card, which does not depend on the day.
WholeBody(kind, points, stars, date, repository) ==
    IF kind = "card"
    THEN [points |-> points, card |-> Render(points, repository.created, stars, date),
          generated |-> date, metadata |-> repository]
    ELSE [points |-> SelectRange(points, "all", 0), card |-> None,
          generated |-> date, metadata |-> None]

\* What the client holds is what its tag stands for, with a date and metadata of its own.
ClientInv ==
    client.body # Nothing =>
        LET stars == client.tag.stars
            events == client.tag.events
        IN /\ client.tag = [kind |-> client.kind, stars |-> stars, events |-> events]
           /\ client.kind \in {"all", "card"} =>
                client.body = WholeBody(client.kind, Normalize(Meaning(events), stars), stars,
                                        client.body.generated, client.body.metadata)

LEMMA BodyIsWhole ==
    ASSUME NEW kind \in {"all", "card"}, NEW points, NEW stars, NEW date, NEW repository
    PROVE  BodyOf(kind, points, stars, date, repository)
           = WholeBody(kind, points, stars, date, repository)
<1>1. Cutoff("all", today) = Cutoff("all", 0)
  BY DEF Cutoff
<1>2. SelectRange(points, "all", today) = SelectRange(points, "all", 0)
  BY <1>1 DEF SelectRange
<1> QED BY <1>2 DEF BodyOf, WholeBody

\* A body is that of its own date and metadata.
LEMMA BodyIsItsOwn ==
    ASSUME NEW kind \in {"all", "card"}, NEW points, NEW stars, NEW date, NEW repository,
           NEW body, body = WholeBody(kind, points, stars, date, repository)
    PROVE  body = WholeBody(kind, points, stars, body.generated, body.metadata)
<1>1. CASE kind = "card"
  <2>1. body.generated = date /\ body.metadata = repository
    BY <1>1 DEF WholeBody
  <2> QED BY <2>1
<1>2. CASE kind # "card"
  <2>1. body.generated = date
    BY <1>2 DEF WholeBody
  <2>2. WholeBody(kind, points, stars, date, repository)
        = WholeBody(kind, points, stars, date, body.metadata)
    BY <1>2 DEF WholeBody
  <2> QED BY <2>1, <2>2
<1> QED BY <1>1, <1>2

\* The series that replies are calculated from is the one their tag stands for.
LEMMA EventsAreMeant ==
    ASSUME RowInv, IsFound, NEW kind, NEW stars
    PROVE  Meaning(Tag(kind, stars).events) = Events
<1>1. CASE source = "official"
  BY <1>1 DEF Meaning, Tag, Events
<1>2. CASE source # "official"
  <2>1. IsSeries(applied) /\ stored = Row(applied)
    BY <1>2 DEF IsFound, RowInv
  <2>2. Len(stored.series) \div 2 = stored.points
    <3> DEFINE n == Cardinality(DOMAIN applied)
    <3>1. n \in Nat
      BY <2>1, ListFacts
    <3>2. Len(Encode(applied)) = 2 * n
      BY <2>1, EncodeShape
    <3>3. stored.series = Encode(applied) /\ stored.points = n
      BY <2>1 DEF Row
    <3> HIDE DEF n
    <3> QED BY <3>1, <3>2, <3>3
  <2> QED BY <1>2, <2>2 DEF Meaning, Tag, Events
<1> QED BY <1>1, <1>2

LEMMA ClientInvInit == Init => ClientInv
BY DEF Init, ClientInv

\* What a request leads to: no body, the one that the client holds, or a new one.
LEMMA AskOutcome ==
    ASSUME NEW kind, NEW stars, Ask(kind, stars)
    PROVE  /\ UNCHANGED source
           /\ \/ UNCHANGED client
              \/ \E status : client' = [kind |-> kind, status |-> status, tag |-> Nothing, body |-> Nothing]
              \/ /\ client.tag = Tag(kind, stars)
                 /\ client' = [kind |-> kind, status |-> 304, tag |-> client.tag, body |-> client.body]
              \/ /\ IsFound /\ Events # Corrupt /\ CanNormalize(Events)
                 /\ client' = [kind |-> kind, status |-> 200, tag |-> Tag(kind, stars),
                               body |-> Body(kind, Normalize(Events, stars), stars)]
BY DEF Ask, Reply, server, outside

LEMMA ClientInvAsk ==
    ASSUME RowInv, ClientInv, NEW kind \in Kinds, NEW stars \in StarCounts, Ask(kind, stars)
    PROVE  ClientInv'
<1> DEFINE points == Normalize(Events, stars)
           tag == Tag(kind, stars)
           Emptied == \E status : client' = [kind |-> kind, status |-> status, tag |-> Nothing, body |-> Nothing]
           Confirmed ==
              /\ client.tag = tag
              /\ client' = [kind |-> kind, status |-> 304, tag |-> client.tag, body |-> client.body]
           Sent ==
              /\ IsFound
              /\ client' = [kind |-> kind, status |-> 200, tag |-> tag, body |-> Body(kind, points, stars)]
<1>1. source' = source /\ (UNCHANGED client \/ Emptied \/ Confirmed \/ Sent)
  BY AskOutcome
<1>2. /\ tag.kind = kind /\ tag.stars = stars
      /\ tag = [kind |-> kind, stars |-> stars, events |-> tag.events]
  BY DEF Tag
<1> HIDE DEF points, tag
<1>3. \A events : Meaning(events)' = Meaning(events)
  BY <1>1 DEF Meaning
<1>4. CASE UNCHANGED client
  BY <1>1, <1>3, <1>4 DEF ClientInv, WholeBody
<1>5. CASE Emptied
  BY <1>5 DEF ClientInv
<1>6. CASE Confirmed
  <2> SUFFICES ASSUME client.body # Nothing PROVE ClientInv'
    BY <1>6 DEF ClientInv
  <2>1. client.kind = kind
    BY <1>2, <1>6 DEF ClientInv
  <2>2. client'.kind = client.kind /\ client'.tag = client.tag /\ client'.body = client.body
    BY <1>6, <2>1
  <2> QED BY <1>1, <1>3, <2>2 DEF ClientInv, WholeBody
<1>7. CASE Sent
  <2>1. Meaning(tag.events) = Events
    BY <1>7, EventsAreMeant DEF tag
  <2>2. client'.kind = kind /\ client'.tag = tag /\ client'.body = Body(kind, points, stars)
    BY <1>7
  <2>3. kind \in {"all", "card"} =>
           client'.body = WholeBody(kind, Normalize(Meaning(tag.events), stars), stars,
                                    client'.body.generated, client'.body.metadata)
    <3> SUFFICES ASSUME kind \in {"all", "card"}
                 PROVE  client'.body = WholeBody(kind, points, stars,
                                                 client'.body.generated, client'.body.metadata)
      BY <2>1 DEF points
    <3>1. client'.body = WholeBody(kind, points, stars, generated, metadata)
      BY <2>2, BodyIsWhole DEF Body
    <3> QED BY <3>1, BodyIsItsOwn
  <2> QED BY <1>1, <1>2, <1>3, <2>2, <2>3 DEF ClientInv, WholeBody
<1> QED BY <1>1, <1>4, <1>5, <1>6, <1>7

LEMMA ClientInvNext == RowInv /\ ClientInv /\ [Next]_vars => ClientInv'
<1> SUFFICES ASSUME RowInv, ClientInv, [Next]_vars PROVE ClientInv'
  OBVIOUS
<1>1. ASSUME UNCHANGED <<source, client>> PROVE ClientInv'
  BY <1>1 DEF ClientInv, WholeBody, Meaning
<1>2. CASE BeginWeek
  BY <1>1, <1>2 DEF BeginWeek, server
<1>3. CASE ReviseWeek
  BY <1>1, <1>3 DEF ReviseWeek, server
<1>4. CASE ReadFirst
  BY <1>1, <1>4 DEF ReadFirst, outside
<1>5. CASE ReadRest
  BY <1>1, <1>5 DEF ReadRest, outside
<1>6. CASE ReadRecent
  BY <1>1, <1>6 DEF ReadRecent, outside
<1>7. CASE ApplyDelta
  BY <1>1, <1>7 DEF ApplyDelta, outside
<1>8. ASSUME NEW kind \in Kinds, NEW stars \in StarCounts, Ask(kind, stars) PROVE ClientInv'
  BY <1>8, ClientInvAsk
<1>9. CASE PassDay \/ Describe \/ Republish
  BY <1>1, <1>9, UpdatesLeave
<1>10. CASE UNCHANGED vars
  BY <1>1, <1>10 DEF vars, server, outside
<1> QED BY <1>2, <1>3, <1>4, <1>5, <1>6, <1>7, <1>8, <1>9, <1>10 DEF Next

\* Who holds the tag that a request for the whole curve or for the card would be
\* given holds the points that a full reply would bring and what is drawn and counted
\* of them: that reply, with the date and the metadata of the one it holds
\* (official_history.go 101-117, 139-163, history.go 205-221, embed.go 92-129).
THEOREM ConfirmedCurvesAreCurrent == Spec => []ConfirmedCurveIsCurrent
<1>1. RowInv /\ ClientInv => ConfirmedCurveIsCurrent
  <2> SUFFICES ASSUME RowInv, ClientInv, NEW stars \in StarCounts,
                      client.kind \in {"all", "card"}, HoldsReplyFor(stars)
               PROVE  client.body = BodyOf(client.kind, Normalize(Events, stars), stars,
                                           client.body.generated, client.body.metadata)
    BY DEF ConfirmedCurveIsCurrent
  <2>1. IsFound /\ client.body # Nothing /\ client.tag = Tag(client.kind, stars)
    BY DEF HoldsReplyFor
  <2>2. client.tag.stars = stars
    BY <2>1 DEF Tag
  <2>3. Meaning(client.tag.events) = Events
    BY <2>1, EventsAreMeant
  <2>4. client.body = WholeBody(client.kind, Normalize(Events, stars), stars,
                                client.body.generated, client.body.metadata)
    BY <2>1, <2>2, <2>3 DEF ClientInv
  <2> QED BY <2>4, BodyIsWhole
<1>2. RowInv /\ ClientInv /\ [Next]_vars => RowInv' /\ ClientInv'
  BY RowInvNext, ClientInvNext
<1>3. Init => RowInv /\ ClientInv
  BY RowInvInit, ClientInvInit
<1> QED BY <1>1, <1>2, <1>3, PTL DEF Spec

-----------------------------------------------------------------------------
(* Curves *)

\* The weeks that are kept have been accepted.
RowIsKept == row # None => row \in Seq(Week) /\ OfficialEvents(row) # Corrupt

\* GitHub's weeks, and those that were read of them.
WeeksInv ==
    /\ github \in Seq(Week) /\ Len(github) > 0
    /\ page # None => page \in Seq(Week)
    /\ RowIsKept

\* The points that the client holds go up to the stars they were asked for.
LineInv == client.body # Nothing => IsLine(client.body.points, client.tag.stars)

LEMMA PagesAreWeeks ==
    ASSUME WeeksInv
    PROVE  FirstPage \in Seq(Week) /\ OtherPages \in Seq(Week)
<1>1. Len(github) \in Nat /\ PerPage \in Nat /\ github \in Seq(Week)
  BY DEF WeeksInv
<1>2. Larger(1, Len(github) - PerPage + 1) \in Int /\ Larger(1, Len(github) - PerPage + 1) >= 1
  BY <1>1 DEF Larger
<1>3. FirstPage \in Seq(Week)
  BY <1>1, <1>2, SubSeqProperties DEF FirstPage
<1>4. OtherPages \in Seq(Week)
  BY <1>1, SubSeqProperties DEF OtherPages
<1> QED BY <1>3, <1>4

LEMMA KeepsWeeks ==
    ASSUME NEW weeks \in Seq(Week), NEW said, RowIsKept, Keep(weeks, said)
    PROVE  RowIsKept'
<1>1. CASE OfficialEvents(weeks) = Corrupt
  BY <1>1 DEF Keep, RowIsKept
<1>2. CASE OfficialEvents(weeks) # Corrupt
  <2>1. row' = Canonical(weeks)
    BY <1>2 DEF Keep
  <2>2. Canonical(weeks) \in Seq(Week)
    BY CanonicalIsLast
  <2>3. OfficialEvents(Canonical(weeks)) # Corrupt
    BY <1>2, KeptWeeksHaveEvents
  <2> QED BY <2>1, <2>2, <2>3 DEF RowIsKept
<1> QED BY <1>1, <1>2

LEMMA WeeksInvNext == WeeksInv /\ [Next]_vars => WeeksInv'
<1> SUFFICES ASSUME WeeksInv, [Next]_vars PROVE WeeksInv'
  OBVIOUS
<1>1. github \in Seq(Week) /\ Len(github) \in Nat \ {0} /\ github[Len(github)] \in Week
  BY DEF WeeksInv
<1>2. CASE BeginWeek
  <2>1. PICK days \in Patterns :
          github' = IF source = "official"
                    THEN Append(github, [start |-> github[Len(github)].start + 7, days |-> days])
                    ELSE github
    BY <1>2 DEF BeginWeek
  <2>2. [start |-> github[Len(github)].start + 7, days |-> days] \in Week
    BY <1>1 DEF Week
  <2>3. github' \in Seq(Week) /\ Len(github') > 0
    BY <1>1, <2>1, <2>2
  <2> QED BY <1>2, <2>3 DEF BeginWeek, server, WeeksInv, RowIsKept
<1>3. CASE ReviseWeek
  <2>1. PICK days \in Patterns : github' = [github EXCEPT ![Len(github)].days = days]
    BY <1>3 DEF ReviseWeek
  <2>2. [github[Len(github)] EXCEPT !.days = days] \in Week
    BY <1>1 DEF Week
  <2>3. github' = [github EXCEPT ![Len(github)] = [github[Len(github)] EXCEPT !.days = days]]
    BY <2>1
  <2>4. github' \in Seq(Week) /\ Len(github') = Len(github)
    BY <1>1, <2>2, <2>3
  <2> QED BY <1>1, <1>3, <2>4 DEF ReviseWeek, server, WeeksInv, RowIsKept
<1>4. CASE ReadFirst
  BY <1>4, PagesAreWeeks DEF ReadFirst, outside, WeeksInv, RowIsKept
<1>5. CASE ReadRest
  <2>1. page \o OtherPages \in Seq(Week)
    BY <1>5, PagesAreWeeks DEF ReadRest, WeeksInv
  <2>2. RowIsKept'
    BY <1>5, <2>1, KeepsWeeks DEF ReadRest, WeeksInv
  <2> QED BY <1>5, <2>2 DEF ReadRest, outside, WeeksInv
<1>6. CASE ReadRecent
  <2>1. row \o FirstPage \in Seq(Week)
    BY <1>6, PagesAreWeeks DEF ReadRecent, WeeksInv, RowIsKept
  <2>2. RowIsKept'
    BY <1>6, <2>1, KeepsWeeks DEF ReadRecent, WeeksInv
  <2> QED BY <1>6, <2>2 DEF ReadRecent, outside, WeeksInv
<1>7. CASE ApplyDelta
  BY <1>7 DEF ApplyDelta, outside, WeeksInv, RowIsKept
<1>8. ASSUME NEW kind \in Kinds, NEW stars \in StarCounts, Ask(kind, stars) PROVE WeeksInv'
  BY <1>8 DEF Ask, server, outside, WeeksInv, RowIsKept
<1>9. CASE PassDay \/ Describe \/ Republish
  BY <1>9, UpdatesLeave DEF WeeksInv, RowIsKept
<1>10. CASE UNCHANGED vars
  BY <1>10 DEF vars, server, outside, WeeksInv, RowIsKept
<1> QED BY <1>2, <1>3, <1>4, <1>5, <1>6, <1>7, <1>8, <1>9, <1>10 DEF Next

LEMMA EventsAreSeries ==
    ASSUME RowInv, WeeksInv, IsFound, Events # Corrupt
    PROVE  IsSeries(Events)
<1>1. CASE source = "official"
  BY <1>1, OfficialIsSeries DEF Events, IsFound, WeeksInv, RowIsKept
<1>2. CASE source # "official"
  BY <1>2, StoredDecodes DEF Events, IsFound, RowInv
<1> QED BY <1>1, <1>2

LEMMA LineInvNext == RowInv /\ WeeksInv /\ LineInv /\ [Next]_vars => LineInv'
<1> SUFFICES ASSUME RowInv, WeeksInv, LineInv, [Next]_vars PROVE LineInv'
  OBVIOUS
<1>1. ASSUME UNCHANGED client PROVE LineInv'
  BY <1>1 DEF LineInv
<1>2. ASSUME NEW kind \in Kinds, NEW stars \in StarCounts, Ask(kind, stars) PROVE LineInv'
  <2> DEFINE points == Normalize(Events, stars)
  <2>1. CASE \E status : client' = [kind |-> kind, status |-> status, tag |-> Nothing, body |-> Nothing]
    BY <2>1 DEF LineInv
  <2>2. CASE client' = [kind |-> kind, status |-> 304, tag |-> client.tag, body |-> client.body]
    BY <2>2 DEF LineInv
  <2>3. CASE /\ IsFound /\ Events # Corrupt /\ CanNormalize(Events)
             /\ client' = [kind |-> kind, status |-> 200, tag |-> Tag(kind, stars),
                           body |-> Body(kind, points, stars)]
    <3>1. stars \in Nat /\ today \in Int
      <4>1. StarCounts \subseteq Nat
        OBVIOUS
      <4>2. today \in Int
        BY DEF RowInv
      <4> QED BY <4>1, <4>2
    <3>2. IsLine(points, stars)
      BY <2>3, <3>1, EventsAreSeries, CurvesRise
    <3> HIDE DEF points
    <3>3. kind # "card" => IsLine(SelectRange(points, kind, today), stars)
      BY <3>1, <3>2, SelectionsRise DEF Kinds
    <3>4. IsLine(Body(kind, points, stars).points, stars)
      BY <3>2, <3>3 DEF Body, BodyOf
    <3>5. client'.body = Body(kind, points, stars) /\ client'.tag.stars = stars
      BY <2>3 DEF Tag
    <3> QED BY <3>4, <3>5 DEF LineInv
  <2> QED BY <1>1, <1>2, <2>1, <2>2, <2>3, AskOutcome
<1>3. CASE BeginWeek
  BY <1>1, <1>3 DEF BeginWeek
<1>4. CASE ReviseWeek
  BY <1>1, <1>4 DEF ReviseWeek
<1>5. CASE ReadFirst
  BY <1>1, <1>5 DEF ReadFirst
<1>6. CASE ReadRest
  BY <1>1, <1>6 DEF ReadRest
<1>7. CASE ReadRecent
  BY <1>1, <1>7 DEF ReadRecent
<1>8. CASE ApplyDelta
  BY <1>1, <1>8 DEF ApplyDelta
<1>9. CASE PassDay \/ Describe \/ Republish
  BY <1>1, <1>9, UpdatesLeave
<1>10. CASE UNCHANGED vars
  BY <1>1, <1>10 DEF vars
<1> QED BY <1>2, <1>3, <1>4, <1>5, <1>6, <1>7, <1>8, <1>9, <1>10 DEF Next

\* The curve of every reply, from either source, goes on from day to day, never
\* falls and ends at the stars it was asked for, whatever the products wrap to
\* (history.go 27-67, 71-133).
THEOREM CurvesAreMonotone == Spec => []CurveIsMonotone
<1>1. LineInv => CurveIsMonotone
  <2> SUFFICES ASSUME LineInv, client.body # Nothing
               PROVE  /\ \A i \in 2 .. Len(Shown) :
                           /\ Shown[i - 1].day < Shown[i].day
                           /\ Shown[i - 1].count <= Shown[i].count
                      /\ Shown # << >> => Latest(Shown).count = client.tag.stars
    BY DEF CurveIsMonotone
  <2>1. Shown = client.body.points /\ IsLine(Shown, client.tag.stars)
    BY DEF LineInv, Shown
  <2> HIDE DEF Shown
  <2>2. Len(Shown) \in Nat
    BY <2>1 DEF IsLine
  <2>3. ASSUME NEW i \in 2 .. Len(Shown)
        PROVE  Shown[i - 1].day < Shown[i].day /\ Shown[i - 1].count <= Shown[i].count
    <3>1. i - 1 \in 1 .. Len(Shown) /\ i \in 1 .. Len(Shown) /\ i - 1 < i
      BY <2>2
    <3> QED BY <2>1, <3>1 DEF IsLine
  <2>4. Shown # << >> => Latest(Shown).count = client.tag.stars
    BY <2>1 DEF IsLine, Latest
  <2> QED BY <2>3, <2>4
<1>2. Init => RowInv /\ WeeksInv /\ LineInv
  <2>1. Init => WeeksInv
    BY DEF Init, WeeksInv, RowIsKept
  <2>2. Init => LineInv
    BY DEF Init, LineInv
  <2> QED BY <2>1, <2>2, RowInvInit
<1>3. RowInv /\ WeeksInv /\ LineInv /\ [Next]_vars => RowInv' /\ WeeksInv' /\ LineInv'
  BY RowInvNext, WeeksInvNext, LineInvNext
<1> QED BY <1>1, <1>2, <1>3, PTL DEF Spec

-----------------------------------------------------------------------------
(* What the client holds *)

\* With a body there is its tag; the stars are those of a request, and a card has
\* been drawn through two points, of metadata that there were.
ReplyInv ==
    /\ client.status \in {0, 200, 304, 404}
    /\ (client.body = Nothing) <=> (client.status \in {0, 404})
    /\ (client.body = Nothing) <=> (client.tag = Nothing)
    /\ client.body # Nothing =>
          /\ client.tag.stars \in StarCounts
          /\ client.kind = "card" => /\ Len(client.body.points) >= 2
                                     /\ client.body.metadata \in Metadata

\* Where the events come from, what is known of the repository, the date of what is
\* served, and how often something changed.
SettingInv ==
    /\ source \in {"official", "archive"}
    /\ metadata \in Metadata
    /\ today \in Nat /\ generated \in Nat /\ generated <= today
    /\ changes \in 0 .. MaxChanges

LEMMA SettingInvInit == Init => SettingInv
<1> SUFFICES ASSUME Init PROVE SettingInv
  OBVIOUS
<1>1. today \in Nat
  BY RowInvInit DEF RowInv
<1> QED BY <1>1 DEF Init, SettingInv

\* What is kept has the date of now.
LEMMA KeptNow ==
    ASSUME SettingInv, NEW weeks, NEW said, Keep(weeks, said),
           UNCHANGED <<source, metadata, today, changes>>
    PROVE  SettingInv'
<1>1. generated' \in {generated, today}
  BY DEF Keep
<1> QED BY <1>1 DEF SettingInv

LEMMA SettingInvNext == SettingInv /\ [Next]_vars => SettingInv'
<1> SUFFICES ASSUME SettingInv, [Next]_vars PROVE SettingInv'
  OBVIOUS
<1>1. ASSUME UNCHANGED <<source, metadata, generated>>, today' \in {today, today + 7},
             changes < MaxChanges, changes' = changes + 1
      PROVE  SettingInv'
  BY <1>1 DEF SettingInv
<1>2. ASSUME UNCHANGED <<source, metadata, today, generated, changes>> PROVE SettingInv'
  BY <1>2 DEF SettingInv
<1>3. CASE BeginWeek
  BY <1>1, <1>3 DEF BeginWeek, server
<1>4. CASE ReviseWeek
  BY <1>1, <1>4 DEF ReviseWeek, server
<1>5. CASE PassDay
  BY <1>5 DEF PassDay, server, SettingInv
<1>6. CASE Describe
  <2>1. PICK other \in Metadata : metadata' = other
    BY <1>6 DEF Describe
  <2> QED BY <1>6, <2>1 DEF Describe, server, SettingInv
<1>7. CASE ReadFirst
  BY <1>2, <1>7 DEF ReadFirst, outside, observed
<1>8. CASE ReadRest
  BY <1>8, KeptNow DEF ReadRest, outside
<1>9. CASE ReadRecent
  BY <1>9, KeptNow DEF ReadRecent, outside
<1>10. CASE ApplyDelta
  <2>1. generated' \in {generated, today} /\ changes < MaxChanges /\ changes' = changes + 1
        /\ UNCHANGED <<source, metadata, today>>
    BY <1>10 DEF ApplyDelta, outside
  <2> QED BY <2>1 DEF SettingInv
<1>11. CASE Republish
  BY <1>11 DEF Republish, outside, SettingInv
<1>12. ASSUME NEW kind \in Kinds, NEW stars \in StarCounts, Ask(kind, stars) PROVE SettingInv'
  BY <1>2, <1>12 DEF Ask, server, outside, observed
<1>13. CASE UNCHANGED vars
  BY <1>2, <1>13 DEF vars, server, outside, observed
<1> QED BY <1>3, <1>4, <1>5, <1>6, <1>7, <1>8, <1>9, <1>10, <1>11, <1>12, <1>13 DEF Next

\* What is kept, from either source, can be read: no request fails with it.
LEMMA EventsCanBeRead ==
    ASSUME RowInv, WeeksInv, IsFound
    PROVE  Events # Corrupt /\ IsSeries(Events)
<1>1. CASE source = "official"
  BY <1>1, OfficialIsSeries DEF Events, IsFound, WeeksInv, RowIsKept
<1>2. CASE source # "official"
  BY <1>2, StoredDecodes DEF Events, IsFound, RowInv
<1> QED BY <1>1, <1>2

LEMMA TagsAndBodies ==
    ASSUME NEW kind, NEW points, NEW stars
    PROVE  Tag(kind, stars) # Nothing /\ Body(kind, points, stars) # Nothing
<1>1. "kind" \in DOMAIN Tag(kind, stars)
  BY DEF Tag
<1>2. "points" \in DOMAIN Body(kind, points, stars)
  BY DEF Body, BodyOf
<1>3. DOMAIN Nothing = 1 .. 0
  BY DEF Nothing
<1>4. \A x \in 1 .. 0 : FALSE
  OBVIOUS
<1> QED BY <1>1, <1>2, <1>3, <1>4

\* No request for what is found ends in an error of the server.
LEMMA ReplyInvAsk ==
    ASSUME RowInv, WeeksInv, ReplyInv, SettingInv, NEW kind \in Kinds, NEW stars \in StarCounts,
           ClientInv, Ask(kind, stars)
    PROVE  ReplyInv'
<1> DEFINE points == Normalize(Events, stars)
           body == Body(kind, points, stars)
           tag == Tag(kind, stars)
<1>1. stars \in Nat
  BY StarsFit
<1>2. ASSUME IsFound, CanNormalize(Events), HasContent(kind, points)
      PROVE  ~(kind = "card" /\ ~CanRender(points, stars))
  <2> SUFFICES ASSUME kind = "card" PROVE CanRender(points, stars)
    OBVIOUS
  <2>1. IsLine(points, stars)
    BY <1>1, <1>2, EventsCanBeRead, CurvesRise
  <2> HIDE DEF points
  <2>2. Len(points) >= 2
    BY <1>2 DEF HasContent
  <2>3. points # << >>
    <3>1. Len(<< >>) = 0
      OBVIOUS
    <3> QED BY <2>2, <3>1
  <2>4. Latest(points).count = stars
    BY <2>1, <2>3 DEF IsLine, Latest
  <2> QED BY <2>2, <2>4 DEF CanRender
<1>3. /\ IsFound => Events # Corrupt
      /\ tag # Nothing /\ body # Nothing /\ tag.stars = stars
      /\ kind = "card" => body.points = points /\ body.metadata \in Metadata
      /\ HasContent(kind, points) /\ kind = "card" => Len(points) >= 2
  BY EventsCanBeRead, TagsAndBodies DEF Tag, Body, BodyOf, HasContent, SettingInv
<1>4. \/ UNCHANGED client
      \/ client' = [kind |-> kind, status |-> 404, tag |-> Nothing, body |-> Nothing]
      \/ /\ client.tag = tag
         /\ client' = [kind |-> kind, status |-> 304, tag |-> client.tag, body |-> client.body]
      \/ /\ HasContent(kind, points)
         /\ client' = [kind |-> kind, status |-> 200, tag |-> tag, body |-> body]
  BY <1>2, <1>3 DEF Ask, Reply
<1> HIDE DEF points, body, tag
<1>5. CASE UNCHANGED client
  BY <1>5 DEF ReplyInv
<1>6. CASE client' = [kind |-> kind, status |-> 404, tag |-> Nothing, body |-> Nothing]
  BY <1>6 DEF ReplyInv
<1>7. CASE /\ client.tag = tag
           /\ client' = [kind |-> kind, status |-> 304, tag |-> client.tag, body |-> client.body]
  <2>1. client.body # Nothing /\ client.tag # Nothing
    BY <1>3, <1>7 DEF ReplyInv
  <2>2. client.kind = kind
    BY <1>7, <2>1 DEF ClientInv, Tag, tag
  <2>3. /\ client'.kind = client.kind /\ client'.status = 304
        /\ client'.tag = client.tag /\ client'.body = client.body
    BY <1>7, <2>2
  <2> QED BY <2>1, <2>3 DEF ReplyInv
<1>8. CASE /\ HasContent(kind, points)
           /\ client' = [kind |-> kind, status |-> 200, tag |-> tag, body |-> body]
  BY <1>3, <1>8 DEF ReplyInv
<1> QED BY <1>4, <1>5, <1>6, <1>7, <1>8

LEMMA ReplyInvNext ==
    RowInv /\ WeeksInv /\ ClientInv /\ SettingInv /\ ReplyInv /\ [Next]_vars => ReplyInv'
<1> SUFFICES ASSUME RowInv, WeeksInv, ClientInv, SettingInv, ReplyInv, [Next]_vars PROVE ReplyInv'
  OBVIOUS
<1>1. ASSUME UNCHANGED client PROVE ReplyInv'
  BY <1>1 DEF ReplyInv
<1>2. ASSUME NEW kind \in Kinds, NEW stars \in StarCounts, Ask(kind, stars) PROVE ReplyInv'
  BY <1>2, ReplyInvAsk
<1>3. CASE BeginWeek
  BY <1>1, <1>3 DEF BeginWeek
<1>4. CASE ReviseWeek
  BY <1>1, <1>4 DEF ReviseWeek
<1>5. CASE ReadFirst
  BY <1>1, <1>5 DEF ReadFirst
<1>6. CASE ReadRest
  BY <1>1, <1>6 DEF ReadRest
<1>7. CASE ReadRecent
  BY <1>1, <1>7 DEF ReadRecent
<1>8. CASE ApplyDelta
  BY <1>1, <1>8 DEF ApplyDelta
<1>9. CASE PassDay \/ Describe \/ Republish
  BY <1>1, <1>9, UpdatesLeave
<1>10. CASE UNCHANGED vars
  BY <1>1, <1>10 DEF vars
<1> QED BY <1>2, <1>3, <1>4, <1>5, <1>6, <1>7, <1>8, <1>9, <1>10 DEF Next

\* All of these, which preserve one another.
RepliesInv == RowInv /\ WeeksInv /\ ClientInv /\ LineInv /\ ReplyInv /\ SettingInv

LEMMA RepliesAreInvariant == Spec => []RepliesInv
<1>1. Init => RepliesInv
  <2> SUFFICES ASSUME Init PROVE RepliesInv
    OBVIOUS
  <2>1. WeeksInv
    BY DEF Init, WeeksInv, RowIsKept
  <2>2. LineInv /\ ReplyInv
    BY DEF Init, LineInv, ReplyInv
  <2> QED BY <2>1, <2>2, RowInvInit, ClientInvInit, SettingInvInit DEF RepliesInv
<1>2. RepliesInv /\ [Next]_vars => RepliesInv'
  BY RowInvNext, WeeksInvNext, ClientInvNext, LineInvNext, ReplyInvNext, SettingInvNext
     DEF RepliesInv
<1> QED BY <1>1, <1>2, PTL DEF Spec

\* The types of the state.  What is stored fits into its words and can be read again,
\* and no reply is an error of the server (store.go 760-787, official.go 15-52,
\* history.go 205-253).
THEOREM RepliesAreTyped == Spec => []TypeOK
<1>1. RepliesInv => TypeOK
  <2> SUFFICES ASSUME RepliesInv PROVE TypeOK
    OBVIOUS
  <2> USE DEF RepliesInv
  <2>1. /\ source \in {"official", "archive"} /\ metadata \in Metadata
        /\ changes \in 0 .. MaxChanges
    BY DEF SettingInv
  <2>2. today \in Nat /\ generated \in Nat /\ generated <= today
    BY DEF SettingInv
  <2>3. row # None => \A week \in ToSet(row) : WeekIsValid(week)
    BY DEF WeeksInv, RowIsKept, OfficialEvents
  <2>4. ASSUME stored # None
        PROVE  stored.total \in 1 .. MaxInt /\ Len(stored.series) = 2 * stored.points
    <3>1. IsSeries(applied) /\ Total(applied) \in 1 .. MaxInt /\ stored = Row(applied)
      BY <2>4 DEF RowInv
    <3>2. stored.total = Total(applied)
      BY <3>1, StoredDecodes
    <3>3. Len(Encode(applied)) = 2 * Cardinality(DOMAIN applied)
      BY <3>1, EncodeShape
    <3> QED BY <3>1, <3>2, <3>3 DEF Row
  <2>5. client.status \in {0, 200, 304, 404} /\ ((client.body = Nothing) <=> (client.status \in {0, 404}))
    BY DEF ReplyInv
  <2>6. IsCurve(Shown)
    <3>1. CASE client.body = Nothing
      <4>1. Shown = << >>
        BY <3>1 DEF Shown
      <4> QED BY <4>1 DEF IsCurve
    <3>2. CASE client.body # Nothing
      <4>1. /\ IsLine(Shown, client.tag.stars)
            /\ client.tag.stars \in Nat /\ client.tag.stars <= MaxInt
        <5>1. client.tag.stars \in StarCounts
          BY <3>2 DEF ReplyInv
        <5>2. IsLine(Shown, client.tag.stars)
          BY <3>2 DEF LineInv, Shown
        <5> QED BY <5>1, <5>2, StarsFit
      <4>2. /\ DOMAIN Shown = 1 .. Len(Shown)
            /\ \A i \in 1 .. Len(Shown) : Shown[i].day \in Nat /\ Shown[i].count \in Nat
        BY <4>1, LineFacts
      <4>3. \A i \in 1 .. Len(Shown) : Shown[i].count <= client.tag.stars
        BY <4>1 DEF IsLine
      <4> HIDE DEF Shown
      <4>4. \A i \in 1 .. Len(Shown) : Shown[i].count \in 0 .. MaxInt
        BY <4>1, <4>2, <4>3, WordSize
      <4> QED BY <4>2, <4>4 DEF IsCurve
    <3> QED BY <3>1, <3>2
  <2> QED BY <2>1, <2>2, <2>3, <2>4, <2>5, <2>6 DEF TypeOK
<1> QED BY <1>1, RepliesAreInvariant, PTL

-----------------------------------------------------------------------------
(* Cards *)

\* A card that the client holds was drawn of the curve that came with it, and of the
\* creation that was known.
LEMMA CardsAreRendered ==
    ASSUME RepliesInv, HasCard
    PROVE  LET created == client.body.metadata.created
           IN /\ client.tag.stars \in Nat /\ created \in Nat \cup {None}
              /\ IsLine(Shown, client.tag.stars) /\ Len(Shown) > 0
              /\ client.body.card = Render(Shown, created, client.tag.stars, client.body.generated)
<1> USE DEF RepliesInv
<1>1. client.body # Nothing /\ client.kind = "card" /\ Shown = client.body.points
  BY DEF HasCard, Shown
<1>2. client.tag.stars \in Nat
  <2>1. client.tag.stars \in StarCounts
    BY <1>1 DEF ReplyInv
  <2> QED BY <2>1, StarsFit
<1>3. client.body.metadata.created \in Nat \cup {None}
  <2>1. client.body.metadata \in Metadata
    BY <1>1 DEF ReplyInv
  <2>2. client.body.metadata.created \in Creations
    BY <2>1 DEF Metadata
  <2> QED BY <2>2
<1>4. IsLine(Shown, client.tag.stars)
  BY <1>1 DEF LineInv
<1>5. Len(Shown) > 0
  <2>1. Len(Shown) >= 2 /\ Len(Shown) \in Nat
    BY <1>1, <1>4, LineFacts DEF ReplyInv
  <2> QED BY <2>1
<1>6. client.body.card = Render(Shown, client.body.metadata.created, client.tag.stars,
                                client.body.generated)
  <2> DEFINE points == Normalize(Meaning(client.tag.events), client.tag.stars)
             date == client.body.generated
             repository == client.body.metadata
  <2>1. client.body = WholeBody("card", points, client.tag.stars, date, repository)
    BY <1>1 DEF ClientInv
  <2> HIDE DEF points, date, repository
  <2>2. client.body = [points |-> points,
                       card |-> Render(points, repository.created, client.tag.stars, date),
                       generated |-> date, metadata |-> repository]
    BY <2>1 DEF WholeBody
  <2>3. /\ client.body.points = points
        /\ client.body.card = Render(points, repository.created, client.tag.stars, date)
    BY <2>2
  <2> QED BY <1>1, <2>3 DEF date, repository
<1> QED BY <1>2, <1>3, <1>4, <1>5, <1>6

\* The line of every card goes from the first to the last point of its curve, or from
\* the creation, through at most MaximumDrawn of its points, in order and never
\* falling (render.go 784-878).
THEOREM CardLinesAreDrawn == Spec => []LineIsDrawn
<1>1. RepliesInv => LineIsDrawn
  <2> SUFFICES ASSUME RepliesInv, HasCard PROVE LineIsDrawn
    BY DEF LineIsDrawn
  <2> DEFINE drawn == client.body.card.drawn
             plotted == AddingCreationBaseline(Shown, client.body.metadata.created)
  <2>1. IsDrawnOf(drawn, plotted) /\ Len(drawn) <= MaximumDrawn
    BY CardsAreRendered, CardIsOfTheCurve
  <2> HIDE DEF drawn, plotted
  <2>2. Len(drawn) \in Nat
    BY <2>1 DEF IsDrawnOf
  <2>3. ASSUME NEW i \in 2 .. Len(drawn)
        PROVE  drawn[i - 1].day < drawn[i].day /\ drawn[i - 1].count <= drawn[i].count
    <3>1. i - 1 \in 1 .. Len(drawn) /\ i \in 1 .. Len(drawn) /\ i - 1 < i
      BY <2>2
    <3> QED BY <2>1, <3>1 DEF IsDrawnOf
  <2> QED BY <2>1, <2>3 DEF LineIsDrawn, IsDrawnOf, drawn, plotted
<1> QED BY <1>1, RepliesAreInvariant, PTL

\* On every card each event of the chart is at a point of the line, and a milestone
\* parts the points below its threshold from the others (render.go 567-620, 801-835).
THEOREM CardMilestonesAreOnTheLine == Spec => []MilestonesAreOnTheLine
<1>1. RepliesInv => MilestonesAreOnTheLine
  <2> SUFFICES ASSUME RepliesInv, HasCard PROVE MilestonesAreOnTheLine
    BY DEF MilestonesAreOnTheLine
  <2>1. \A event \in ToSet(client.body.card.journey.chart) :
           /\ event.point \in ToSet(client.body.card.drawn)
           /\ event.kind = "milestone" => IsMilestoneOf(event, client.body.card.drawn)
    BY CardsAreRendered, CardIsOfTheCurve
  <2> QED BY <2>1 DEF MilestonesAreOnTheLine, IsMilestoneOf
<1> QED BY <1>1, RepliesAreInvariant, PTL

\* No burst of the journey that lies in the period of the metrics is larger than the
\* growth that they show (render.go 500-537, 655-700).
THEOREM CardBurstsFitThePeriod == Spec => []BurstsFitThePeriod
<1>1. RepliesInv => BurstsFitThePeriod
  <2> SUFFICES ASSUME RepliesInv, HasCard, client.body.card.metrics.growth # None
               PROVE  LET metrics == client.body.card.metrics
                      IN /\ metrics.growth \in 0 .. Latest(Shown).count
                         /\ \A event \in ToSet(client.body.card.journey.ranked) :
                               (/\ event.kind \in {"bestDay", "bestWeek", "spike"}
                                /\ event.day - 7 >= Latest(Shown).day - metrics.days)
                               => event.size <= metrics.growth
    BY DEF BurstsFitThePeriod
  <2> DEFINE created == client.body.metadata.created
             date == client.body.generated
             coverageStart == First(Shown).day
  <2>1. /\ client.tag.stars \in Nat /\ created \in Nat \cup {None}
        /\ IsLine(Shown, client.tag.stars) /\ Len(Shown) > 0
        /\ client.body.card.metrics = BuildMetrics(Shown, created, coverageStart, date)
        /\ client.body.card.journey
           = BuildJourney(Shown, created, client.tag.stars, coverageStart)
    BY CardsAreRendered DEF Render
  <2> HIDE DEF created, date, coverageStart
  <2>2. \A event \in ToSet(client.body.card.journey.ranked) : IsEventOf(event, Shown)
    BY <2>1, JourneyIsOfTheCurve
  <2>3. /\ client.body.card.metrics.growth \in 0 .. Latest(Shown).count
        /\ \A event :
              (/\ IsEventOf(event, Shown) /\ event.kind \in Bursts
               /\ event.day - 7 >= Latest(Shown).day - client.body.card.metrics.days)
              => event.size <= client.body.card.metrics.growth
    BY <2>1, MetricsCoverBursts
  <2> QED BY <2>2, <2>3 DEF Bursts
<1> QED BY <1>1, RepliesAreInvariant, PTL

-----------------------------------------------------------------------------
(* What GitHub said *)

\* The recursion of the fold of what was said.
IsHearing(g, before, weeks, S) ==
    g = [s \in SUBSET S |->
            IF s = {} THEN before ELSE Saying(g[s \ {Max(s)}], weeks[Max(s)])]

LEMMA HearingExists ==
    ASSUME NEW before, NEW weeks, NEW S, IsFiniteSet(S), S \subseteq Int
    PROVE  \E g : IsHearing(g, before, weeks, S)
<1> DEFINE More(said, k) == Saying(said, weeks[k])
           F == {s \in SUBSET S : \E g : IsHearing(g, before, weeks, s)}
<1>1. {} \in F
  <2> DEFINE g == [s \in SUBSET {} |-> before]
  <2>1. IsHearing(g, before, weeks, {})
    BY DEF IsHearing
  <2> QED BY <2>1
<1>2. ASSUME NEW s \in SUBSET S, s # {}, \A x \in s : s \ {x} \in F PROVE s \in F
  <2> DEFINE m == Max(s)
  <2>1. m \in s /\ \A y \in s : y <= m
    BY <1>2, FS_Subset, MaxOfFinite
  <2>2. PICK g : IsHearing(g, before, weeks, s \ {m})
    BY <1>2, <2>1
  <2> DEFINE h == [t \in SUBSET s |-> IF m \in t THEN More(g[t \ {m}], m) ELSE g[t]]
  <2>3. ASSUME NEW t \in SUBSET s, t # {} PROVE h[t] = More(h[t \ {Max(t)}], Max(t))
    <3>1. Max(t) \in t /\ \A y \in t : y <= Max(t)
      BY <2>3, FS_Subset, MaxOfFinite
    <3>2. CASE m \in t
      <4>1. Max(t) \in Int /\ m \in Int /\ Max(t) <= m /\ m <= Max(t)
        BY <2>1, <3>1, <3>2
      <4>2. Max(t) = m
        BY <4>1
      <4>3. h[t] = More(g[t \ {m}], m) /\ h[t \ {m}] = g[t \ {m}]
        BY <3>2
      <4> HIDE DEF h, More
      <4> QED BY <4>2, <4>3
    <3>3. CASE m \notin t
      <4>1. g[t] = More(g[t \ {Max(t)}], Max(t))
        BY <2>2, <2>3, <3>3 DEF IsHearing
      <4>2. h[t] = g[t] /\ h[t \ {Max(t)}] = g[t \ {Max(t)}]
        BY <3>3
      <4> HIDE DEF h, More
      <4> QED BY <4>1, <4>2
    <3> QED BY <3>2, <3>3
  <2>4. h[{}] = before
    BY <2>2 DEF IsHearing
  <2>5. h = [t \in SUBSET s |-> h[t]]
    OBVIOUS
  <2> HIDE DEF h
  <2>6. IsHearing(h, before, weeks, s)
    BY <2>3, <2>4, <2>5 DEF IsHearing
  <2> QED BY <2>6
<1>3. SUBSET S \subseteq F
  <2> HIDE DEF F
  <2> QED BY <1>1, <1>2, SubsetInduction
<1> QED BY <1>3

\* No later one of the first weeks begins on the same day.
IsLastOf(weeks, i, k) == \A j \in 1 .. k : weeks[j].start = weeks[i].start => j <= i

FirstStarts(weeks, k) == {weeks[i].start : i \in 1 .. k}

\* What was said with the first weeks: the last word on each, and on other weeks what
\* was said before.
HasHeard(said, before, weeks, k) ==
    /\ said = [start \in DOMAIN before \cup FirstStarts(weeks, k) |-> said[start]]
    /\ \A i \in 1 .. k : IsLastOf(weeks, i, k) => said[weeks[i].start] = weeks[i].days
    /\ \A start \in DOMAIN before : start \notin FirstStarts(weeks, k) => said[start] = before[start]

LEMMA SayingHears ==
    ASSUME NEW before, NEW weeks, NEW k \in Nat, NEW said, HasHeard(said, before, weeks, k)
    PROVE  HasHeard(Saying(said, weeks[k + 1]), before, weeks, k + 1)
<1> DEFINE next == Saying(said, weeks[k + 1])
           D == DOMAIN before
<1>1. said = [start \in D \cup FirstStarts(weeks, k) |-> said[start]]
  BY DEF HasHeard
<1>2. FirstStarts(weeks, k + 1) = FirstStarts(weeks, k) \cup {weeks[k + 1].start}
  <2>1. \A i : i \in 1 .. k + 1 <=> i \in 1 .. k \/ i = k + 1
    OBVIOUS
  <2> QED BY <2>1 DEF FirstStarts
<1>3. \A start : start \in DOMAIN said <=> start \in D \cup FirstStarts(weeks, k)
  <2> HIDE DEF D
  <2> QED BY <1>1
<1>4. next = [start \in DOMAIN said \cup {weeks[k + 1].start} |->
                 IF start = weeks[k + 1].start THEN weeks[k + 1].days ELSE said[start]]
  BY DEF Saying
<1> HIDE DEF next
<1>5. next = [start \in D \cup FirstStarts(weeks, k + 1) |-> next[start]]
  <2> HIDE DEF D
  <2>1. D \cup FirstStarts(weeks, k + 1) = DOMAIN said \cup {weeks[k + 1].start}
    BY <1>2, <1>3
  <2> QED BY <1>4, <2>1
<1>6. \A start \in D \cup FirstStarts(weeks, k + 1) :
         next[start] = IF start = weeks[k + 1].start THEN weeks[k + 1].days ELSE said[start]
  <2> HIDE DEF D
  <2> QED BY <1>2, <1>3, <1>4
<1>7. ASSUME NEW i \in 1 .. k + 1, IsLastOf(weeks, i, k + 1)
      PROVE  next[weeks[i].start] = weeks[i].days
  <2>1. CASE i = k + 1
    BY <1>2, <1>6, <2>1
  <2>2. CASE i # k + 1
    <3>1. i \in 1 .. k /\ ~(k + 1 <= i) /\ k + 1 \in 1 .. k + 1
      BY <2>2
    <3>2. weeks[i].start # weeks[k + 1].start
      BY <1>7, <3>1 DEF IsLastOf
    <3>3. \A j \in 1 .. k : j \in 1 .. k + 1
      OBVIOUS
    <3>4. IsLastOf(weeks, i, k)
      BY <1>7, <3>3 DEF IsLastOf
    <3>5. said[weeks[i].start] = weeks[i].days
      BY <3>1, <3>4 DEF HasHeard
    <3>6. weeks[i].start \in FirstStarts(weeks, k)
      BY <3>1 DEF FirstStarts
    <3> QED BY <1>2, <1>6, <3>2, <3>5, <3>6
  <2> QED BY <2>1, <2>2
<1>8. ASSUME NEW start \in D, start \notin FirstStarts(weeks, k + 1)
      PROVE  next[start] = before[start]
  <2>1. start # weeks[k + 1].start /\ start \notin FirstStarts(weeks, k)
    BY <1>2, <1>8
  <2>2. said[start] = before[start]
    BY <2>1 DEF HasHeard
  <2>3. next[start] = said[start]
    BY <1>6, <2>1
  <2> QED BY <2>2, <2>3
<1> QED BY <1>5, <1>7, <1>8 DEF HasHeard, next

\* Of each week the last word is kept, and what was said of weeks that are not
\* mentioned again.
LEMMA SaidIsHeard ==
    ASSUME NEW weeks \in Seq(Week), NEW before, before = [start \in DOMAIN before |-> before[start]]
    PROVE  HasHeard(Said(weeks, before), before, weeks, Len(weeks))
<1> DEFINE n == Len(weeks)
           iter == CHOOSE g : IsHearing(g, before, weeks, 1 .. n)
           S == {k \in Nat : k <= n => HasHeard(iter[1 .. k], before, weeks, k)}
<1>1. n \in Nat /\ DOMAIN weeks = 1 .. n
  OBVIOUS
<1>2. Said(weeks, before) = iter[1 .. n]
  <2> HIDE DEF n
  <2> QED BY <1>1 DEF Said, FoldLeft, MapThenFoldSet, IsHearing
<1> HIDE DEF n
<1>3. IsHearing(iter, before, weeks, 1 .. n)
  <2>1. n \in Int
    BY <1>1
  <2>2. IsFiniteSet(1 .. n) /\ 1 .. n \subseteq Int
    BY <2>1, FS_Interval
  <2>3. \E g : IsHearing(g, before, weeks, 1 .. n)
    BY <2>2, HearingExists
  <2> QED BY <2>3
<1> HIDE DEF iter
<1>4. 0 \in S
  <2>1. 1 .. 0 = {} /\ {} \in SUBSET (1 .. n)
    OBVIOUS
  <2>2. iter[1 .. 0] = before
    BY <1>3, <2>1 DEF IsHearing
  <2>3. FirstStarts(weeks, 0) = {}
    BY <2>1 DEF FirstStarts
  <2>4. HasHeard(before, before, weeks, 0)
    BY <2>1, <2>3 DEF HasHeard
  <2> QED BY <2>2, <2>4
<1>5. ASSUME NEW k \in Nat, k \in S PROVE k + 1 \in S
  <2> SUFFICES ASSUME k + 1 <= n PROVE HasHeard(iter[1 .. k + 1], before, weeks, k + 1)
    OBVIOUS
  <2>1. k <= n
    BY <1>1
  <2>2. HasHeard(iter[1 .. k], before, weeks, k)
    BY <1>5, <2>1
  <2>3. 1 .. k + 1 \in SUBSET (1 .. n) /\ 1 .. k + 1 # {}
    <3>1. \A i \in 1 .. k + 1 : i \in 1 .. n
      BY <1>1
    <3>2. k + 1 \in 1 .. k + 1
      OBVIOUS
    <3> QED BY <3>1, <3>2
  <2>4. Max(1 .. k + 1) = k + 1 /\ (1 .. k + 1) \ {k + 1} = 1 .. k
    BY MaxOfPrefix
  <2>5. iter[1 .. k + 1] = Saying(iter[1 .. k], weeks[k + 1])
    BY <1>3, <2>3, <2>4 DEF IsHearing
  <2> QED BY <2>2, <2>5, SayingHears
<1>6. Nat \subseteq S
  <2> HIDE DEF S
  <2> QED BY <1>4, <1>5, Induction
<1>7. HasHeard(iter[1 .. n], before, weeks, n)
  BY <1>1, <1>6
<1> QED BY <1>2, <1>7 DEF n

\* What was said is about these weeks, and says what they do.
Says(said, weeks) ==
    /\ said = [start \in Starts(weeks) |-> said[start]]
    /\ \A i \in 1 .. Len(weeks) : said[weeks[i].start] = weeks[i].days

LEMMA PartsOfWeeks ==
    ASSUME NEW a \in Seq(Week), NEW b \in Seq(Week)
    PROVE  /\ a \o b \in Seq(Week)
           /\ Len(a) \in Nat /\ Len(b) \in Nat /\ Len(a \o b) = Len(a) + Len(b)
           /\ \A j \in 1 .. Len(a) : (a \o b)[j] = a[j]
           /\ \A j \in 1 .. Len(b) : (a \o b)[Len(a) + j] = b[j]
           /\ Starts(a \o b) = Starts(a) \cup Starts(b)
           /\ Starts(a) = FirstStarts(a, Len(a)) /\ Starts(b) = FirstStarts(b, Len(b))
<1> DEFINE c == a \o b
           m == Len(a)
           n == Len(b)
<1>1. /\ c \in Seq(Week) /\ m \in Nat /\ n \in Nat /\ Len(c) = m + n
      /\ \A j \in 1 .. m : c[j] = a[j]
      /\ \A j \in 1 .. n : c[m + j] = b[j]
  OBVIOUS
<1>2. DOMAIN a = 1 .. m /\ DOMAIN b = 1 .. n /\ DOMAIN c = 1 .. Len(c)
  OBVIOUS
<1> HIDE DEF c, m, n
<1>3. \A x : x \in Starts(a) <=> \E j \in 1 .. m : x = a[j].start
  BY <1>2 DEF Starts, ToSet
<1>4. \A x : x \in Starts(b) <=> \E j \in 1 .. n : x = b[j].start
  BY <1>2 DEF Starts, ToSet
<1>5. \A x : x \in Starts(c) <=> \E j \in 1 .. Len(c) : x = c[j].start
  BY <1>2 DEF Starts, ToSet
<1>6. Starts(c) = Starts(a) \cup Starts(b)
  <2>1. ASSUME NEW x \in Starts(c) PROVE x \in Starts(a) \cup Starts(b)
    <3>1. PICK j \in 1 .. Len(c) : x = c[j].start
      BY <1>5
    <3>2. CASE j <= m
      <4>1. j \in 1 .. m
        BY <1>1, <3>2
      <4>2. c[j] = a[j]
        BY <1>1, <4>1
      <4>3. x = a[j].start
        BY <3>1, <4>2
      <4>4. x \in Starts(a)
        BY <1>3, <4>1, <4>3
      <4> QED BY <4>4
    <3>3. CASE ~(j <= m)
      <4> DEFINE k == j - m
      <4>1. k \in 1 .. n /\ m + k = j
        BY <1>1, <3>3
      <4> HIDE DEF k
      <4>2. c[j] = b[k]
        BY <1>1, <4>1
      <4>3. x = b[k].start
        BY <3>1, <4>2
      <4>4. x \in Starts(b)
        BY <1>4, <4>1, <4>3
      <4> QED BY <4>4
    <3> QED BY <3>2, <3>3
  <2>2. ASSUME NEW x \in Starts(a) PROVE x \in Starts(c)
    <3>1. PICK j \in 1 .. m : x = a[j].start
      BY <1>3
    <3>2. j \in 1 .. Len(c)
      BY <1>1
    <3>3. c[j] = a[j]
      BY <1>1
    <3>4. x = c[j].start
      BY <3>1, <3>3
    <3> QED BY <1>5, <3>2, <3>4
  <2>3. ASSUME NEW x \in Starts(b) PROVE x \in Starts(c)
    <3>1. PICK j \in 1 .. n : x = b[j].start
      BY <1>4
    <3>2. m + j \in 1 .. Len(c)
      BY <1>1
    <3>3. c[m + j] = b[j]
      BY <1>1
    <3>4. x = c[m + j].start
      BY <3>1, <3>3
    <3> QED BY <1>5, <3>2, <3>4
  <2> QED BY <2>1, <2>2, <2>3
<1>7. Starts(a) = FirstStarts(a, m) /\ Starts(b) = FirstStarts(b, n)
  BY <1>3, <1>4 DEF FirstStarts
<1> QED BY <1>1, <1>6, <1>7 DEF c, m, n

\* What was said of the weeks that are kept and of the ones that are read now is said
\* of the weeks that are kept of both.
LEMMA SaysOfBoth ==
    ASSUME NEW kept \in Seq(Week), NEW recent \in Seq(Week), NEW before, Says(before, kept)
    PROVE  Says(Said(recent, before), Canonical(kept \o recent))
<1> DEFINE weeks == kept \o recent
           c == Canonical(weeks)
           said == Said(recent, before)
           m == Len(kept)
           n == Len(recent)
<1>1. /\ weeks \in Seq(Week) /\ m \in Nat /\ n \in Nat /\ Len(weeks) = m + n
      /\ \A j \in 1 .. m : weeks[j] = kept[j]
      /\ \A j \in 1 .. n : weeks[m + j] = recent[j]
      /\ Starts(weeks) = Starts(kept) \cup Starts(recent)
      /\ Starts(kept) = FirstStarts(kept, m) /\ Starts(recent) = FirstStarts(recent, n)
  BY PartsOfWeeks
<1>2. /\ \A i \in 1 .. Len(c) : \E j \in 1 .. Len(weeks) :
            c[i] = weeks[j] /\ \A k \in 1 .. Len(weeks) : weeks[k].start = weeks[j].start => k <= j
      /\ Starts(c) = Starts(weeks)
  <2> HIDE DEF weeks
  <2> QED BY <1>1, CanonicalIsLast, CanonicalStarts
<1>3. before = [start \in Starts(kept) |-> before[start]]
  BY DEF Says
<1>4. \A start : start \in DOMAIN before <=> start \in Starts(kept)
  BY <1>3
<1>5. HasHeard(said, before, recent, n)
  <2>1. before = [start \in DOMAIN before |-> before[start]]
    BY <1>3
  <2> QED BY <2>1, SaidIsHeard
<1> HIDE DEF weeks, c, said, m, n
<1>6. said = [start \in Starts(c) |-> said[start]]
  <2>1. DOMAIN before \cup FirstStarts(recent, n) = Starts(c)
    BY <1>1, <1>2, <1>4
  <2>2. said = [start \in DOMAIN before \cup FirstStarts(recent, n) |-> said[start]]
    BY <1>5 DEF HasHeard
  <2> QED BY <2>1, <2>2
<1>7. ASSUME NEW i \in 1 .. Len(c) PROVE said[c[i].start] = c[i].days
  <2>1. PICK j \in 1 .. Len(weeks) :
           c[i] = weeks[j] /\ \A k \in 1 .. Len(weeks) : weeks[k].start = weeks[j].start => k <= j
    BY <1>2
  <2>2. CASE j <= m
    <3>1. j \in 1 .. m /\ c[i] = kept[j]
      BY <1>1, <2>1, <2>2
    <3>2. kept[j].start \notin FirstStarts(recent, n)
      <4> SUFFICES ASSUME NEW k \in 1 .. n, recent[k].start = kept[j].start PROVE FALSE
        BY DEF FirstStarts
      <4>1. m + k \in 1 .. Len(weeks) /\ ~(m + k <= j)
        <5>1. m \in Nat /\ n \in Nat /\ Len(weeks) = m + n /\ j \in Int /\ k \in 1 .. n
          BY <1>1
        <5> QED BY <2>2, <5>1
      <4>2. weeks[m + k].start = weeks[j].start
        BY <1>1, <2>1, <3>1
      <4> QED BY <2>1, <4>1, <4>2
    <3>3. kept[j].start \in DOMAIN before
      BY <1>1, <1>4, <3>1 DEF FirstStarts
    <3>4. said[kept[j].start] = before[kept[j].start]
      BY <1>5, <3>2, <3>3 DEF HasHeard
    <3>5. before[kept[j].start] = kept[j].days
      BY <3>1 DEF Says, m
    <3> QED BY <3>1, <3>4, <3>5
  <2>3. CASE ~(j <= m)
    <3>1. j - m \in 1 .. n /\ m + (j - m) = j
      BY <1>1, <2>3
    <3>2. c[i] = recent[j - m]
      BY <1>1, <2>1, <3>1
    <3>3. IsLastOf(recent, j - m, n)
      <4> SUFFICES ASSUME NEW k \in 1 .. n, recent[k].start = recent[j - m].start
                   PROVE  k <= j - m
        BY DEF IsLastOf
      <4>1. m + k \in 1 .. Len(weeks)
        BY <1>1
      <4>2. weeks[m + k].start = weeks[j].start
        <5>1. weeks[m + k] = recent[k]
          BY <1>1
        <5>2. weeks[j] = recent[j - m]
          BY <2>1, <3>2
        <5> QED BY <5>1, <5>2
      <4>3. m + k <= j
        BY <2>1, <4>1, <4>2
      <4>4. m \in Nat /\ j \in Int /\ k \in Int
        BY <1>1
      <4> QED BY <4>3, <4>4
    <3> QED BY <1>5, <3>1, <3>2, <3>3 DEF HasHeard
  <2> QED BY <2>2, <2>3
<1> QED BY <1>6, <1>7 DEF Says, weeks, c, said

-----------------------------------------------------------------------------
(* The weeks begin on Sundays, and the ones that are kept are canonical *)

LEMMA AlignedStarts ==
    ASSUME NEW weeks \in Seq(Week), NEW weekday
    PROVE  Aligned(weeks, weekday) <=> \A start \in Starts(weeks) : start % 7 = weekday
  BY DEF Aligned, Starts, ToSet

LEMMA AlignedTogether ==
    ASSUME NEW a \in Seq(Week), NEW b \in Seq(Week), NEW weekday,
           Aligned(a, weekday), Aligned(b, weekday)
    PROVE  Aligned(a \o b, weekday) /\ Aligned(Canonical(a \o b), weekday)
<1>1. a \o b \in Seq(Week) /\ Starts(a \o b) = Starts(a) \cup Starts(b)
  BY PartsOfWeeks
<1>2. \A start \in Starts(a) \cup Starts(b) : start % 7 = weekday
  BY AlignedStarts
<1> DEFINE weeks == a \o b
<1>3. weeks \in Seq(Week) /\ \A start \in Starts(weeks) : start % 7 = weekday
  BY <1>1, <1>2
<1> HIDE DEF weeks
<1>4. Canonical(weeks) \in Seq(Week) /\ Starts(Canonical(weeks)) = Starts(weeks)
  BY <1>3, CanonicalIsLast, CanonicalStarts
<1>5. Aligned(weeks, weekday) /\ Aligned(Canonical(weeks), weekday)
  BY <1>3, <1>4, AlignedStarts
<1> QED BY <1>5 DEF weeks

LEMMA AlignedPart ==
    ASSUME NEW weeks \in Seq(Week), NEW weekday, Aligned(weeks, weekday),
           NEW m \in Nat \ {0}, NEW n \in Int, n <= Len(weeks)
    PROVE  Aligned(SubSeq(weeks, m, n), weekday)
<1> DEFINE part == SubSeq(weeks, m, n)
<1>1. /\ \A i \in DOMAIN part : i \in 1 .. (n - m + 1) /\ part[i] = weeks[i + m - 1]
      /\ DOMAIN weeks = 1 .. Len(weeks) /\ Len(weeks) \in Nat
  BY SubSeqProperties
<1> HIDE DEF part
<1>2. ASSUME NEW i \in DOMAIN part PROVE part[i].start % 7 = weekday
  <2>1. i + m - 1 \in 1 .. Len(weeks)
    BY <1>1
  <2>2. weeks[i + m - 1].start % 7 = weekday
    BY <1>1, <2>1 DEF Aligned
  <2> QED BY <1>1, <2>2
<1> QED BY <1>2 DEF Aligned, part

\* The weeks kept are canonical.
RowIsCanonical == row # None => Aligned(row, 3) /\ Canonical(row) = row

SundaysInv ==
    /\ Aligned(github, 3)
    /\ page # None => Aligned(page, 3)
    /\ RowIsCanonical

LEMMA PagesAreAligned ==
    ASSUME WeeksInv, SundaysInv
    PROVE  Aligned(FirstPage, 3) /\ Aligned(OtherPages, 3)
<1>1. Len(github) \in Nat \ {0} /\ PerPage \in Nat \ {0} /\ github \in Seq(Week)
  BY DEF WeeksInv
<1>2. Larger(1, Len(github) - PerPage + 1) \in Nat \ {0}
  BY <1>1 DEF Larger
<1>3. Aligned(FirstPage, 3)
  BY <1>1, <1>2, AlignedPart DEF FirstPage, SundaysInv
<1>4. Aligned(OtherPages, 3)
  BY <1>1, AlignedPart DEF OtherPages, SundaysInv
<1> QED BY <1>3, <1>4

LEMMA KeepsCanonical ==
    ASSUME NEW a \in Seq(Week), NEW b \in Seq(Week), Aligned(a, 3), Aligned(b, 3), NEW said,
           RowIsCanonical, Keep(a \o b, said)
    PROVE  RowIsCanonical'
<1>1. CASE OfficialEvents(a \o b) = Corrupt
  BY <1>1 DEF Keep, RowIsCanonical
<1>2. CASE OfficialEvents(a \o b) # Corrupt
  <2>1. row' = Canonical(a \o b)
    BY <1>2 DEF Keep
  <2>2. Canonical(Canonical(a \o b)) = Canonical(a \o b)
    BY PartsOfWeeks, CanonicalTwice
  <2>3. Aligned(Canonical(a \o b), 3)
    BY AlignedTogether
  <2> QED BY <2>1, <2>2, <2>3 DEF RowIsCanonical
<1> QED BY <1>1, <1>2

LEMMA NextSunday ==
    ASSUME NEW day \in Int, day % 7 = 3
    PROVE  (day + 7) % 7 = 3
OBVIOUS

LEMMA SundaysInvNext == WeeksInv /\ SundaysInv /\ [Next]_vars => SundaysInv'
<1> SUFFICES ASSUME WeeksInv, SundaysInv, [Next]_vars PROVE SundaysInv'
  OBVIOUS
<1>1. /\ github \in Seq(Week) /\ Len(github) \in Nat \ {0} /\ DOMAIN github = 1 .. Len(github)
      /\ \A i \in 1 .. Len(github) : github[i].start \in Int /\ github[i].start % 7 = 3
  <2>1. github \in Seq(Week) /\ Len(github) \in Nat \ {0} /\ DOMAIN github = 1 .. Len(github)
    BY DEF WeeksInv
  <2>2. \A i \in 1 .. Len(github) : github[i] \in Week
    BY <2>1
  <2> QED BY <2>1, <2>2 DEF Week, SundaysInv, Aligned
<1>2. CASE BeginWeek
  <2>1. PICK days \in Patterns :
          github' = IF source = "official"
                    THEN Append(github, [start |-> github[Len(github)].start + 7, days |-> days])
                    ELSE github
    BY <1>2 DEF BeginWeek
  <2>2. (github[Len(github)].start + 7) % 7 = 3
    <3>1. Len(github) \in 1 .. Len(github)
      BY <1>1
    <3>2. github[Len(github)].start \in Int /\ github[Len(github)].start % 7 = 3
      BY <1>1, <3>1, Zenon
    <3> QED BY <3>2, NextSunday, Zenon
  <2>3. Aligned(github', 3)
    <3> DEFINE week == [start |-> github[Len(github)].start + 7, days |-> days]
    <3>1. CASE source = "official"
      <4>1. github' = Append(github, week) /\ week.start % 7 = 3
        BY <2>1, <2>2, <3>1
      <4> HIDE DEF week
      <4>2. DOMAIN github' = 1 .. (Len(github) + 1) /\ github'[Len(github) + 1] = week
            /\ \A i \in 1 .. Len(github) : github'[i] = github[i]
        BY <1>1, <4>1
      <4>3. \A i \in 1 .. (Len(github) + 1) : i \in 1 .. Len(github) \/ i = Len(github) + 1
        BY <1>1
      <4> QED BY <1>1, <4>1, <4>2, <4>3 DEF Aligned
    <3>2. CASE source # "official"
      BY <2>1, <3>2 DEF SundaysInv
    <3> QED BY <3>1, <3>2
  <2> QED BY <1>2, <2>3 DEF BeginWeek, server, SundaysInv, RowIsCanonical
<1>3. CASE ReviseWeek
  <2>1. PICK days \in Patterns : github' = [github EXCEPT ![Len(github)].days = days]
    BY <1>3 DEF ReviseWeek
  <2>2. DOMAIN github' = 1 .. Len(github)
    BY <1>1, <2>1
  <2>3. ASSUME NEW i \in 1 .. Len(github) PROVE github'[i].start = github[i].start
    <3>1. github[i] \in Week
      BY <1>1
    <3> QED BY <1>1, <2>1, <3>1 DEF Week
  <2>4. Aligned(github', 3)
    BY <1>1, <2>2, <2>3 DEF Aligned
  <2> QED BY <1>3, <2>4 DEF ReviseWeek, server, SundaysInv, RowIsCanonical
<1>4. CASE ReadFirst
  BY <1>4, PagesAreAligned DEF ReadFirst, outside, SundaysInv, RowIsCanonical
<1>5. CASE ReadRest
  <2>1. RowIsCanonical'
    BY <1>5, PagesAreWeeks, PagesAreAligned, KeepsCanonical DEF ReadRest, WeeksInv, SundaysInv
  <2> QED BY <1>5, <2>1 DEF ReadRest, outside, SundaysInv
<1>6. CASE ReadRecent
  <2>1. row \in Seq(Week) /\ Aligned(row, 3)
    BY <1>6 DEF ReadRecent, WeeksInv, RowIsKept, SundaysInv, RowIsCanonical
  <2>2. RowIsCanonical'
    BY <1>6, <2>1, PagesAreWeeks, PagesAreAligned, KeepsCanonical DEF ReadRecent, SundaysInv
  <2> QED BY <1>6, <2>2 DEF ReadRecent, outside, SundaysInv
<1>7. CASE ApplyDelta
  BY <1>7 DEF ApplyDelta, outside, SundaysInv, RowIsCanonical
<1>8. ASSUME NEW kind \in Kinds, NEW stars \in StarCounts, Ask(kind, stars) PROVE SundaysInv'
  BY <1>8 DEF Ask, server, outside, SundaysInv, RowIsCanonical
<1>9. CASE PassDay \/ Describe \/ Republish
  BY <1>9, UpdatesLeave DEF SundaysInv, RowIsCanonical
<1>10. CASE UNCHANGED vars
  BY <1>10 DEF vars, server, outside, SundaysInv, RowIsCanonical
<1> QED BY <1>2, <1>3, <1>4, <1>5, <1>6, <1>7, <1>8, <1>9, <1>10 DEF Next

\* What GitHub said last is about the weeks that are kept.
KnownInv == row # None => Says(known, row)

LEMMA KnownInvNext == WeeksInv /\ SundaysInv /\ KnownInv /\ [Next]_vars => KnownInv'
<1> SUFFICES ASSUME WeeksInv, SundaysInv, KnownInv, [Next]_vars PROVE KnownInv'
  OBVIOUS
<1>1. ASSUME UNCHANGED <<row, known>> PROVE KnownInv'
  BY <1>1 DEF KnownInv
<1>2. CASE ReadRest
  <2> DEFINE weeks == page \o OtherPages
  <2>1. weeks \in Seq(Week) /\ << >> \o weeks = weeks
    <3>1. weeks \in Seq(Week)
      BY <1>2, PagesAreWeeks DEF ReadRest, WeeksInv
    <3> HIDE DEF weeks
    <3> QED BY <3>1
  <2>2. << >> \in Seq(Week) /\ Says(<< >>, << >>)
    BY DEF Says, Starts, ToSet
  <2> HIDE DEF weeks
  <2>3. Says(Said(weeks, << >>), Canonical(weeks))
    BY <2>1, <2>2, SaysOfBoth
  <2>4. Keep(weeks, Said(weeks, << >>))
    BY <1>2 DEF ReadRest, weeks
  <2>5. \/ UNCHANGED <<row, known>>
        \/ row' = Canonical(weeks) /\ known' = Said(weeks, << >>)
    BY <2>4 DEF Keep
  <2>6. CASE row' = Canonical(weeks) /\ known' = Said(weeks, << >>)
    BY <2>3, <2>6 DEF KnownInv
  <2> QED BY <1>1, <2>5, <2>6
<1>3. CASE ReadRecent
  <2>1. row # None /\ row \in Seq(Week) /\ FirstPage \in Seq(Week) /\ Says(known, row)
    BY <1>3, PagesAreWeeks DEF ReadRecent, WeeksInv, RowIsKept, KnownInv
  <2>2. Says(Said(FirstPage, known), Canonical(row \o FirstPage))
    BY <2>1, SaysOfBoth
  <2>3. \/ UNCHANGED <<row, known>>
        \/ row' = Canonical(row \o FirstPage) /\ known' = Said(FirstPage, known)
    BY <1>3 DEF ReadRecent, Keep
  <2>4. CASE row' = Canonical(row \o FirstPage) /\ known' = Said(FirstPage, known)
    BY <2>2, <2>4 DEF KnownInv
  <2> QED BY <1>1, <2>3, <2>4
<1>4. CASE BeginWeek
  BY <1>1, <1>4 DEF BeginWeek, server
<1>5. CASE ReviseWeek
  BY <1>1, <1>5 DEF ReviseWeek, server
<1>6. CASE ReadFirst
  BY <1>1, <1>6 DEF ReadFirst, observed
<1>7. CASE ApplyDelta
  BY <1>1, <1>7 DEF ApplyDelta
<1>8. ASSUME NEW kind \in Kinds, NEW stars \in StarCounts, Ask(kind, stars) PROVE KnownInv'
  BY <1>1, <1>8 DEF Ask, server, observed
<1>9. CASE PassDay \/ Describe \/ Republish
  BY <1>1, <1>9, UpdatesLeave
<1>10. CASE UNCHANGED vars
  BY <1>1, <1>10 DEF vars, server, observed
<1> QED BY <1>2, <1>3, <1>4, <1>5, <1>6, <1>7, <1>8, <1>9, <1>10 DEF Next

\* What the client holds was selected from the curve of a series that has shares.
SharesInv ==
    client.body # Nothing =>
        LET series == Meaning(client.tag.events)
        IN /\ CanNormalize(series)
           /\ ToSet(client.body.points) \subseteq ToSet(Normalize(series, client.tag.stars))

LEMMA PointsAreOfTheCurve ==
    ASSUME RowInv, WeeksInv, IsFound, CanNormalize(Events),
           NEW kind \in Kinds, NEW stars \in StarCounts
    PROVE  LET points == Normalize(Events, stars)
           IN ToSet(Body(kind, points, stars).points) \subseteq ToSet(points)
<1> DEFINE points == Normalize(Events, stars)
<1>1. stars \in Nat /\ today \in Int
  BY StarsFit DEF RowInv
<1>2. IsLine(points, stars)
  BY <1>1, EventsCanBeRead, CurvesRise
<1> HIDE DEF points
<1>3. kind # "card" => ToSet(SelectRange(points, kind, today)) \subseteq ToSet(points)
  BY <1>1, <1>2, SelectionsRise DEF Kinds
<1>4. ToSet(Body(kind, points, stars).points) \subseteq ToSet(points)
  BY <1>3 DEF Body, BodyOf
<1> QED BY <1>4 DEF points

LEMMA SharesInvNext == RowInv /\ WeeksInv /\ SharesInv /\ [Next]_vars => SharesInv'
<1> SUFFICES ASSUME RowInv, WeeksInv, SharesInv, [Next]_vars PROVE SharesInv'
  OBVIOUS
<1>1. ASSUME UNCHANGED <<source, client>> PROVE SharesInv'
  BY <1>1 DEF SharesInv, Meaning
<1>2. ASSUME NEW kind \in Kinds, NEW stars \in StarCounts, Ask(kind, stars) PROVE SharesInv'
  <2> DEFINE points == Normalize(Events, stars)
             tag == Tag(kind, stars)
             body == Body(kind, points, stars)
             Emptied == \E status : client' = [kind |-> kind, status |-> status, tag |-> Nothing, body |-> Nothing]
             Confirmed ==
                client' = [kind |-> kind, status |-> 304, tag |-> client.tag, body |-> client.body]
             Sent ==
                /\ IsFound /\ CanNormalize(Events)
                /\ client' = [kind |-> kind, status |-> 200, tag |-> tag, body |-> body]
  <2>1. source' = source /\ (UNCHANGED client \/ Emptied \/ Confirmed \/ Sent)
    BY <1>2, AskOutcome
  <2>2. \A events : Meaning(events)' = Meaning(events)
    BY <2>1 DEF Meaning
  <2>3. CASE UNCHANGED client
    BY <1>1, <2>1, <2>3
  <2>4. CASE Emptied
    BY <2>4 DEF SharesInv
  <2>5. CASE Sent
    <3>1. Meaning(tag.events) = Events /\ tag.stars = stars
      BY <2>5, EventsAreMeant DEF Tag
    <3>2. CanNormalize(Events) /\ ToSet(body.points) \subseteq ToSet(points)
      BY <2>5, PointsAreOfTheCurve
    <3> HIDE DEF tag, body
    <3>3. client'.tag = tag /\ client'.body = body
      BY <2>5
    <3> QED BY <2>2, <3>1, <3>2, <3>3 DEF SharesInv
  <2> HIDE DEF tag, body
  <2>6. CASE Confirmed
    <3>1. client'.tag = client.tag /\ client'.body = client.body
      BY <2>6
    <3> QED BY <2>2, <3>1 DEF SharesInv
  <2> QED BY <2>1, <2>3, <2>4, <2>5, <2>6
<1>3. CASE BeginWeek
  BY <1>1, <1>3 DEF BeginWeek, server
<1>4. CASE ReviseWeek
  BY <1>1, <1>4 DEF ReviseWeek, server
<1>5. CASE ReadFirst
  BY <1>1, <1>5 DEF ReadFirst
<1>6. CASE ReadRest
  BY <1>1, <1>6 DEF ReadRest
<1>7. CASE ReadRecent
  BY <1>1, <1>7 DEF ReadRecent
<1>8. CASE ApplyDelta
  BY <1>1, <1>8 DEF ApplyDelta
<1>9. CASE PassDay \/ Describe \/ Republish
  BY <1>1, <1>9, UpdatesLeave
<1>10. CASE UNCHANGED vars
  BY <1>1, <1>10 DEF vars, server
<1> QED BY <1>2, <1>3, <1>4, <1>5, <1>6, <1>7, <1>8, <1>9, <1>10 DEF Next

-----------------------------------------------------------------------------
(* The curve by definition *)

CountsGiven(given) == [d \in given |-> d.count]

LEMMA StarsOfIsSum ==
    ASSUME NEW given, IsFiniteSet(given), \A d \in given : d.count \in Nat
    PROVE  \E h : Sums(h, CountsGiven(given), given) /\ StarsOf(given) = h[given]
<1> DEFINE Op(d) == d.count
           Some(s) == CHOOSE x \in s : TRUE
           f == [d \in given |-> Op(d)]
           IsIter(h) == h = [s \in SUBSET given |->
                                IF s = {} THEN 0 ELSE Op(Some(s)) + h[s \ {Some(s)}]]
           iter == CHOOSE h : IsIter(h)
<1>1. StarsOf(given) = iter[given]
  BY DEF StarsOf, MapThenSumSet, MapThenFoldSet
<1>2. \A d \in given : f[d] \in Nat
  OBVIOUS
<1>3. \A s \in SUBSET given : s # {} => Op(Some(s)) = f[Some(s)]
  <2>1. \A s \in SUBSET given : s # {} => Some(s) \in s
    OBVIOUS
  <2> HIDE DEF Some, Op
  <2> QED BY <2>1
<1>4. ASSUME NEW h PROVE IsIter(h) <=> IsSumming(h, f, SUBSET given)
  <2> DEFINE A == [s \in SUBSET given |-> IF s = {} THEN 0 ELSE Op(Some(s)) + h[s \ {Some(s)}]]
             B == [s \in SUBSET given |-> IF s = {} THEN 0 ELSE f[Some(s)] + h[s \ {Some(s)}]]
  <2>1. A = B
    <3> HIDE DEF Some, Op, f
    <3> QED BY <1>3
  <2>2. IsIter(h) <=> (h = A)
    OBVIOUS
  <2>3. IsSumming(h, f, SUBSET given) <=> (h = B)
    <3> HIDE DEF f
    <3> QED BY DEF IsSumming
  <2> HIDE DEF A, B, IsIter, f
  <2> QED BY <2>1, <2>2, <2>3
<1>5. f = CountsGiven(given)
  BY DEF CountsGiven
<1> HIDE DEF f, IsIter
<1>6. PICK h : IsSumming(h, f, SUBSET given)
  BY <1>2, SummingExists
<1>7. IsSumming(iter, f, SUBSET given)
  BY <1>4, <1>6
<1> HIDE DEF iter
<1>8. Sums(iter, f, given)
  BY <1>2, <1>7 DEF Sums
<1> QED BY <1>1, <1>5, <1>8

\* A series, on some of its days, as a set of days with their counts.
DayOf(series, d) == [day |-> d, count |-> series[d]]
GivenOf(series, R) == {DayOf(series, d) : d \in R}

LEMMA StarsOfDays ==
    ASSUME NEW series, IsSeries(series), NEW g, Sums(g, series, DOMAIN series),
           NEW R \in SUBSET DOMAIN series
    PROVE  StarsOf(GivenOf(series, R)) = g[R]
<1> DEFINE given == GivenOf(series, R)
           S == DOMAIN series
           f == CountsGiven(given)
<1>1. \A d \in S : DayOf(series, d).day = d /\ DayOf(series, d).count = series[d]
  BY DEF DayOf
<1>2. IsFiniteSet(S) /\ \A d \in S : series[d] \in Nat
  BY DEF IsSeries
<1>3. IsFiniteSet(R)
  BY <1>2, FS_Subset
<1>4. IsFiniteSet(given)
  <2> DEFINE k == [d \in R |-> DayOf(series, d)]
  <2>1. k \in Surjection(R, given)
    BY DEF Surjection, GivenOf
  <2> HIDE DEF k, given
  <2> QED BY <1>3, <2>1, FS_Surjection
<1> HIDE DEF S
<1>5. R \in SUBSET S /\ Sums(g, series, S)
  BY DEF S
<1>6. \A d \in given : d.count \in Nat
  BY <1>1, <1>2, <1>5 DEF GivenOf
<1> HIDE DEF given
<1>7. PICK h : Sums(h, f, given) /\ StarsOf(given) = h[given]
  BY <1>4, <1>6, StarsOfIsSum
<1>8. \A d \in given : f[d] = d.count
  BY DEF CountsGiven
<1> HIDE DEF f
<1> DEFINE F == {s \in SUBSET R : h[GivenOf(series, s)] = g[s]}
<1>9. {} \in F
  <2>1. GivenOf(series, {}) = {}
    BY DEF GivenOf
  <2>2. h[{}] = 0 /\ g[{}] = 0
    BY <1>5, <1>7 DEF Sums, IsSumming
  <2> QED BY <2>1, <2>2
<1>10. ASSUME NEW s \in SUBSET R, s # {}, \A x \in s : s \ {x} \in F PROVE s \in F
  <2>1. PICK x \in s : s \ {x} \in F
    BY <1>10
  <2> DEFINE G == GivenOf(series, s)
             z == DayOf(series, x)
  <2>2. G \in SUBSET given /\ z \in G
    BY DEF GivenOf, given
  <2>3. G \ {z} = GivenOf(series, s \ {x})
    BY <1>1, <1>5 DEF GivenOf
  <2>4. f[z] = series[x]
    BY <1>1, <1>5, <1>8, <2>2
  <2>5. g[s] = series[x] + g[s \ {x}]
    <3>1. s \in SUBSET S /\ x \in s /\ Sums(g, series, S)
      BY <1>5
    <3> QED BY <3>1, PartWithout, Z3
  <2> HIDE DEF G, z
  <2>6. h[G] = f[z] + h[G \ {z}]
    BY <1>7, <2>2, PartWithout, Z3
  <2>7. h[G] = g[s]
    BY <2>1, <2>3, <2>4, <2>5, <2>6
  <2> QED BY <2>7 DEF G
<1>11. SUBSET R \subseteq F
  <2> HIDE DEF F
  <2> QED BY <1>3, <1>9, <1>10, SubsetInduction
<1>12. R \in F
  BY <1>11
<1> QED BY <1>7, <1>12 DEF given

\* The curve by definition is made of the shares of its days.
LEMMA CurveIsShared ==
    ASSUME NEW series, IsSeries(series), NEW stars \in Nat, NEW g, Sums(g, series, DOMAIN series)
    PROVE  LET given == GivenOf(series, DOMAIN series)
           IN /\ StarsOf(given) = Total(series)
              /\ Curve(given, stars) = SharedDays(series, g, Total(series), stars)
<1> DEFINE S == DOMAIN series
           given == GivenOf(series, S)
           total == Total(series)
<1>1. StarsOf(given) = total
  <2>1. PICK h : IsSumming(h, series, SUBSET S) /\ total = h[S]
    BY TotalIsSum
  <2>2. Sums(h, series, S)
    BY <2>1 DEF Sums
  <2>3. S \in SUBSET S
    OBVIOUS
  <2> QED BY <2>1, <2>2, <2>3, StarsOfDays
<1>2. ASSUME NEW d \in S
      PROVE  StarsOf({x \in given : x.day <= d}) = g[DaysUpTo(series, d)]
  <2>1. {x \in given : x.day <= d} = GivenOf(series, DaysUpTo(series, d))
    BY DEF GivenOf, DayOf, DaysUpTo
  <2>2. DaysUpTo(series, d) \in SUBSET S
    BY DEF DaysUpTo
  <2> QED BY <2>1, <2>2, StarsOfDays
<1> DEFINE UpTo(day) == StarsOf({x \in given : x.day <= day})
           Of(x) == (2 * stars * UpTo(x.day) + total) \div (2 * total)
<1>3. Curve(given, stars) = {[day |-> x.day, count |-> Of(x)] : x \in given}
  BY <1>1 DEF Curve
<1>4. ASSUME NEW d \in S
      PROVE  /\ DayOf(series, d).day = d
             /\ Of(DayOf(series, d)) = Share(g[DaysUpTo(series, d)], total, stars)
  <2>1. DayOf(series, d).day = d
    BY DEF DayOf
  <2> HIDE DEF total
  <2>2. Of(DayOf(series, d)) = (2 * stars * UpTo(d) + total) \div (2 * total)
    BY <2>1
  <2> HIDE DEF given, Of
  <2>3. UpTo(d) = g[DaysUpTo(series, d)]
    BY <1>2
  <2> HIDE DEF UpTo
  <2> QED BY <2>1, <2>2, <2>3 DEF Share
<1>5. {[day |-> x.day, count |-> Of(x)] : x \in given}
         = {[day |-> d, count |-> Share(g[DaysUpTo(series, d)], total, stars)] : d \in S}
  <2> HIDE DEF Of, total, S
  <2> QED BY <1>4 DEF GivenOf
<1> QED BY <1>1, <1>3, <1>5 DEF SharedDays

\* The days and counts that GitHub said last are the events of the weeks that are kept.
LEMMA SaidIsEvents ==
    ASSUME WeeksInv, SundaysInv, KnownInv, source = "official", row # None
    PROVE  Given = GivenOf(OfficialEvents(row), DOMAIN OfficialEvents(row))
<1> DEFINE n == Len(row)
           events == OfficialEvents(row)
<1>1. /\ row \in Seq(Week) /\ OfficialEvents(row) # Corrupt /\ Canonical(row) = row
      /\ Aligned(row, 3) /\ Says(known, row)
  BY DEF WeeksInv, RowIsKept, SundaysInv, RowIsCanonical, KnownInv
<1>2. /\ \A i \in 1 .. n : \A j, day : IsStarred(row[i], j, day) =>
            day \in DOMAIN events /\ events[day] = row[i].days[j]
      /\ \A day \in DOMAIN events : \E i \in 1 .. n : \E j : IsStarred(row[i], j, day)
  BY <1>1, EventsOfWeeks
<1>3. /\ \A start : start \in DOMAIN known <=> \E i \in 1 .. n : start = row[i].start
      /\ \A i \in 1 .. n : known[row[i].start] = row[i].days
  <2>1. known = [start \in Starts(row) |-> known[start]]
    BY <1>1 DEF Says
  <2>2. \A start : start \in DOMAIN known <=> start \in Starts(row)
    BY <2>1
  <2>3. DOMAIN row = 1 .. n
    BY <1>1
  <2>4. \A start : start \in Starts(row) <=> \E i \in 1 .. n : start = row[i].start
    BY <2>3 DEF Starts, ToSet
  <2> QED BY <1>1, <2>2, <2>4 DEF Says
<1> HIDE DEF n, events
<1>4. ASSUME NEW x \in Given PROVE x \in GivenOf(events, DOMAIN events)
  <2>1. PICK start \in DOMAIN known : \E j \in DOMAIN known[start] :
           known[start][j] > 0 /\ x = [day |-> start + j - 1, count |-> known[start][j]]
    BY DEF Given
  <2>2. PICK i \in 1 .. n : start = row[i].start
    BY <1>3
  <2>3. PICK j \in DOMAIN row[i].days :
           row[i].days[j] > 0 /\ x = [day |-> row[i].start + j - 1, count |-> row[i].days[j]]
    BY <1>3, <2>1, <2>2
  <2>4. IsStarred(row[i], j, row[i].start + j - 1)
    BY <2>3 DEF IsStarred
  <2>5. /\ row[i].start + j - 1 \in DOMAIN events
        /\ events[row[i].start + j - 1] = row[i].days[j]
    BY <1>2, <2>4
  <2> QED BY <2>3, <2>5 DEF GivenOf, DayOf
<1>5. ASSUME NEW day \in DOMAIN events PROVE DayOf(events, day) \in Given
  <2>1. PICK i \in 1 .. n : \E j : IsStarred(row[i], j, day)
    BY <1>2
  <2>2. PICK j : IsStarred(row[i], j, day)
    BY <2>1
  <2>3. events[day] = row[i].days[j]
    <3>1. \A k, d : IsStarred(row[i], k, d) => d \in DOMAIN events /\ events[d] = row[i].days[k]
      BY <1>2
    <3> HIDE DEF events, n
    <3> QED BY <2>2, <3>1
  <2>4. row[i].start \in DOMAIN known /\ known[row[i].start] = row[i].days
    BY <1>3
  <2> DEFINE start == row[i].start
  <2>5. /\ j \in {k \in DOMAIN known[start] : known[start][k] > 0}
        /\ DayOf(events, day) = [day |-> start + j - 1, count |-> known[start][j]]
    BY <2>2, <2>3, <2>4 DEF IsStarred, DayOf
  <2> HIDE DEF start
  <2>6. start \in DOMAIN known
    BY <2>4 DEF start
  <2> QED BY <2>5, <2>6 DEF Given
<1>6. Given = GivenOf(events, DOMAIN events)
  <2>1. GivenOf(events, DOMAIN events) \subseteq Given
    BY <1>5 DEF GivenOf
  <2> QED BY <1>4, <2>1
<1> QED BY <1>6 DEF events

\* What was given is the series that replies are calculated from.
LEMMA GivenIsEvents ==
    ASSUME RowInv, WeeksInv, SundaysInv, KnownInv, IsFound
    PROVE  Given = GivenOf(Events, DOMAIN Events)
<1>1. CASE source = "official"
  BY <1>1, SaidIsEvents DEF IsFound, Events
<1>2. CASE source # "official"
  <2>1. Events = applied
    BY <1>2, StoredDecodes DEF IsFound, Events, RowInv
  <2> QED BY <1>2, <2>1 DEF Given, GivenOf, DayOf
<1> QED BY <1>1, <1>2

\* The weeks that are kept and what GitHub said of them, with all the rest.
SourcesInv == RepliesInv /\ SundaysInv /\ KnownInv /\ SharesInv

\* What is shown, when it is sent and as long as it is confirmed with a 304, has on each
\* of its days the share of the stars by definition: of what GitHub said last of each
\* week, though weeks arrive twice, with other counts, and in any order, or of the sum
\* of the deltas; and a card has each of the days (official.go 15-52,
\* official_history.go 408-423, history.go 27-133).
THEOREM CurvesFollowEvents == Spec => []CurveFollowsEvents
<1>1. SourcesInv => CurveFollowsEvents
  <2> SUFFICES ASSUME SourcesInv, NEW stars \in StarCounts, HoldsReplyFor(stars),
                      2 * stars * StarsOf(Given) + StarsOf(Given) < Words
               PROVE  /\ ToSet(Shown) \subseteq Curve(Given, stars)
                      /\ client.kind = "card" => Curve(Given, stars) \subseteq ToSet(Shown)
    BY DEF CurveFollowsEvents
  <2> USE DEF SourcesInv, RepliesInv
  <2> DEFINE series == Events
             S == DOMAIN series
             points == Normalize(series, stars)
  <2>1. IsFound /\ client.body # Nothing /\ client.tag = Tag(client.kind, stars)
    BY DEF HoldsReplyFor
  <2>2. client.tag.stars = stars /\ Meaning(client.tag.events) = series
    BY <2>1, EventsAreMeant DEF Tag
  <2>3. stars \in Nat
    BY StarsFit
  <2>4. IsSeries(series) /\ CanNormalize(series) /\ ToSet(Shown) \subseteq ToSet(points)
    <3>1. IsSeries(series)
      BY <2>1, EventsCanBeRead
    <3>2. Shown = client.body.points
      BY <2>1 DEF Shown
    <3> QED BY <2>1, <2>2, <3>1, <3>2 DEF SharesInv
  <2>5. client.kind = "card" => Shown = points
    <3>1. client.kind = "card" => client.body = WholeBody("card", points, stars,
                                                          client.body.generated,
                                                          client.body.metadata)
      BY <2>1, <2>2 DEF ClientInv
    <3> QED BY <2>1, <3>1 DEF WholeBody, Shown
  <2>6. Given = GivenOf(series, S)
    BY <2>1, GivenIsEvents
  <2> HIDE DEF series
  <2>7. PICK g : Sums(g, series, S)
    <3>1. IsFiniteSet(S) /\ \A x \in S : series[x] \in Nat
      BY <2>4 DEF IsSeries
    <3>2. \E g : IsSumming(g, series, SUBSET S)
      BY <3>1, SummingExists
    <3> QED BY <3>1, <3>2 DEF Sums
  <2>8. /\ StarsOf(Given) = Total(series)
        /\ Curve(Given, stars) = SharedDays(series, g, Total(series), stars)
    BY <2>3, <2>4, <2>6, <2>7, CurveIsShared
  <2>9. 2 * stars * Total(series) + Total(series) < Words
    BY <2>8
  <2>10. ToSet(points) = SharedDays(series, g, Total(series), stars)
    BY <2>3, <2>4, <2>7, <2>9, CurvesAreShares
  <2> HIDE DEF points
  <2> QED BY <2>4, <2>5, <2>8, <2>10
<1>2. Init => SundaysInv /\ KnownInv /\ SharesInv
  <2> SUFFICES ASSUME Init PROVE SundaysInv /\ KnownInv /\ SharesInv
    OBVIOUS
  <2>1. Aligned(github, 3)
    BY SundayAssumption DEF Init, Aligned, IsSunday
  <2> QED BY <2>1 DEF Init, SundaysInv, RowIsCanonical, KnownInv, SharesInv
<1>3. /\ RepliesInv /\ SundaysInv /\ KnownInv /\ SharesInv /\ [Next]_vars
      => SundaysInv' /\ KnownInv' /\ SharesInv'
  BY SundaysInvNext, KnownInvNext, SharesInvNext DEF RepliesInv
<1> QED BY <1>1, <1>2, <1>3, RepliesAreInvariant, PTL DEF Spec, SourcesInv
=============================================================================
