# Star history service: TLA+ models, checks and proofs

This directory models the star history service in `src/`: the cache in front of
GitHub's star history, the registry that publishes historical data sets, the
resolution of repository metadata, the builder that publishes day after day, and what
is calculated from it all: the curve and the card. The
models are checked with TLC on small instances; every safety property that a run checks and
that holds, and that the registry implements its abstract specification, is also proved with
TLAPS for every value of the constants, and so are the facts about the calculations they rest on: what
the codec, the merge, the calibration, the selection of points and the sampling of the card's
line return for every input. Only liveness is left to TLC alone.

## 1. The system

The service answers three kinds of public requests (curve, daily events, SVG card)
and a few publishing requests from an offline builder.

| Part | State it keeps | Operations | Model |
|---|---|---|---|
| Official history load (`internal/handler/official_history.go`, `backoff.go`) | LRU entry, row of `github_star_history_cache`, backoff of a repository | load, refresh incrementally or completely, fall back to the stale row | `OfficialHistory` |
| LRU and singleflight (`internal/cache`) | entries with expiry; one call per key | `Get`, `Set`, `Do` | in `OfficialHistory`, for one key |
| Metadata resolution (`internal/handler/history.go`) | rows by repository id, negative cache by path, flights by path | resolve, refresh, record, clear | `MetadataCache` |
| Registry (`internal/serving/registry.go`) | `versions/`, `deltas/`, `runtime/`, `active.json`, the open store, `publishMu`, `mu` | install, activate, roll back, apply a delta, clean up, restart, close | `HistoryRegistry`, abstractly `PublishedHistory` |
| Store (`internal/serving/store.go`) | one SQLite database: series, active version, statistics, ledger of deltas, caches | `ApplyDelta`, `EnsureStatistics`, readers, cache rows | one transaction is one step of the modules above |
| Publish endpoints (`internal/handler/publish.go`) | none | three calls into the registry | arrivals in `HistoryRegistry`, uploads in `DailyPipeline` |
| Events, curve, embed endpoints (`internal/handler/*.go`) | none | read series, active state and metadata, calculate, answer with a tag | their order of reads in the modules above, their answers in `HistoryReplies` |
| GitHub provider, call limiter (`internal/provider`) | slots, token pool, avatar cache | `Fetch`, `StarHistory`, avatars | `GitHubCalls`; one step of a flight elsewhere |
| Series codec and curve (`internal/series`) | none | encode, decode, merge, normalise, select | `StarSeries` |
| Card (`internal/card`) | none | journey, metrics, points of the line; SVG | `StarCard`, without the SVG |
| Builder (`builder/`) | raw partitions, silver data sets, delta bundles, receipts | daily run, catch-up, bundles | `DailyPipeline` |
| Responses, telemetry, auth, scripts | counters only | formatting | not modelled |

How they interact. A curve or card request resolves metadata first
(`requirePublicMetadata`), then loads the official history; the two use the same
singleflight group under different keys. Every cache row of both lives in the
store the registry has open, so activating a snapshot empties both caches under
running requests. The builder publishes over HTTP: snapshots replace the served
version, deltas add one day to it; queries take the registry's read lock once
per store access, activation and deltas take the write lock.

What is hard about it, in the order of the hazards in `PROJECT.json`: flights
that run under the context of the request that leads them; three dates (memory,
row, full validation) whose ages add up; a store that is switched, or a process
that stops, between any two steps; files that survive a stop or do not; two
locks with readers and writers queueing; replays, rebuilt bundles, rollbacks;
caches keyed differently (by id, by path) over data that moves between paths;
builders that share directories, are killed, and publish over a connection that
loses answers; weeks that arrive twice and with other counts; products that wrap;
two samplings of a line that must keep the same marks.

## 2. Modules

### `OfficialHistory`

One repository key. `memory`, `row`, `backoff`, `calls` are the LRU entry, the
row, the backoff state and the singleflight call, each a set with at most one
element. A history is two version numbers: the newest weeks (page 1) and the
older ones; `changes` records when GitHub changed each part, so that a property
can ask how old an answer is. Each request runs through `pc`:

| `pc` | code |
|---|---|
| `idle` -> `reply` or `missed` (`Request`) | first `memory.Get` |
| `missed` -> `lookup` or `waiting` (`Lead`, `Wait`) | `Group.Do` |
| `waiting` (`Receive`, `GiveUp`) | the `select` of `Group.Do` |
| `lookup` (`LookupHit`, `LookupRow`) | second `memory.Get`, row read |
| `decide` (`UseFreshRow`, `Suppress`, `StartRefresh`) | TTL, backoff, refresh |
| `incremental` -> `touch`/`save` | page 1 with `If-None-Match`, 304 or 200 |
| `first` -> `rest` | the complete read |
| any of these (`AskFails`, `Fail`) | failure: backoff and stale fallback |
| `close`, `delete` | the end of `Group.Do`, in two steps |

The environment: time, GitHub's changes, disconnecting clients, a failing store,
restart, store switch, eviction, sweep of the backoff table. All SQLite calls are
one step; a write whose client goes away may fail although it was committed
(`WriteFails`). The pages behind page 1 are one step (`AskRest`) and step by step in
`GitHubCalls`.

### `HistoryRegistry` and `PublishedHistory`

`HistoryRegistry` keeps what is on disk (`pointer`, `snapshots`, `deltas`,
`runtimes`) apart from what is in memory (`store`, `opened`, `publishMu`, `task`,
`reading`). A runtime file has two contents: `file`, what is in the database file,
and `view`, what the open connection sees through the WAL; `wal` says whether the
WAL still has a name in the directory. One activation is the sequence
`PrepareRuntime`, `WritePointer`, `Lock`, `SwitchStore`, `CloseOldStore`,
`CleanupRuntimes`, `CleanupArtifacts`; a delta is `KeepDelta`, `Lock`,
`ApplyDelta`. Between any two of them queries run, other publishers queue, and the
process may crash, be shut down and be restarted (`Crash`, `Shutdown`, `Restart`).
A writer that has called `Lock` lets no new reader in, as `sync.RWMutex` does.
The bundles that exist are constants: a snapshot or delta may exist with a second
content under the same identifier (a rebuilt bundle). A failure that ends an
operation early and leaves nothing behind (bad archive, full disk, SQLite error) is
the fault `"error"`, wherever the code returns an error.

`PublishedHistory` is the promise to a reader: one version at a time, each day up
to the watermark counted once, publishing is atomic, a delta adds exactly the next
day, a stop may take back days that deltas added. The refinement maps its three
variables to the content of the open store, or, while the process is down, of the
file `active.json` names.

### `MetadataCache`

Rows by repository id, negative entries by path, flights by path, and a GitHub in
which repositories turn private or public, are renamed and leave redirects behind.
`readable` are those the server's tokens may read although they are not public: any set of
them, the same for every token and as long as the model runs; the others are "missing" while they are private.
`Return` hands the leader's answer to everyone who waits in one step; the
singleflight group itself is modelled step by step in `OfficialHistory`. `meant` is the repo_id
under which a request is answered: its own, or that of the leader of the flight it joined, whose
check of the id (history.go:466) decides for all of them. "missing" is `ErrNotFound`, whatever led to it;
"kept" is the old row given out when GitHub fails, which the program does not tell from
a fresh one and the property has to. A write may be committed although it failed, as in `OfficialHistory`.

### `GitHubCalls`

The limiter's `slots` and everyone who wants one. A read asks for page 1, then
either for one page after the other until one is empty (no `Link` header) or starts
a goroutine for each page up to `last`; a goroutine waits for one of the read's own
slots (`TakeTurn`, or `Skip` when its context has ended, which records no error),
then for a slot of the limiter. `Join` is `waitGroup.Wait`, `Save` the write under
the read's own context: a read whose client has gone may come to `Join` with pages missing
and no error, and only `Save` stops it. A lookup holds its slot while its avatar
asks for a second one. GitHub's history is `1..latest` and may grow at any time,
which moves each week by one place over the pages. The order of the pages, newest
first, is what incremental refreshes rely on (official_history.go:259-277).

### `DailyPipeline`

Builders as `run[p].pc`, over the directories they share: `raw` (a revision number
of each day's partition; `Holds` says whether it has events of its day, of earlier and of later ones), `silver`, `delta` (empty or one final directory for each day;
a staging directory is what a run holds in `claimed` and `rows`) and `receipts`.

| `pc` | code |
|---|---|
| `idle` -> `active` (`StartCatchUp`, `StartDaily`) | daily.py:120-161, run-daily-pipeline.sh |
| `active` (`AskActive`) | 172-189: done, due, or not adjacent |
| `silver` (`FindSilver`), `claim`, `rows`, `keepSilver` | `_ensure_silver`, `build_silver` from its checksum to its rename |
| `verify` (`VerifySilver`) | 228-236 |
| `delta` (`FindDelta`), `keepDelta` | `_ensure_delta`, `build_delta` |
| `publish`, `await` (`Upload`, `LoseAnswer`, `GiveUp`) | `publish_delta` |
| `receipt`, `completed` | 198-208, 162-169 |

Uploads are messages in `posts`: one may be lost, be served long after its sender gave
up, or be served without the sender hearing of it. `Serve` is `InstallDeltaZip` in its
outcomes (`Refuse`, `RefuseDay`, `Acknowledge`, `Merge`); what is served is
`PublishedHistory`, instantiated over the module's own variables, so that each of its
steps is one that `HistoryRegistry` is shown to implement. What the server keeps beside it is
`kept` (its delta directories) and `merged`. The builder's output differs from build to
build (dates, part names with a UUID), so that no two builds have the same content: a run finishes a
directory only where there is none, so that the day, the source, the run that built it and the number of times
the directories were lost before (`losses`) tell all builds apart. A silver data set has no events after its
day, because the aggregation leaves them out before it is written (`InSilver`, build.py:369-375); what
`OwnDayOnly` compares is the data set, so it refuses earlier days only.

### `StarSeries`, `StarCard` and `HistoryReplies`

`StarSeries` and `StarCard` have no state: `internal/series` and the calculations of
`internal/card` as operators over series (functions from days to counts), weeks and
curves (sequences of points). A word has `Words` values (2^64 in Go), so that small numbers wrap
when `Words` is small. A varint is a number, and the bound of 100,000 points of a decoded series is left out.
`HistoryReplies` puts them to work: GitHub's weeks grow and are revised, a complete read takes two
steps and may see a week begin between them, deltas are merged into the archive's
row, and a client asks for curves and cards with the tag it holds (`Ask`). A reply is
calculated with the operators of the code; the properties compare it with definitions
of their own: the curve as a set (`Curve`), what GitHub said last of a week (`known`), the
sum of the counts of a day (`applied`). A body also has what its tag leaves out: the date of its data (`generated`, moved
by refreshes that change nothing and by a rollback after which the same deltas are merged again, `Republish`), on a card the age of the
repository at that date, its creation, and its description (`metadata`, which stands for name, text, topics, language and avatar).
Dates are days, a repository is created after the midnight of its day, and rates and averages are the pairs they are divided from.
`RepliesAssumption` asks of the constants what the code
makes sure of: counts of a delta are above 0 and fit into an int (registry.go:863-868), what
the archive begins with is a series whose total does, and an int holds the stars. `SundayAssumption`
asks that GitHub's weeks begin on Sundays, as model/history.go:7 says they do: the code relies on it,
since two weeks that overlap would both be counted on the days they share. Where the double of a total wraps to 0 the
calibration divides by zero and panics: the client gets no answer (`CanNormalize`). `source` says whether the handler was given a
provider of the official history, as `server.New` does, or reads curves from the
archive, as it does without (`WithStarHistoryProvider`).

## 3. Runs

| Run | Checks | Shows |
|---|---|---|
| `OfficialHistoryTimes` | `TypeOK`, `RecentWeeksAreFresh`, `OldWeeksAreRevalidated`, `StaleEndsWithBackoff` | an answer that is not marked stale is at most the two TTLs old (older weeks: plus the validation period); a stale entry ends with its backoff window |
| `OfficialHistoryFaults` | `MemoryAgreesWithStore`, `OneRefreshAtATime`, `WaitersHaveALeader`, `RowNeverGoesBack`, `EveryRequestEnds` | refreshes are merged, no waiter is lost, the row only moves forward, every request ends |
| `OfficialHistoryStale` | `StaleOnlyWhileUnavailable`: violated | a stale answer although GitHub never failed |
| `HistoryRegistry` | `TypeOK`, `RestartRecovers`, `PointerMatchesStore`, `StatisticsMatchSeries`, `OneContentPerDelta`, `ServesPublishedHistory` | what is served is always one published version, through errors, crashes, rebuilt bundles, rollbacks and replays |
| `HistoryRegistryEnds` | `NoQueryOnClosedStore`, `EveryPublishEnds` | the two locks protect queries and block nobody for good |
| `HistoryRegistryRestart` | `AcknowledgedDaysAreKept`: violated | an acknowledged day lost by a stop of the process |
| `MetadataCache` | `TypeOK`, `PublicIsRecent`, `UnavailableIsRecent` | how old a positive or a negative answer can be, under every name of the repository |
| `GitHubCalls` | `TypeOK`, `CallsAreLimited`, `SlotsAreReturned`, `SavedIsWhole`, `CauseIsKept`, `EveryCallEnds` | the limiter holds and loses no slot, a saved history has no hole that cancellation or failure could make, the reported error is the one that came first, nobody waits for good |
| `GitHubCallsGap` | `HistoryIsComplete`: violated | a hole in a complete history after a week began during the read |
| `MetadataMismatch` | `AnswerIsAboutThePath`: violated | metadata of another repository than the path's |
| `DailyPipeline` | `TypeOK`, `OneBundlePerDay`, `CompletedMeansServed`, `OnlyOwnDayIsPublished`, `FinishedStays`, `CatchUpEnds` | the server never holds two contents of a day, a run that reports success is right, a finished directory is never replaced, what is published for a day are events of that day only, and catch-ups reach their target after whatever happened |
| `HistoryReplies` | `TypeOK`, `SeriesIsTheSum`, `CurveIsMonotone`, `LineIsDrawn`, `MilestonesAreOnTheLine`, `BurstsFitThePeriod`, `CurveFollowsEvents`, `ConfirmedCurveIsCurrent` | stored series are the sums of what was merged; a curve is that of what GitHub said last, or of the deltas, and never falls; a 304 confirms the points that would be sent, and what is drawn and counted of them; the card's line, marks and numbers agree with each other and with the curve |

Bounds. `OfficialHistoryTimes` has one client, whose requests follow one another,
and six units of time, twice the validation period: enough for a complete read, an
incremental one, an expired validation and a second complete read, with a change of
each part anywhere between. `OfficialHistoryFaults` has two clients, which is what
the flight needs (one leads, one waits, joins late or leads next), and two units of
time, so that an entry expires and a backoff window ends while the other request is
under way. `HistoryRegistry` has three snapshots (active, previous and one that
retention 2 prunes), one of them older in age and newer in use after a rollback, one
of an old schema without statistics, one rebuilt, and deltas for two days, one
rebuilt; two runtime names are enough, because a switch needs an old and a new
one (a third would be a leftover of a crash, which the next activation removes; when both
names are taken while no pointer exists, the model activates nothing more).
`HistoryRegistryEnds` has two publishers and two readers. `MetadataCache` has two
clients, a repository with its old and its new path, an id that belongs to no
repository, one change at GitHub at any time, and both TTLs and the clock at one
unit: a row or an entry is fresh in the unit it was written in and expired in the
next, and every request or flight may last into that next one. `MetadataMismatch` needs one client and two
repositories. `GitHubCalls` has a read of up
to three pages, two lookups and two slots: enough for the lookups to hold every
slot and want more, for a page to queue behind them, and for one page to fail while another
is under way or waits. `DailyPipeline` has one catch-up and one daily run, which start
again and again, two days, a snapshot before them and one that holds the first, a first download of
day 1 with events of the next day, too, and a second one with nothing else, a first download of day 2 with
events of the day before and a second one that is right, and two faults: enough for a run to be killed
after each of its steps while the other one works on the same day, for an upload to
be served after a rollback, and for a rebuilt bundle to meet the one the server kept.
`HistoryReplies` has a history of 17 weeks (11 points, 90 quiet days, one burst) and one of a week whose stars are half the values of a word,
until it is revised; lines of
at most 7 points instead of 90 and curves of at most 3, so that both samplings happen; words of 8,192
values, so that a repository with 4,000 stars wraps the product and a delta of 4,090 the
total; metadata without a creation, and with one before the first star, which lies in the metrics' period for the shorter
of the curves; two descriptions, interchangeable (`RepliesSymmetry`); and two changes at any point, each a
week that begins or is revised, a delta, a day that passes, another description or another date of the archive: between the two
steps of a read, between two requests, both in one day.

Fairness. `EveryRequestEnds` assumes weak fairness of the steps of a request: Go
schedules goroutines, SQLite returns, and GitHub's client has a timeout of 8
seconds; nothing is assumed about arrivals, disconnects or the clock.
`EveryPublishEnds` assumes weak fairness of readers and strong fairness of
publishers: `publishMu` is taken and released by others again and again, and
`sync.Mutex` hands itself to a waiter that has waited for a millisecond.
`EveryCallEnds` assumes weak fairness of each goroutine: the timers of the limiter
and of the HTTP clients fire; a slot is promised to nobody. `CatchUpEnds` assumes weak
fairness of the steps of a run and of the start of catch-ups (launchd starts them
every day), that the service answers what reaches it, and that an operator activates a first snapshot;
nothing is assumed of daily runs, downloads, faults and later activations, whose number
`MaxTrouble` bounds. A catch-up does not reach its target when a partition is missing or an artifact is
refused for good: a partition with later events only, a silver data set whose partition was downloaded again, one with earlier
days, or a rebuilt bundle where the server keeps another; the property names these
states, and all of them need an operator. `DailyPipeline` is run without the check for
deadlocks: with a partition missing and no runs under way nothing need happen.

Each property of a passing run has a mutant in `PROJECT.json`: a definition changed
the way a plausible mistake would change the code, under which TLC finds the
property violated. Mutant operators stand before the definition they change and are
used nowhere else.

## 4. Findings

- A client that disconnects while its request leads a refresh is counted as a
  failure of GitHub: everyone who waits, and every request of the backoff window,
  gets the stale row (`OfficialHistoryStale`, official_history.go:236 against README.md:232).
- `cleanupRuntimes` unlinks the WAL of the active database; with `log.Fatal` the
  store is never closed, so deltas since the last checkpoint are lost
  (`HistoryRegistryRestart`, registry.go:468 against registry_test.go:142). They are
  sent again by the next catch-up, which starts from the watermark the server reports.
- The pages of a history are fetched in parallel by number; a week that begins
  meanwhile moves weeks between them and one may be on none (`GitHubCallsGap`,
  official_history.go:350 against official_history.go:311).
- A row found by `repo_id` is not compared with the path (`MetadataMismatch`,
  history.go:375 against history.go:350 and github.go:149).

Seen while modelling, without a run of their own:

- Concurrent requests for a path share one flight, which checks the `repo_id` of its leader only
  (history.go:436, 466): if that is wrong, all of them are told "Repository was not found.", those that
  named no id, too. `UnavailableIsRecent` therefore speaks of the id of the leader (`meant`); with the
  request's own id in its place it is violated by two requests that arrive together.
- Of a partition that holds events of other days only one with earlier days is refused: later events
  are dropped by the aggregation (build.py:369-375) before first and last day are compared (daily.py:230), and the
  partition is published without them, although the message at daily.py:231 says that data outside of the day is refused.
- The tag of a card leaves out the description, language, topics and avatar, the date of the data and the age
  counted to it (official_history.go:442, embed.go:165), so that a 304 is given when these have changed, where
  README.md:241 has it "when nothing changed". `ConfirmedCurveIsCurrent` is what remains; with `generated` and `metadata` in
  place of the dates and the metadata of the client's own body it is violated after one change of the description.
- The events endpoint reads series and version under two locks (history.go:237-241); a
  switch in between gives events of one version under the identifier of another.
- The events of the chart are ranked, sorted by date and then cut to four (render.go:616,
  `AtMost` in `BuildJourney`): with enough milestones the event of today, or the spike, is the one that
  is dropped, although the comment at render.go:76 asks for the four most important ones.
- The tags of curves leave out the day, with which the beginning of 3m and 1y moves.
- `MAXIMUM_HISTORY_POINTS=1` divides by zero (history.go:129); `SeriesAssumption` excludes it.
- A total of exactly 2^63 divides by zero, too (history.go:50), which the archive's bound on a row's total
  excludes and the official history does not.

## 5. Proofs

Each module with state, and `StarSeries` and `StarCard`, has a `_proofs` module beside it. Their theorems hold for all values of the
constants that satisfy the module's named assumption, which every TLC run of the
module evaluates; nothing else is assumed. The plan of each is the same: an inductive
invariant, a conjunction of named parts; one lemma for each action (or for each action
and part) that it is preserved; and the theorems, which follow from it. Every inductive invariant
was first checked with TLC as an invariant of its module's run.

| Module | Theorem | Property |
|---|---|---|
| `OfficialHistory` | `TypeCorrect`, `RefreshesAreMerged`, `NoLostWaiter` | `TypeOK`, `OneRefreshAtATime`, `WaitersHaveALeader` |
| | `RecentWeeksStayFresh`, `OldWeeksStayRevalidated` | `RecentWeeksAreFresh`, `OldWeeksAreRevalidated` |
| | `CacheLevelsAgree`, `StaleGoesWithBackoff` | `MemoryAgreesWithStore`, `StaleEndsWithBackoff` |
| | `RowMovesForward` | `RowNeverGoesBack`, an action property |
| `HistoryRegistry` | `TypeCorrect`, `RestartNeverFails`, `PointerNeverParts` | `TypeOK`, `RestartRecovers`, `PointerMatchesStore` |
| | `QueriesHaveTheirStore`, `DeltasAreNeverMixed`, `StatisticsStayExact` | `NoQueryOnClosedStore`, `OneContentPerDelta`, `StatisticsMatchSeries` |
| | `RegistryServesPublishedHistory` | `ServesPublishedHistory`, the refinement |
| `MetadataCache` | `TypeCorrect`, `PublicStaysRecent`, `UnavailableStaysRecent` | `TypeOK`, `PublicIsRecent`, `UnavailableIsRecent` |
| | `LeadersAnswerThemselves` | of "not found" for requests that are answered under their own repo_id |
| `GitHubCalls` | `TypeCorrect`, `SlotsStayCounted`, `CallsStayLimited` | `TypeOK`, `SlotsAreReturned`, `CallsAreLimited` |
| | `CauseStays`, `SavedHistoriesAreWhole` | `CauseIsKept`, `SavedIsWhole` |
| `DailyPipeline` | `TypeCorrect`, `BundlesAreUnique`, `OtherDaysStayOut`, `ReportsAreTrue` | `TypeOK`, `OneBundlePerDay`, `OnlyOwnDayIsPublished`, `CompletedMeansServed` |
| | `FinishedDirectoriesStay` | `FinishedStays`, an action property |
| `StarSeries` | `InOrderLists`, `RowsAreReadBack`, `MergeAdds` | what the codec and the merge return |
| | `OfficialIsSeries`, `KeptWeeksHaveEvents`, `EventsOfWeeks` | what the official history returns |
| | `CurvesRise`, `CurvesAreShares` | what the calibration returns, whatever wraps and when nothing does |
| | `MonthHasDay`, `SelectionsRise` | what calendar and selection return |
| `StarCard` | `SampledIsLine`, `LineIsSampled` | what the sampling of the line returns, and what putting the anchors back returns |
| | `JourneyIsOfEvents`, `MilestonesPartTheCurve`, `GrowthIsBurst` | what the selection of events, the milestones and the bursts are |
| | `CardIsOfTheCurve`, `MetricsCoverBursts` | what they make of any curve |
| `HistoryReplies` | `RepliesAreTyped`, `RowIsTheSum` | `TypeOK`, `SeriesIsTheSum` |
| | `ConfirmedCurvesAreCurrent`, `CurvesAreMonotone` | `ConfirmedCurveIsCurrent`, `CurveIsMonotone` |
| | `CurvesFollowEvents` | `CurveFollowsEvents` |
| | `CardLinesAreDrawn`, `CardMilestonesAreOnTheLine`, `CardBurstsFitThePeriod` | `LineIsDrawn`, `MilestonesAreOnTheLine`, `BurstsFitThePeriod` |

**`OfficialHistory_proofs`.** For any set of clients, any TTLs, windows and bounds, and every
combination of faults. The invariant is `TypeOK /\ FlightInv /\ HonestInv`, with `CacheInv` on top.
`FlightInv` ties `calls` to the requests: a call is registered exactly while one
request runs the function, it is done exactly in the step before its deletion, and
whoever waits without a result waits while that request has not closed it. It gives
the two theorems on flights. `HonestInv` says of every value anywhere in the system (row, disk,
memory, a call's result, the row a leader holds, an answer) how old it may be *at
that place*: a value dated `fetched` holds weeks GitHub had at that date or later, a memory
entry expires at most one memory TTL after the date at which the row was within
its own TTL, and a request that waits shares the arrival of the flight it joined. The
age bounds of an answer follow from the entry of its last place. `CacheInv` adds what
the two levels owe each other: memory is empty while a leader decides or refreshes, whatever it
is about to write is younger than the row, and there is one backoff. A fresh entry is the row; a stale one may be an
earlier state of it, after a write that was committed and failed.

**`HistoryRegistry_proofs`.** For any publishers, readers, snapshots and bundles, rebuilt ones
included. `RegistryInv` says who holds `publishMu` in which step (`MutexInv`), that a
process that is down holds nothing (`DownInv`), that what a request names exists (`RequestInv`), that
until the exchange the new runtime file is open, used by nobody else, and a copy of its snapshot
(`CopyInv`), what `active.json` and the open store lead to (`PointerInv`, `StoreInv`), that each database, in
its file and as the connection sees it, holds each day up to its watermark once (`DataInv`), and
on which store a query runs (`ReadInv`). `PointerMatchesStore` is not inductive: between
the write of the pointer and the exchange the two differ, and `CopyInv` is what a crash
there leaves. `RegistryServesPublishedHistory` has one lemma for each action: those that show (`ApplyDelta`,
`SwitchStore`, a crash, a restart) map to a step of `PublishedHistory`, all
others to a stutter. That a stop never takes back days of the snapshot rests on
`DataInv`: the file without its WAL is a complete history, too.

**`MetadataCache_proofs`.** For any clients, paths, repositories, ids and both TTLs.
`MetadataInv` says of each row, negative entry, local result and answer what was true
at its date (`RowsInv`, `NegativeInv`, `LocalInv`, `AnswerInv`), in the form that survives GitHub's
changes: the repository is public now or turned private no earlier than that date. `FlightInv` makes the
answer of a leader one for those who wait, under its arrival and its repo_id (`since`, `meant`). `UnavailableStaysRecent` therefore says of a
"not found" that its path led to no public repository, or to another one than `meant` names; for whoever leads, or is answered
from the caches, that is its own id (`LeadersAnswerThemselves`), for whoever waits it need not be (section 4). `MetadataAssumption` asks that
a redirect leads to a repository that has a name, since GitHub answers a redirected request with
the full name of the repository.

**`GitHubCalls_proofs`.** For any finite sets of reads and lookups and every number of slots,
pages and weeks. `OneMoves` states how the cardinality of a set of calls changes when one call moves;
`SlotsMove` derives from it that the limiter's count stays exact when it changes by what the
moving call holds more or less, so that each action of a page or a lookup is only asked what its
call holds before and after. `SlotsAreReturned` is not inductive: `End` forgets the
calls of a read, which would lose slots if a page were still under way. `PagesInv`
says that no page is under way once a read has reached its save or failed; this
in turn needs the order in which a serial read asks for its pages. `CauseInv` extends
`CauseIsKept` to reads that have not failed yet. `ReadInv` is about the weeks: the pages of a serial read
that are done cover the front of the history as it is *now* (`OneByOne`, `Front`), so
that a week that moves while the read is under way moves to a page that is still to come; the pages of
a parallel read are those of GitHub as long as no week begins (`Exact`); and nothing is
saved before all pages are done without an error (`Complete`). `EveryWeekHasAPage` and
`PageHolds` are the arithmetic of `Page` and `LastPage`, for any page size.

**`DailyPipeline_proofs`.** For any runs, days, snapshots, partitions and troubles.
`PipelineInv` says that a run's day lies in its range and is downloaded (`RangeOK`), that what it builds
from was verified and is there (`BuildOK`), which watermark it has seen (`PeakOK`), that an upload
somebody waits for is that run's only one (`PostInv`), that every bundle anywhere has events of its own day and
no others (`PureInv`), and that what is merged is kept, once for each day, and served (`KeptInv`). `KeptInv` and
`PostInv` together are why an upload that is served late, after its sender gave up and another
run built the day again, is refused or acknowledged but never merged a second time.

**`StarSeries_proofs`.** For any series, weeks, stars and days, and any even number of values of a
word. The operators are folds, which the library defines by recursive functions on the subsets of
a finite set, chosen with `CHOOSE`. The theorems of the library on induction and on recursive definitions have operators as parameters and cannot
be used, so the module derives induction on a *set* of naturals from `FS_Injection` (`Induction`),
from it induction on the subsets of a finite set (`SubsetInduction`), and shows for each fold that a
function with its recursion exists (`ListingExists`, `ReadingExists`, `SummingExists`, `RaisingExists`);
what the fold returns then follows by induction along that recursion. `InOrderLists` says that the list of a
set of days is strictly increasing and complete. On it rest the codec's round trip (`RowsAreReadBack`), with the
invariant that after k pairs the reader stands on the k-th day and has the series up to it; and
`CurvesRise`, with the invariant `Rises`: the points up to the k-th day are in order, never fall and do not exceed the
stars. The latter needs nothing of the products, so it holds for whatever they wrap to; it needs that the
divisor is not 0, which `CanNormalize` says. `SelectionsRise` follows the points through
`Recent`, `Grouped` (the last point always stays) and `Spread` (whose places increase, since
there are more points than places). `MonthHasDay` is that the first guess at a day's month is off
by at most one, for every day, before the epoch too; it is what makes `Cutoff` and `Bucket` defined.
`SumInAnyOrder` is why the total of a series grows by what is added to a day (`TotalAdds`).
`CurvesAreShares` is the other half of the calibration: where no product wraps, the points are exactly the
days of the series, each with its share by definition. The code takes the larger of the share and the
count before, the smaller of that and the stars, and sets the last count to the stars; that none of
the three changes anything is `SharesGrow` (a share never falls and does not exceed the stars)
and `ShareOfAll` (the last one is all of them), carried through the fold by `HasShares`.
`EventsOfWeeks` is about `Canonical` and `Merge`: weeks that begin on the same day of the week and
have different starts lie seven days apart (`WeeksApart`), so that a day is merged from one week
only and keeps its count (`MergeKeepsDay`).

**`StarCard_proofs`.** For any curve, any creation and stars, and any limit of points from seven on, which the
code's 90 is. `SampledIsLine` follows the sampling by triangles: each bucket is a range of places after the bucket
before (`BucketsGrow`, `BucketsAreRanges`), the point chosen is in it (`SelectedFromBucket`), and so the places
increase, whatever the areas are (`LargestExists` needs of them only that they are numbers).
`LineIsSampled` is about the second sampling: the points between are sampled down to what the anchors leave
free, and the anchors are put in where no sampled point has their day, which keeps the limit because a card has at most
four events (`AnchorsAreFew`). `JourneyIsOfEvents` and `RankedAreEvents` show that ranking, sorting
by date and cutting only choose, so that what holds of each event when it is found (`IsEventOf`) holds on the
card. `MilestonesPartTheCurve` says that a milestone is at the first point that has reached its threshold;
that it parts the *drawn* line rests on the drawn line being points of the curve. `GrowthIsBurst` and `MetricsCoverBursts` bring together two calculations
with different points to start from: a burst is counted from a point that has at least the stars of a week before its day,
and the metrics from the last point at the beginning of their period, or from 0.

**`HistoryReplies_proofs`.** For any histories, patterns, snapshots, additions and numbers of stars. `RowInv`
says that the archive's row is the one written for `applied`, and that its total fits into an int: both are
needed at once, since the code compares a total that has already wrapped (store.go:733-739), and
the sum of two ints cannot wrap back below an int. `ClientInv` says that a client's body is calculated from
what its tag names and, for the whole curve and the card, from nothing else but the date and the metadata that it has
itself: neither the day nor the row of today. `ConfirmedCurvesAreCurrent` follows, because equal tags name equal events; that
the date and the metadata are those of today is not so (section 4).
`WeeksInv` and `LineInv` lead from GitHub's weeks through a read to `CurvesAreMonotone`; `WeeksInv` is inductive
because what is kept of accepted weeks is accepted again (`KeptWeeksHaveEvents`). `ReplyInv` and `SettingInv` complete
them to `RepliesInv`, from which `RepliesAreTyped` and the three theorems on cards follow with those of
`StarCard_proofs`. That no request ends in an error of the server is `ReplyInvAsk`: a card is asked of a
curve of at least two points that ends at the stars, which is what the renderer checks.

`CurvesFollowEvents` needs to know more of the official row. `KnownInv` says that `known` has exactly the weeks of the row, with
their counts (`Says`); it is preserved by both kinds of read because `Canonical` keeps the last week given with a start,
and what is said last of a start is the last word on it: `SaidIsHeard` is the induction along
the fold of what was said, and `SaysOfBoth` the step, for weeks kept before and weeks read now, in any order and number. `SundaysInv` says
that all weeks begin on Sundays and that the row is canonical, so that with `EventsOfWeeks` the events of
the row are, day for day, what GitHub said (`GivenIsEvents`). The definition of the curve sums
over sets of days, the code along their order; `StarsOfDays` shows both to be sums over the same days, and
`CurvesAreShares` does the rest. For the archive `RowInv` already says that the row decodes to the
sum of the deltas. `SharesInv` is that what the client holds was selected from a curve that was only calculated
where the division is defined; with it the theorem holds of the curves of 3m and 1y, too, whatever the day was.

Only model-checked: liveness (`EveryRequestEnds`, `EveryPublishEnds`, `EveryCallEnds`, `CatchUpEnds`), which is
out of the prover's reach. The four properties that are violated have counterexamples instead.

## 6. What is left

- A property about the events endpoint (history.go:237-241), which reads series and active version under two locks.
- The token pool and the age of cached avatars beside `GitHubCalls`.
- The order of the card's events when more than four are left after ranking (section 4), as a
  property of `BuildJourney`.

## 7. Not modelled

- The SVG of a card (text, colours, axes, placement of callouts), headers, telemetry,
  authentication, configuration and the other scripts: they keep no state that decides anything.
- The bytes of varints and checksums, the SQL of the builder, its build of a snapshot, and the
  avatar table.
- The token pool and the age of cached avatars.
- A pointer of the old format without a runtime path, and disk-space checks.
- A panic inside a flight, which would leave its key registered.
- Integrity of archives and databases: a bundle either verifies or is a failure.
- Statistics of metadata rows (`metadata_entries`).

## Running

    tlc -config HistoryRegistry.cfg MCHistoryRegistry
    tlc -config HistoryReplies.cfg MCHistoryReplies
    tlapm OfficialHistory_proofs.tla
    tlapm HistoryRegistry_proofs.tla
    tlapm MetadataCache_proofs.tla
    tlapm GitHubCalls_proofs.tla
    tlapm DailyPipeline_proofs.tla
    tlapm StarSeries_proofs.tla
    tlapm StarCard_proofs.tla
    tlapm HistoryReplies_proofs.tla
