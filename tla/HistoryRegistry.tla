---------------------------- MODULE HistoryRegistry ----------------------------
(***************************************************************************)
(* The registry of published histories (internal/serving/registry.go) with *)
(* the part of the serving store it publishes into (store.go, ApplyDelta): *)
(* immutable snapshot directories, delta directories, writable runtime     *)
(* copies, the active pointer file, the open store, its two locks, and     *)
(* what a stop of the process leaves of all this.                          *)
(*                                                                         *)
(* A bundle's content is its checksum; the events of one day are one unit. *)
(* Watermarks are day numbers.                                             *)
(***************************************************************************)
EXTENDS Integers, FiniteSets

CONSTANTS
    Publishers,       \* concurrent publishing requests
    Readers,          \* concurrent history requests
    Versions,         \* snapshot identifiers
    SourceWatermark,  \* manifest.source_watermark of each snapshot
    CreatedAt,        \* manifest.created_at of each snapshot
    Legacy,           \* snapshots of schema 1, which have no statistics row
    Sums,             \* checksums
    SnapshotBundles,  \* the snapshot bundles [version, sum] that were built
    DeltaBundles,     \* the delta bundles [day, sum] that were built
    Files,            \* names of runtime files
    LastDay,          \* bound: deltas end here
    Retention,        \* snapshotRetention
    Faults,           \* a subset of FaultKind
    None

FaultKind == {"crash", "shutdown", "error"}

ASSUME RegistryAssumption ==
    /\ LastDay \in Nat
    /\ SourceWatermark \in [Versions -> 1..LastDay]
    /\ CreatedAt \in [Versions -> Nat]
    /\ \A v, w \in Versions : CreatedAt[v] = CreatedAt[w] => v = w
    /\ Legacy \subseteq Versions
    /\ SnapshotBundles \subseteq [version : Versions, sum : Sums]
    /\ DeltaBundles \subseteq [day : 1..LastDay, sum : Sums]
    /\ Retention \in Nat /\ Retention >= 2
    /\ Faults \subseteq FaultKind
    /\ None \notin Versions \cup Files \cup Publishers \cup Sums

Days == 1..LastDay

NoRow == -1

\* A SQLite database: history_active, the merged series, the event count of
\* history_statistics and applied_deltas.
Database == [version : Versions \cup {None}, watermark : Days \cup {0},
             days : [Days -> Nat], events : Nat \cup {NoRow}, applied : SUBSET DeltaBundles]

\* A runtime file: what is in the file itself, what the open connection sees
\* (file and WAL), and whether the WAL still has a name in the directory.
Runtime == [file : Database, view : Database, wal : BOOLEAN]

VARIABLES
    phase,      \* "running", "down", or "failed": NewRegistry returned an error
    pointer,    \* active.json: {} or one [version, file]
    snapshots,  \* versions/: the installed [version, sum]
    deltas,     \* deltas/: the installed [day, sum]
    runtimes,   \* runtime/: the files there are
    store,      \* r.store: a runtime file, or None for the bootstrap store
    opened,     \* the stores not closed yet
    publishMu,  \* the publisher that holds publishMu, or None
    task,       \* what each publisher is doing
    reading,    \* what each history request is reading
    acked       \* the highest day acknowledged since the pointer was written

diskVars == <<pointer, snapshots, deltas>>
vars == <<phase, diskVars, runtimes, store, opened, publishMu, task, reading, acked>>

Complete(w) == [d \in Days |-> IF d <= w THEN 1 ELSE 0]

Empty == [version |-> None, watermark |-> 0, days |-> Complete(0), events |-> NoRow,
          applied |-> {}]

\* The database of a snapshot bundle.
Snapshot(v) == [version |-> v, watermark |-> SourceWatermark[v],
                days |-> Complete(SourceWatermark[v]),
                events |-> IF v \in Legacy THEN NoRow ELSE SourceWatermark[v],
                applied |-> {}]

\* Mutant: the manifest's numbers replace the row on every start.
ResetStatistics(db) == [db EXCEPT !.events = SourceWatermark[db.version]]

\* EnsureStatistics: a missing row is filled in from the snapshot's manifest.
EnsureStatistics(db) ==
    [db EXCEPT !.events = IF @ = NoRow THEN SourceWatermark[db.version] ELSE @]

Task == [pc : {"idle", "snapshot", "verify", "prepare", "pointer", "switch", "exchange",
               "close", "runtimes", "artifacts", "delta", "merge", "apply"},
         version : Versions \cup {None}, activate : BOOLEAN,
         day : Days \cup {0}, sum : Sums \cup {None},
         file : Files \cup {None}, previous : Versions \cup {None}]

Idle == [pc |-> "idle", version |-> None, activate |-> FALSE, day |-> 0, sum |-> None,
         file |-> None, previous |-> None]

\* The two queries of a request, and the store one of them runs on.
Reading == [pc : {"idle", "series", "decoded", "active", "reply"}, store : Files \cup {None}]

NotReading == [pc |-> "idle", store |-> None]

TypeOK ==
    /\ phase \in {"running", "down", "failed"}
    /\ pointer \in SUBSET [version : Versions, file : Files]
    /\ snapshots \in SUBSET SnapshotBundles
    /\ deltas \in SUBSET DeltaBundles
    /\ DOMAIN runtimes \subseteq Files
    /\ \A f \in DOMAIN runtimes : runtimes[f] \in Runtime
    /\ store \in Files \cup {None}
    /\ opened \in SUBSET (Files \cup {None})
    /\ publishMu \in Publishers \cup {None}
    /\ task \in [Publishers -> Task]
    /\ reading \in [Readers -> Reading]
    /\ acked \in Days \cup {0}

Init ==
    /\ phase = "running"
    /\ pointer = {} /\ snapshots = {} /\ deltas = {}
    /\ runtimes = [f \in {} |-> Empty]
    /\ store = None
    /\ opened = {None}
    /\ publishMu = None
    /\ task = [p \in Publishers |-> Idle]
    /\ reading = [r \in Readers |-> NotReading]
    /\ acked = 0

------------------------------------------------------------------------------

\* What a query on the store of file f (the bootstrap store for None) finds.
Content(f) == IF f \in DOMAIN runtimes THEN runtimes[f].view ELSE Empty

\* The runtime file active.json names.
Pointed == IF pointer = {} THEN None ELSE (CHOOSE a \in pointer : TRUE).file

Installed(v) == \E s \in snapshots : s.version = v

Goto(p, pc) == task' = [task EXCEPT ![p].pc = pc]

\* A publishing request arrives; it runs under publishMu from its first line to
\* its last.
Ask(p, work) ==
    /\ phase = "running"
    /\ task[p].pc = "idle"
    /\ task' = [task EXCEPT ![p] = work]
    /\ UNCHANGED <<phase, diskVars, runtimes, store, opened, publishMu, reading, acked>>

GoOn(p, pc) ==
    /\ publishMu' = p
    /\ Goto(p, pc)

\* Mutant: publishMu is not unlocked.
FinishLocked(p) ==
    /\ publishMu' = p
    /\ task' = [task EXCEPT ![p] = Idle]

Finish(p) ==
    /\ publishMu' = None
    /\ task' = [task EXCEPT ![p] = Idle]

Keep(name, runtime) == [f \in DOMAIN runtimes \cup {name} |->
                            IF f = name THEN runtime ELSE runtimes[f]]

------------------------------------------------------------------------------
(* Publishing a snapshot.                                                    *)

InstallSnapshot(p) ==
    \E b \in SnapshotBundles, activate \in BOOLEAN :
        Ask(p, [Idle EXCEPT !.pc = "snapshot", !.version = b.version, !.sum = b.sum,
                            !.activate = activate])

\* A bundle that does not unpack or verify, a disk that is full.
InstallFails == "error" \in Faults

\* installImmutableDirectory, or a failure before it.
KeepSnapshot(p) ==
    /\ task[p].pc = "snapshot"
    /\ publishMu = None
    /\ \/ /\ \/ InstallFails
             \/ \E s \in snapshots : s.version = task[p].version /\ s.sum # task[p].sum
          /\ Finish(p)
          /\ UNCHANGED snapshots
       \/ /\ \A s \in snapshots : s.version = task[p].version => s.sum = task[p].sum
          /\ snapshots' = snapshots \cup {[version |-> task[p].version, sum |-> task[p].sum]}
          /\ IF task[p].activate THEN GoOn(p, "prepare") ELSE Finish(p)
    /\ UNCHANGED <<phase, pointer, deltas, runtimes, store, opened, reading, acked>>

\* ActivateSnapshot: roll back or forward to an installed version.
ActivateSnapshot(p) ==
    \E v \in Versions : Ask(p, [Idle EXCEPT !.pc = "verify", !.version = v])

VerifyInstalled(p) ==
    /\ task[p].pc = "verify"
    /\ publishMu = None
    /\ IF Installed(task[p].version) THEN GoOn(p, "prepare") ELSE Finish(p)
    /\ UNCHANGED <<phase, diskVars, runtimes, store, opened, reading, acked>>

\* prepareRuntime: copy the snapshot under a new name and open the copy.
PrepareRuntime(p) ==
    /\ task[p].pc = "prepare"
    /\ \/ /\ "error" \in Faults
          /\ Finish(p)
          /\ UNCHANGED <<runtimes, opened>>
       \/ \E f \in Files \ DOMAIN runtimes :
            /\ runtimes' = Keep(f, [file |-> Snapshot(task[p].version),
                                    view |-> EnsureStatistics(Snapshot(task[p].version)),
                                    wal |-> TRUE])
            /\ opened' = opened \cup {f}
            /\ task' = [task EXCEPT ![p].pc = "pointer", ![p].file = f]
            /\ UNCHANGED publishMu
    /\ UNCHANGED <<phase, diskVars, store, reading, acked>>

\* Mutant: the pointer does not name its runtime file.
PointerWithoutFile(v, f) == {[version |-> v, file |-> None]}

PointerTo(v, f) == {[version |-> v, file |-> f]}

\* Mutant: a failure to write active.json does not end the activation.
WritePointerOrNot(p) ==
    /\ task[p].pc = "pointer"
    /\ acked' = 0
    /\ \/ "error" \in Faults /\ UNCHANGED pointer
       \/ pointer' = PointerTo(task[p].version, task[p].file)
    /\ Goto(p, "switch")
    /\ UNCHANGED <<phase, snapshots, deltas, runtimes, store, opened, publishMu, reading>>

\* writeActivePointer replaces active.json by rename; when that fails the copy
\* is closed and removed.
WritePointer(p) ==
    /\ task[p].pc = "pointer"
    /\ \/ /\ "error" \in Faults
          /\ opened' = opened \ {task[p].file}
          /\ runtimes' = [f \in DOMAIN runtimes \ {task[p].file} |-> runtimes[f]]
          /\ Finish(p)
          /\ UNCHANGED <<pointer, acked>>
       \/ /\ acked' = 0
          /\ pointer' = PointerTo(task[p].version, task[p].file)
          /\ task' = [task EXCEPT ![p].pc = "switch",
                                  ![p].previous = IF pointer = {} THEN None
                                                  ELSE (CHOOSE a \in pointer : TRUE).version]
          /\ UNCHANGED <<runtimes, opened, publishMu>>
    /\ UNCHANGED <<phase, snapshots, deltas, store, reading>>

\* RWMutex.Lock: from the call on no request is let in, and the writer goes on when
\* those inside a query have left.
Lock(p) ==
    /\ \/ task[p].pc = "switch" /\ Goto(p, "exchange")
       \/ task[p].pc = "merge" /\ Goto(p, "apply")
    /\ UNCHANGED <<phase, diskVars, runtimes, store, opened, publishMu, reading, acked>>

QueryUnderWay == \E r \in Readers : reading[r].pc \in {"series", "active"}

\* Mutant: the store is exchanged and closed under its readers.
SwitchUnderReaders(p) ==
    /\ task[p].pc = "exchange"
    /\ store' = task[p].file
    /\ task' = [task EXCEPT ![p].pc = "close", ![p].file = store]
    /\ UNCHANGED <<phase, diskVars, runtimes, opened, publishMu, reading, acked>>

\* The write lock is held only to exchange the store.
SwitchStore(p) ==
    /\ task[p].pc = "exchange"
    /\ ~QueryUnderWay
    /\ store' = task[p].file
    /\ task' = [task EXCEPT ![p].pc = "close", ![p].file = store]
    /\ UNCHANGED <<phase, diskVars, runtimes, opened, publishMu, reading, acked>>

\* The old store is closed outside the lock.
CloseOldStore(p) ==
    /\ task[p].pc = "close"
    /\ opened' = opened \ {task[p].file}
    /\ task' = [task EXCEPT ![p].pc = "runtimes", ![p].file = None]
    /\ UNCHANGED <<phase, diskVars, runtimes, store, publishMu, reading, acked>>

\* cleanupRuntimes removes whatever is in runtime/ except the active database
\* itself: older copies, and the active database's own WAL.
Cleaned(active) == [f \in DOMAIN runtimes \cap {active} |-> [runtimes[f] EXCEPT !.wal = FALSE]]

CleanupRuntimes(p) ==
    /\ task[p].pc = "runtimes"
    /\ runtimes' = Cleaned(store)
    /\ Goto(p, "artifacts")
    /\ UNCHANGED <<phase, diskVars, store, opened, publishMu, reading, acked>>

\* Mutant: the newest versions are kept, the active one is not looked at.
KeptNewest(v, previous) ==
    {w \in Versions : Cardinality({u \in Versions : Installed(u) /\ CreatedAt[u] > CreatedAt[w]}) < Retention}

\* cleanupArtifacts keeps the active and the previous version, and the newest
\* others up to the retention.
Kept(v, previous) ==
    LET must == {v, previous} \ {None}
        Newer(w) == {u \in Versions \ must : Installed(u) /\ CreatedAt[u] > CreatedAt[w]}
    IN  must \cup {w \in Versions \ must :
                        Cardinality(must) + Cardinality(Newer(w)) < Retention}

CleanupArtifacts(p) ==
    /\ task[p].pc = "artifacts"
    /\ snapshots' = {s \in snapshots : s.version \in Kept(task[p].version, task[p].previous)}
    /\ deltas' = {d \in deltas : d.day > SourceWatermark[task[p].version]}
    /\ Finish(p)
    /\ UNCHANGED <<phase, pointer, runtimes, store, opened, reading, acked>>

------------------------------------------------------------------------------
(* Publishing a delta.                                                       *)

InstallDelta(p) ==
    \E b \in DeltaBundles : Ask(p, [Idle EXCEPT !.pc = "delta", !.day = b.day, !.sum = b.sum])

\* Mutant: a rebuilt delta replaces the directory of its identifier.
KeepDeltaReplacing(p) ==
    /\ task[p].pc = "delta"
    /\ publishMu = None
    /\ IF pointer = {}
       THEN Finish(p) /\ UNCHANGED deltas
       ELSE /\ deltas' = {d \in deltas : d.day # task[p].day}
                            \cup {[day |-> task[p].day, sum |-> task[p].sum]}
            /\ GoOn(p, "merge")
    /\ UNCHANGED <<phase, pointer, snapshots, runtimes, store, opened, reading, acked>>

\* A delta needs a snapshot the registry manages.  That its day follows its
\* from_watermark is verified with the bundle.
KeepDelta(p) ==
    /\ task[p].pc = "delta"
    /\ publishMu = None
    /\ \/ /\ \/ pointer = {}
             \/ InstallFails
             \/ \E d \in deltas : d.day = task[p].day /\ d.sum # task[p].sum
          /\ Finish(p)
          /\ UNCHANGED deltas
       \/ /\ pointer # {}
          /\ \A d \in deltas : d.day = task[p].day => d.sum = task[p].sum
          /\ deltas' = deltas \cup {[day |-> task[p].day, sum |-> task[p].sum]}
          /\ GoOn(p, "merge")
    /\ UNCHANGED <<phase, pointer, snapshots, runtimes, store, opened, reading, acked>>

\* Mutant: any later day is taken.
FollowsSomehow(db, delta) == db.watermark < delta.day

Follows(db, delta) == db.watermark = delta.day - 1

\* ApplyDelta: one transaction for the series, the statistics, the ledger and
\* the watermark.
Merged(db, delta) ==
    [version |-> db.version, watermark |-> delta.day,
     days |-> [db.days EXCEPT ![delta.day] = @ + 1], events |-> db.events + 1,
     applied |-> db.applied \cup {delta}]

\* Under the write lock: a replay is acknowledged, a delta that does not follow
\* the watermark is refused, the next one is applied.
ApplyDelta(p) ==
    /\ task[p].pc = "apply"
    /\ ~QueryUnderWay
    /\ Finish(p)
    /\ LET delta == [day |-> task[p].day, sum |-> task[p].sum]
           db == Content(store)
           before == {a \in db.applied : a.day = delta.day}
           Acknowledge == acked' = IF acked < delta.day THEN delta.day ELSE acked
       IN  \/ "error" \in Faults /\ UNCHANGED <<runtimes, acked>>
           \/ /\ before # {}
              /\ IF before = {delta} THEN Acknowledge ELSE UNCHANGED acked
              /\ UNCHANGED runtimes
           \/ /\ before = {} /\ ~Follows(db, delta)
              /\ UNCHANGED <<runtimes, acked>>
           \/ /\ before = {} /\ Follows(db, delta)
              /\ runtimes' = [runtimes EXCEPT ![store].view = Merged(db, delta)]
              /\ Acknowledge
    /\ UNCHANGED <<phase, diskVars, store, opened, reading>>

------------------------------------------------------------------------------
(* A history request: the series under one read lock, the active version     *)
(* under another (HandleStarHistoryEvents).                                  *)

WriterWaits == \E p \in Publishers : task[p].pc \in {"exchange", "apply"}

Query(r, from, to) ==
    /\ phase = "running"
    /\ ~WriterWaits
    /\ reading[r].pc = from
    /\ reading' = [reading EXCEPT ![r].pc = to, ![r].store = store]
    /\ UNCHANGED <<phase, diskVars, runtimes, store, opened, publishMu, task, acked>>

StartSeries(r) == Query(r, "idle", "series")

ReadSeries(r) ==
    /\ reading[r].pc = "series"
    /\ reading' = [reading EXCEPT ![r].pc = "decoded", ![r].store = None]
    /\ UNCHANGED <<phase, diskVars, runtimes, store, opened, publishMu, task, acked>>

StartActive(r) == Query(r, "decoded", "active")

ReadActive(r) ==
    /\ reading[r].pc = "active"
    /\ reading' = [reading EXCEPT ![r].pc = "reply", ![r].store = None]
    /\ UNCHANGED <<phase, diskVars, runtimes, store, opened, publishMu, task, acked>>

Reply(r) ==
    /\ reading[r].pc = "reply"
    /\ reading' = [reading EXCEPT ![r] = NotReading]
    /\ UNCHANGED <<phase, diskVars, runtimes, store, opened, publishMu, task, acked>>

------------------------------------------------------------------------------
(* The process and SQLite.                                                   *)

\* SQLite moves the WAL into the database file when it has grown enough.  Only a
\* stop of the process tells whether it did.
Checkpoint(f) ==
    /\ Faults \cap {"crash", "shutdown"} # {}
    /\ f \in opened \cap DOMAIN runtimes
    /\ runtimes' = [runtimes EXCEPT ![f].file = runtimes[f].view]
    /\ UNCHANGED <<phase, diskVars, store, opened, publishMu, task, reading, acked>>

\* What is on disk after the process is gone: a WAL that still has its name is
\* found by the next Open, one that was removed is not.
Recovered(runtime) ==
    LET db == IF runtime.wal THEN runtime.view ELSE runtime.file
    IN  [file |-> db, view |-> db, wal |-> FALSE]

Stop ==
    /\ phase = "running"
    /\ phase' = "down"
    /\ store' = None
    /\ opened' = {}
    /\ publishMu' = None
    /\ task' = [p \in Publishers |-> Idle]
    /\ reading' = [r \in Readers |-> NotReading]
    /\ UNCHANGED <<diskVars, acked>>

\* log.Fatal, a signal or a power cut: nothing is closed.
Crash ==
    /\ "crash" \in Faults
    /\ Stop
    /\ runtimes' = [f \in DOMAIN runtimes |-> Recovered(runtimes[f])]

\* Registry.Close: the last connection of the active store checkpoints it.
Shutdown ==
    /\ "shutdown" \in Faults
    /\ ~QueryUnderWay
    /\ Stop
    /\ runtimes' = [f \in DOMAIN runtimes |->
                        Recovered(IF f = store THEN [runtimes[f] EXCEPT !.file = runtimes[f].view] ELSE runtimes[f])]

\* NewRegistry: the pointer's snapshot must verify and its runtime file must
\* hold that version; then everything else in runtime/ is removed.
Restart ==
    /\ phase = "down"
    /\ IF \A a \in pointer : Installed(a.version) /\ Content(a.file).version = a.version
       THEN /\ phase' = "running"
            /\ store' = Pointed
            /\ opened' = {store'}
            /\ runtimes' = IF pointer = {} THEN runtimes
                           ELSE [f \in {store'} |-> [runtimes[f] EXCEPT !.view = EnsureStatistics(@)]]
       ELSE /\ phase' = "failed"
            /\ UNCHANGED <<store, opened, runtimes>>
    /\ UNCHANGED <<diskVars, publishMu, task, reading, acked>>

------------------------------------------------------------------------------

Publish(p) ==
    \/ KeepSnapshot(p) \/ VerifyInstalled(p)
    \/ PrepareRuntime(p) \/ WritePointer(p) \/ Lock(p) \/ SwitchStore(p) \/ CloseOldStore(p)
    \/ CleanupRuntimes(p) \/ CleanupArtifacts(p)
    \/ KeepDelta(p) \/ ApplyDelta(p)

Read(r) == ReadSeries(r) \/ StartActive(r) \/ ReadActive(r) \/ Reply(r)

Next ==
    \/ \E p \in Publishers :
        InstallSnapshot(p) \/ ActivateSnapshot(p) \/ InstallDelta(p) \/ Publish(p)
    \/ \E r \in Readers : StartSeries(r) \/ Read(r)
    \/ \E f \in Files : Checkpoint(f)
    \/ Crash \/ Shutdown \/ Restart

Spec == Init /\ [][Next]_vars

\* Handlers are scheduled, reads and writes of files and of SQLite return, and
\* sync.Mutex hands itself to a waiter that it has kept waiting.
FairSpec ==
    /\ Spec
    /\ \A p \in Publishers : SF_vars(Publish(p))
    /\ \A r \in Readers : WF_vars(Read(r))

------------------------------------------------------------------------------
(* Properties.                                                               *)

\* What queries are answered from, or will be once the process is up again.
Served == Content(IF phase = "running" THEN store ELSE Pointed)

\* The registry shows its readers nothing but PublishedHistory: whole versions,
\* every day up to the watermark counted exactly once, through replays, refused
\* deltas, rollbacks, failed and interrupted activations, crashes and restarts.
Abstract == INSTANCE PublishedHistory
    WITH Nothing <- None, version <- Served.version, watermark <- Served.watermark,
         days <- Served.days

ServesPublishedHistory == Abstract!Spec

\* registry.go:101: at whatever point the process stops, NewRegistry finds a
\* pointer whose snapshot and runtime file are both there.
RestartRecovers == phase # "failed"

\* The pointer on disk and the store in memory never part for good: when nobody
\* publishes, a restart would serve the very file that is served now.
PointerMatchesStore == phase = "running" /\ publishMu = None => store = Pointed

\* A query never runs on a store that has been closed under it.
NoQueryOnClosedStore ==
    \A r \in Readers : reading[r].pc \in {"series", "active"} => reading[r].store \in opened

\* registry.go:587: an identifier stands for one content for good: what the served
\* store says it has merged is what the delta directory of that name holds, through
\* rebuilt bundles, rollbacks that merge a day again and pruned directories.
OneContentPerDelta ==
    \A a \in Content(store).applied, d \in deltas : a.day = d.day => a.sum = d.sum

\* store.go:633: the console's statistics count what the series hold, through
\* deltas, replays and the restarts that run EnsureStatistics again.
StatisticsMatchSeries ==
    phase = "running" /\ store # None =>
        Content(store).events = Cardinality({d \in Days : Content(store).days[d] > 0})

\* A publishing request ends, however many readers and other publishers there are.
EveryPublishEnds == \A p \in Publishers : task[p].pc # "idle" ~> task[p].pc = "idle"

\* registry_test.go:142: "restart must restore delta-applied runtime": a day that
\* was acknowledged to the publisher is still served after the process restarts.
AcknowledgedDaysAreKept ==
    phase = "running" => Content(Pointed).watermark >= acked
==============================================================================
