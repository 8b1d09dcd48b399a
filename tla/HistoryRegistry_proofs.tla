------------------------ MODULE HistoryRegistry_proofs ------------------------
(***************************************************************************)
(* What HistoryRegistry promises, for any number of publishers, readers,   *)
(* snapshots, deltas and files: that it implements PublishedHistory, that  *)
(* a restart never fails, and that no query runs on a closed store.        *)
(***************************************************************************)
EXTENDS HistoryRegistry, FiniteSetTheorems, TLAPS

------------------------------------------------------------------------------
(* The inductive invariant.                                                  *)

\* The steps under publishMu, and those of an activation among them.
Activating == {"prepare", "pointer", "switch", "exchange", "close", "runtimes", "artifacts"}

Working == Activating \cup {"merge", "apply"}

\* active.json is written and the store is still the old one.
Switching == {"switch", "exchange"}

\* A publisher holds publishMu exactly in the steps under it.
MutexInv == \A p \in Publishers : task[p].pc \in Working <=> publishMu = p

\* No request outlives the process.
DownInv ==
    phase # "running" =>
        /\ store = None /\ opened = {} /\ publishMu = None
        /\ \A p \in Publishers : task[p].pc = "idle"
        /\ \A r \in Readers : reading[r].pc = "idle"

Delta(t) == [day |-> t.day, sum |-> t.sum]

\* What a publishing request names exists: a bundle that was built, a snapshot that
\* is installed, a delta that has its directory.
RequestOK(p) ==
    /\ task[p].pc \in Activating \cup {"snapshot", "verify"} => task[p].version \in Versions
    /\ task[p].pc = "snapshot" =>
            [version |-> task[p].version, sum |-> task[p].sum] \in SnapshotBundles
    /\ task[p].pc \in {"delta", "merge", "apply"} => Delta(task[p]) \in DeltaBundles
    /\ task[p].pc \in {"merge", "apply"} => Delta(task[p]) \in deltas
    /\ task[p].pc \in Activating => Installed(task[p].version)

RequestInv == \A p \in Publishers : RequestOK(p)

IsCopy(db, v) == db.version = v /\ db.watermark = SourceWatermark[v] /\ db.applied = {}

\* Until it is served, the runtime file of an activation is open, nobody else uses
\* it, and it holds what its snapshot holds; active.json leads to it as soon as it
\* is written.
CopyOK(p) ==
    /\ task[p].pc \in Switching \cup {"pointer"} =>
        /\ task[p].file \in opened /\ task[p].file \in DOMAIN runtimes
        /\ task[p].file # store
        /\ IsCopy(runtimes[task[p].file].file, task[p].version)
        /\ IsCopy(runtimes[task[p].file].view, task[p].version)
        /\ runtimes[task[p].file].view.events # NoRow
    /\ task[p].pc = "pointer" => \A a \in pointer : a.file # task[p].file
    /\ task[p].pc \in Switching =>
            pointer = {[version |-> task[p].version, file |-> task[p].file]}
    /\ task[p].pc \in {"close", "runtimes", "artifacts"} =>
            \A a \in pointer : a.version = task[p].version
    /\ task[p].pc = "close" => task[p].file # store

CopyInv == \A p \in Publishers : CopyOK(p)

\* What active.json names is there, is the version it says, and whatever was merged
\* into it has its directory.
PointerInv ==
    /\ \A a, b \in pointer : a = b
    /\ \A a \in pointer :
        /\ Installed(a.version)
        /\ a.file \in DOMAIN runtimes
        /\ runtimes[a.file].view.version = a.version
        /\ runtimes[a.file].file.applied \cup runtimes[a.file].view.applied \subseteq deltas

\* The store is open, has a statistics row, and is the one active.json names unless
\* a switch is under way.
StoreInv ==
    phase = "running" =>
        /\ store \in opened
        /\ store # None =>
            /\ store \in DOMAIN runtimes
            /\ runtimes[store].view.events # NoRow
            /\ runtimes[store].view.applied \subseteq deltas
        /\ (\A p \in Publishers : task[p].pc \notin Switching) => store = Pointed

\* A database with the snapshot it was made from and the days up to its watermark.
Sound(db) ==
    /\ db.version \in Versions
    /\ SourceWatermark[db.version] <= db.watermark
    /\ db.days = Complete(db.watermark)
    /\ \/ db.events = db.watermark
       \/ db.events = NoRow /\ db.watermark = SourceWatermark[db.version]
    /\ \A a \in db.applied : SourceWatermark[db.version] < a.day

\* The file of a database is sound, and so is it with its WAL, which only adds days.
DataInv ==
    \A f \in DOMAIN runtimes :
        /\ Sound(runtimes[f].file) /\ Sound(runtimes[f].view)
        /\ runtimes[f].file.version = runtimes[f].view.version
        /\ runtimes[f].file.watermark <= runtimes[f].view.watermark

\* A directory of deltas has one content.
DeltaInv == \A d, e \in deltas : d.day = e.day => d.sum = e.sum

\* A query runs on the store that is served.
ReadInv == \A r \in Readers : reading[r].pc \in {"series", "active"} => reading[r].store = store

RegistryInv ==
    /\ TypeOK /\ RestartRecovers
    /\ MutexInv /\ DownInv /\ RequestInv /\ CopyInv
    /\ PointerInv /\ StoreInv /\ DataInv /\ DeltaInv /\ ReadInv

------------------------------------------------------------------------------
(* Lemmas about databases.                                                   *)

LEMMA Constants ==
    /\ LastDay \in Nat
    /\ \A v \in Versions : SourceWatermark[v] \in Days
    /\ None \notin Versions /\ None \notin Files /\ None \notin Publishers /\ None \notin Sums
    /\ \A b \in SnapshotBundles : b.version \in Versions /\ b.sum \in Sums
    /\ \A d \in DeltaBundles : d.day \in Days /\ d.sum \in Sums /\ d = Delta(d)
BY RegistryAssumption DEF Days, Delta

\* A complete history is a count for each day.
LEMMA CompleteType == \A w : Complete(w) \in [Days -> Nat]
BY DEF Complete

LEMMA EmptyType == Empty \in Database
BY CompleteType DEF Empty, Database, NoRow

\* What EnsureStatistics leaves alone and what it brings about.
LEMMA Ensured ==
    ASSUME NEW db \in Database, Sound(db)
    PROVE  /\ EnsureStatistics(db) \in Database
           /\ Sound(EnsureStatistics(db))
           /\ EnsureStatistics(db).events # NoRow
           /\ EnsureStatistics(db).version = db.version
           /\ EnsureStatistics(db).watermark = db.watermark
           /\ EnsureStatistics(db).days = db.days
           /\ EnsureStatistics(db).applied = db.applied
<1>1. SourceWatermark[db.version] \in Days /\ SourceWatermark[db.version] # NoRow
  BY Constants DEF Sound, Days, NoRow
<1>2. db.watermark # NoRow
  BY Constants DEF Database, Days, NoRow
<1> QED BY <1>1, <1>2 DEF EnsureStatistics, Database, Sound, Days

\* The database of a snapshot.
LEMMA SnapshotIsSound ==
    ASSUME NEW v \in Versions
    PROVE  Snapshot(v) \in Database /\ Sound(Snapshot(v)) /\ IsCopy(Snapshot(v), v)
<1>1. SourceWatermark[v] \in Days
  BY Constants
<1>2. Snapshot(v) \in Database
  BY <1>1, CompleteType DEF Snapshot, Database, Days
<1>3. Sound(Snapshot(v))
  BY <1>1 DEF Snapshot, Sound, Days
<1> QED BY <1>2, <1>3 DEF Snapshot, IsCopy

\* One day more.
LEMMA MergedIsSound ==
    ASSUME NEW db \in Database, NEW d \in DeltaBundles, Sound(db), db.events # NoRow,
           Follows(db, d)
    PROVE  /\ Merged(db, d) \in Database
           /\ Sound(Merged(db, d))
           /\ Merged(db, d).events # NoRow
           /\ Merged(db, d).version = db.version
           /\ Merged(db, d).watermark = db.watermark + 1
           /\ Merged(db, d).days = Complete(db.watermark + 1)
           /\ Merged(db, d).applied = db.applied \cup {d}
<1>1. d.day \in Days /\ d.day = db.watermark + 1 /\ db.watermark \in Nat
  BY Constants DEF Follows, Database, Days
<1>2. db.events \in Nat /\ db.events = db.watermark
  BY DEF Sound, Database
<1>3. Merged(db, d).days = Complete(db.watermark + 1)
  <2>1. Merged(db, d).days = [db.days EXCEPT ![d.day] = @ + 1]
    BY DEF Merged, Database
  <2>2. db.days = Complete(db.watermark)
    BY DEF Sound
  <2>3. \A e \in Days : Merged(db, d).days[e] = Complete(db.watermark + 1)[e]
    <3> SUFFICES ASSUME NEW e \in Days
                 PROVE  Merged(db, d).days[e] = Complete(db.watermark + 1)[e]
      OBVIOUS
    <3>1. Merged(db, d).days[e] = IF e = d.day THEN db.days[e] + 1 ELSE db.days[e]
      BY <1>1, <2>1, <2>2, CompleteType
    <3>2. db.days[e] = IF e <= db.watermark THEN 1 ELSE 0
      BY <2>2 DEF Complete
    <3>3. Complete(db.watermark + 1)[e] = IF e <= db.watermark + 1 THEN 1 ELSE 0
      BY DEF Complete
    <3> QED BY <1>1, <3>1, <3>2, <3>3 DEF Days
  <2>4. /\ Merged(db, d).days = [e \in Days |-> Merged(db, d).days[e]]
        /\ Complete(db.watermark + 1) = [e \in Days |-> Complete(db.watermark + 1)[e]]
    BY <2>1, <2>2 DEF Complete
  <2> QED BY <2>3, <2>4
<1>4. /\ Merged(db, d).version = db.version
      /\ Merged(db, d).watermark = db.watermark + 1
      /\ Merged(db, d).applied = db.applied \cup {d}
      /\ Merged(db, d).events = db.events + 1
  BY <1>1 DEF Merged, Database
<1>5. Merged(db, d) \in Database
  <2>1. db.version \in Versions \cup {None} /\ db.applied \in SUBSET DeltaBundles
    BY DEF Database
  <2>2. db.events + 1 \in Nat /\ Merged(db, d).days \in [Days -> Nat]
    BY <1>2, <1>3, CompleteType
  <2> QED BY <1>1, <2>1, <2>2 DEF Merged, Database
<1>6. SourceWatermark[db.version] \in Nat
  BY Constants DEF Sound, Days
<1> QED BY <1>1, <1>2, <1>3, <1>4, <1>5, <1>6 DEF Sound, NoRow

------------------------------------------------------------------------------
(* Lemmas about publishers.                                                  *)

\* The only element of a set is the one CHOOSE finds.
LEMMA TheOnlyOne ==
    ASSUME NEW S, NEW a \in S, \A b, c \in S : b = c
    PROVE  (CHOOSE b \in S : TRUE) = a
OBVIOUS

\* The pointer's file, before and after a step.
LEMMA PointedIs ==
    /\ PointerInv => \A a \in pointer : Pointed = a.file
    /\ PointerInv' => \A a \in pointer' : Pointed' = a.file
<1>1. PointerInv => \A a \in pointer : Pointed = a.file
  BY TheOnlyOne DEF PointerInv, Pointed
<1>2. PointerInv' => \A a \in pointer' : Pointed' = a.file
  BY TheOnlyOne DEF PointerInv, Pointed
<1> QED BY <1>1, <1>2

LEMMA Moves ==
    ASSUME TypeOK, NEW p \in Publishers, NEW t \in Task, task' = [task EXCEPT ![p] = t]
    PROVE  /\ task' \in [Publishers -> Task]
           /\ task'[p] = t
           /\ \A q \in Publishers \ {p} : task'[q] = task[q]
BY DEF TypeOK

LEMMA IdleIsATask == Idle \in Task /\ Idle.pc = "idle"
BY Constants DEF Idle, Task, Days

LEMMA Goes ==
    ASSUME TypeOK, NEW p \in Publishers, NEW x \in Working, Goto(p, x)
    PROVE  /\ task' \in [Publishers -> Task]
           /\ task'[p].pc = x
           /\ task'[p].version = task[p].version
           /\ task'[p].day = task[p].day
           /\ task'[p].sum = task[p].sum
           /\ task'[p].file = task[p].file
           /\ task'[p].previous = task[p].previous
           /\ \A q \in Publishers \ {p} : task'[q] = task[q]
<1> DEFINE t == [task[p] EXCEPT !.pc = x]
<1>1. task[p] \in Task
  BY DEF TypeOK
<1>2. t \in Task
  BY <1>1 DEF Task, Working, Activating
<1>3. task' = [task EXCEPT ![p] = t]
  BY DEF Goto
<1>4. /\ t.pc = x /\ t.version = task[p].version /\ t.day = task[p].day /\ t.sum = task[p].sum
      /\ t.file = task[p].file /\ t.previous = task[p].previous
  BY <1>1 DEF Task
<1> HIDE DEF t
<1> QED BY <1>2, <1>3, <1>4, Moves

LEMMA Finishes ==
    ASSUME TypeOK, NEW p \in Publishers, Finish(p)
    PROVE  /\ publishMu' = None
           /\ task' \in [Publishers -> Task]
           /\ task'[p].pc = "idle"
           /\ \A q \in Publishers \ {p} : task'[q] = task[q]
BY IdleIsATask, Moves DEF Finish

\* Who is at work under publishMu is alone there.
LEMMA Alone ==
    ASSUME MutexInv, DownInv, NEW p \in Publishers, task[p].pc # "idle", publishMu \in {None, p}
    PROVE  /\ phase = "running"
           /\ \A q \in Publishers \ {p} : task[q].pc \notin Working
BY Constants DEF MutexInv, DownInv

LEMMA AtWork ==
    ASSUME MutexInv, NEW p \in Publishers, task[p].pc \in Working
    PROVE  publishMu = p /\ task[p].pc # "idle"
BY DEF MutexInv, Working, Activating

\* A step of one publisher: what others do not notice.
LEMMA PublisherStep ==
    ASSUME RegistryInv, NEW p \in Publishers, task[p].pc # "idle",
           publishMu \in {None, p}, publishMu' \in {None, p},
           task'[p].pc \in Working <=> publishMu' = p,
           \A q \in Publishers \ {p} : task'[q] = task[q],
           UNCHANGED phase,
           RequestOK(p)', CopyOK(p)'
    PROVE  RestartRecovers' /\ MutexInv' /\ DownInv' /\ RequestInv' /\ CopyInv'
<1>1. phase = "running" /\ \A q \in Publishers \ {p} : task[q].pc \notin Working
  BY Alone DEF RegistryInv
<1>2. RestartRecovers' /\ DownInv'
  BY <1>1 DEF RestartRecovers, DownInv
<1>3. MutexInv'
  BY <1>1, Constants DEF MutexInv
<1>4. ASSUME NEW q \in Publishers \ {p}
      PROVE  RequestOK(q)' /\ CopyOK(q)'
  <2>1. RequestOK(q) /\ task'[q] = task[q] /\ task[q].pc \notin Working
    BY <1>1 DEF RegistryInv, RequestInv
  <2>2. RequestOK(q)'
    BY <2>1 DEF RequestOK, Working, Activating
  <2>3. CopyOK(q)'
    BY <2>1 DEF CopyOK, Working, Activating, Switching
  <2> QED BY <2>2, <2>3
<1>5. RequestInv' /\ CopyInv'
  BY <1>4 DEF RequestInv, CopyInv
<1> QED BY <1>2, <1>3, <1>5

------------------------------------------------------------------------------
(* Each action preserves the invariant: requests and what keeps all runtimes. *)

\* A request waits for publishMu.
LEMMA AskInv ==
    ASSUME RegistryInv, NEW p \in Publishers, NEW t \in Task, Ask(p, t),
           t.pc \in {"snapshot", "verify", "delta"},
           t.pc \in {"snapshot", "verify"} => t.version \in Versions,
           t.pc = "snapshot" => [version |-> t.version, sum |-> t.sum] \in SnapshotBundles,
           t.pc = "delta" => Delta(t) \in DeltaBundles
    PROVE  RegistryInv'
<1>1. TypeOK /\ DownInv /\ StoreInv
  BY DEF RegistryInv
<1>2. /\ task' \in [Publishers -> Task] /\ task'[p] = t
      /\ \A q \in Publishers \ {p} : task'[q] = task[q]
  BY <1>1, Moves DEF Ask
<1>3. phase = "running" /\ task[p].pc = "idle"
  BY DEF Ask
<1>4. /\ UNCHANGED <<phase, pointer, snapshots, deltas, runtimes, store, opened>>
      /\ UNCHANGED <<publishMu, reading, acked>>
  BY DEF Ask, diskVars
<1>5. TypeOK'
  BY <1>1, <1>2, <1>4 DEF TypeOK
<1>6. MutexInv'
  BY <1>2, <1>3, <1>4 DEF RegistryInv, MutexInv, Working, Activating
<1>7. RequestInv' /\ CopyInv'
  <2>1. RequestOK(p)' /\ CopyOK(p)'
    BY <1>2 DEF RequestOK, CopyOK, Working, Activating, Switching
  <2>2. ASSUME NEW q \in Publishers \ {p}
        PROVE  RequestOK(q)' /\ CopyOK(q)'
    <3>1. RequestOK(q) /\ CopyOK(q) /\ task'[q] = task[q]
      BY <1>2 DEF RegistryInv, RequestInv, CopyInv
    <3>2. RequestOK(q)'
      BY <1>4, <3>1 DEF RequestOK, Installed
    <3>3. CopyOK(q)'
      BY <1>4, <3>1 DEF CopyOK
    <3> QED BY <3>2, <3>3
  <2> QED BY <2>1, <2>2 DEF RequestInv, CopyInv
<1>8. StoreInv'
  BY <1>1, <1>2, <1>3, <1>4 DEF StoreInv, Pointed, Switching
<1>9. /\ RestartRecovers' /\ DownInv' /\ PointerInv' /\ DataInv' /\ DeltaInv' /\ ReadInv'
  BY <1>3, <1>4
     DEF RegistryInv, RestartRecovers, DownInv, PointerInv, DataInv, DeltaInv, ReadInv, Installed
<1> QED BY <1>5, <1>6, <1>7, <1>8, <1>9 DEF RegistryInv

LEMMA InstallSnapshotInv ==
    ASSUME RegistryInv, NEW p \in Publishers, InstallSnapshot(p)
    PROVE  RegistryInv'
<1>1. PICK b \in SnapshotBundles, activate \in BOOLEAN :
        Ask(p, [Idle EXCEPT !.pc = "snapshot", !.version = b.version, !.sum = b.sum,
                            !.activate = activate])
  BY DEF InstallSnapshot
<1> DEFINE t == [Idle EXCEPT !.pc = "snapshot", !.version = b.version, !.sum = b.sum,
                             !.activate = activate]
<1>2. /\ b.version \in Versions /\ b.sum \in Sums
      /\ b = [version |-> b.version, sum |-> b.sum]
  BY Constants, RegistryAssumption
<1>3. /\ t \in Task /\ t.pc = "snapshot" /\ t.version = b.version /\ t.sum = b.sum
  BY <1>2, IdleIsATask DEF Idle, Task
<1>4. Ask(p, t)
  BY <1>1
<1> HIDE DEF t
<1> QED BY <1>2, <1>3, <1>4, AskInv

LEMMA ActivateSnapshotInv ==
    ASSUME RegistryInv, NEW p \in Publishers, ActivateSnapshot(p)
    PROVE  RegistryInv'
<1>1. PICK v \in Versions : Ask(p, [Idle EXCEPT !.pc = "verify", !.version = v])
  BY DEF ActivateSnapshot
<1> DEFINE t == [Idle EXCEPT !.pc = "verify", !.version = v]
<1>2. t \in Task /\ t.pc = "verify" /\ t.version = v
  BY IdleIsATask DEF Idle, Task
<1>3. Ask(p, t)
  BY <1>1
<1> HIDE DEF t
<1> QED BY <1>2, <1>3, AskInv

LEMMA InstallDeltaInv ==
    ASSUME RegistryInv, NEW p \in Publishers, InstallDelta(p)
    PROVE  RegistryInv'
<1>1. PICK b \in DeltaBundles :
        Ask(p, [Idle EXCEPT !.pc = "delta", !.day = b.day, !.sum = b.sum])
  BY DEF InstallDelta
<1> DEFINE t == [Idle EXCEPT !.pc = "delta", !.day = b.day, !.sum = b.sum]
<1>2. b.day \in Days /\ b.sum \in Sums /\ b = Delta(b)
  BY Constants
<1>3. t \in Task /\ t.pc = "delta" /\ Delta(t) = b
  BY <1>2, IdleIsATask DEF Idle, Task, Delta
<1>4. Ask(p, t)
  BY <1>1
<1> HIDE DEF t
<1> QED BY <1>3, <1>4, AskInv

LEMMA KeepSnapshotInv ==
    ASSUME RegistryInv, NEW p \in Publishers, KeepSnapshot(p)
    PROVE  RegistryInv'
<1> DEFINE b == [version |-> task[p].version, sum |-> task[p].sum]
<1>1. TypeOK /\ task[p].pc = "snapshot" /\ publishMu = None /\ RequestOK(p)
  BY DEF RegistryInv, RequestInv, KeepSnapshot
<1>2. UNCHANGED <<phase, pointer, deltas, runtimes, store, opened, reading, acked>>
  BY DEF KeepSnapshot
<1>3. task[p].version \in Versions /\ b \in SnapshotBundles
  BY <1>1 DEF RequestOK
<1>4. snapshots' \in {snapshots, snapshots \cup {b}}
  BY DEF KeepSnapshot
<1>5. \/ Finish(p)
      \/ b \in snapshots' /\ GoOn(p, "prepare")
  BY DEF KeepSnapshot
<1>6. /\ task' \in [Publishers -> Task]
      /\ \A q \in Publishers \ {p} : task'[q] = task[q]
      /\ \/ publishMu' = None /\ task'[p].pc = "idle"
         \/ /\ publishMu' = p /\ task'[p].pc = "prepare"
            /\ task'[p].version = task[p].version
            /\ \E c \in snapshots' : c.version = task[p].version
  <2>1. CASE Finish(p)
    BY <1>1, <2>1, Finishes
  <2>2. CASE b \in snapshots' /\ GoOn(p, "prepare")
    <3>1. \E c \in snapshots' : c.version = task[p].version
      BY <2>2
    <3> QED BY <1>1, <2>2, <3>1, Goes DEF GoOn, Working, Activating
  <2> QED BY <1>5, <2>1, <2>2
<1>7. TypeOK'
  BY <1>1, <1>2, <1>3, <1>4, <1>6 DEF TypeOK
<1>8. RequestOK(p)' /\ CopyOK(p)'
  BY <1>3, <1>6 DEF RequestOK, CopyOK, Working, Activating, Switching, Installed
<1>9. RestartRecovers' /\ MutexInv' /\ DownInv' /\ RequestInv' /\ CopyInv'
  BY <1>1, <1>2, <1>6, <1>8, Constants, PublisherStep DEF Working, Activating
<1>10. StoreInv'
  BY <1>1, <1>2, <1>6 DEF RegistryInv, StoreInv, Pointed, Switching
<1>11. PointerInv' /\ DataInv' /\ DeltaInv' /\ ReadInv'
  BY <1>2, <1>4 DEF RegistryInv, PointerInv, DataInv, DeltaInv, ReadInv, Installed
<1> QED BY <1>7, <1>9, <1>10, <1>11 DEF RegistryInv

LEMMA VerifyInstalledInv ==
    ASSUME RegistryInv, NEW p \in Publishers, VerifyInstalled(p)
    PROVE  RegistryInv'
<1>1. TypeOK /\ task[p].pc = "verify" /\ publishMu = None /\ RequestOK(p)
  BY DEF RegistryInv, RequestInv, VerifyInstalled
<1>2. /\ UNCHANGED <<phase, pointer, snapshots, deltas, runtimes, store, opened>>
      /\ UNCHANGED <<reading, acked>>
  BY DEF VerifyInstalled, diskVars
<1>3. /\ task' \in [Publishers -> Task]
      /\ \A q \in Publishers \ {p} : task'[q] = task[q]
      /\ \/ publishMu' = None /\ task'[p].pc = "idle"
         \/ /\ publishMu' = p /\ task'[p].pc = "prepare"
            /\ task'[p].version = task[p].version /\ Installed(task[p].version)
  <2>1. CASE Finish(p)
    BY <1>1, <2>1, Finishes
  <2>2. CASE Installed(task[p].version) /\ GoOn(p, "prepare")
    BY <1>1, <2>2, Goes DEF GoOn, Working, Activating
  <2> QED BY <2>1, <2>2 DEF VerifyInstalled
<1>4. TypeOK'
  BY <1>1, <1>2, <1>3 DEF TypeOK
<1>5. RequestOK(p)' /\ CopyOK(p)'
  BY <1>1, <1>2, <1>3 DEF RequestOK, CopyOK, Working, Activating, Switching, Installed
<1>6. RestartRecovers' /\ MutexInv' /\ DownInv' /\ RequestInv' /\ CopyInv'
  BY <1>1, <1>2, <1>3, <1>5, Constants, PublisherStep DEF Working, Activating
<1>7. StoreInv'
  BY <1>1, <1>2, <1>3 DEF RegistryInv, StoreInv, Pointed, Switching
<1>8. PointerInv' /\ DataInv' /\ DeltaInv' /\ ReadInv'
  BY <1>2 DEF RegistryInv, PointerInv, DataInv, DeltaInv, ReadInv, Installed
<1> QED BY <1>4, <1>6, <1>7, <1>8 DEF RegistryInv

\* The new delta is the only one of its day.
LEMMA KeepDeltaInv ==
    ASSUME RegistryInv, NEW p \in Publishers, KeepDelta(p)
    PROVE  RegistryInv'
<1> DEFINE d == Delta(task[p])
<1>1. TypeOK /\ task[p].pc = "delta" /\ publishMu = None /\ RequestOK(p)
  BY DEF RegistryInv, RequestInv, KeepDelta
<1>2. /\ UNCHANGED <<phase, pointer, snapshots, runtimes, store, opened, reading, acked>>
  BY DEF KeepDelta
<1>3. d \in DeltaBundles
  BY <1>1 DEF RequestOK
<1>4. \/ deltas' = deltas /\ Finish(p)
      \/ /\ deltas' = deltas \cup {d} /\ GoOn(p, "merge")
         /\ \A e \in deltas : e.day = task[p].day => e.sum = task[p].sum
  BY DEF KeepDelta, Delta
<1>5. /\ task' \in [Publishers -> Task]
      /\ \A q \in Publishers \ {p} : task'[q] = task[q]
      /\ \/ publishMu' = None /\ task'[p].pc = "idle"
         \/ publishMu' = p /\ task'[p].pc = "merge" /\ Delta(task'[p]) = d /\ d \in deltas'
  BY <1>1, <1>4, Goes, Finishes DEF GoOn, Working, Delta
<1>6. TypeOK'
  BY <1>1, <1>2, <1>3, <1>4, <1>5 DEF TypeOK
<1>7. RequestOK(p)' /\ CopyOK(p)'
  BY <1>3, <1>5 DEF RequestOK, CopyOK, Working, Activating, Switching
<1>8. RestartRecovers' /\ MutexInv' /\ DownInv' /\ RequestInv' /\ CopyInv'
  BY <1>1, <1>2, <1>5, <1>7, Constants, PublisherStep DEF Working, Activating
<1>9. deltas \subseteq deltas'
  BY <1>4
<1>10. StoreInv'
  BY <1>1, <1>2, <1>5, <1>9 DEF RegistryInv, StoreInv, Pointed, Switching
<1>11. PointerInv' /\ DataInv' /\ ReadInv'
  BY <1>2, <1>9 DEF RegistryInv, PointerInv, DataInv, ReadInv, Installed
<1>12. DeltaInv'
  BY <1>4 DEF RegistryInv, DeltaInv, Delta
<1> QED BY <1>6, <1>8, <1>10, <1>11, <1>12 DEF RegistryInv

\* The write lock changes who may query, nothing that is served.
LEMMA LockInv ==
    ASSUME RegistryInv, NEW p \in Publishers, Lock(p)
    PROVE  RegistryInv'
<1>1. TypeOK /\ MutexInv /\ RequestOK(p) /\ CopyOK(p)
  BY DEF RegistryInv, RequestInv, CopyInv
<1>2. /\ UNCHANGED <<phase, pointer, snapshots, deltas, runtimes, store, opened>>
      /\ UNCHANGED <<publishMu, reading, acked>>
  BY DEF Lock, diskVars
<1>3. /\ task' \in [Publishers -> Task]
      /\ \A q \in Publishers \ {p} : task'[q] = task[q]
      /\ task'[p].version = task[p].version /\ task'[p].day = task[p].day
      /\ task'[p].sum = task[p].sum /\ task'[p].file = task[p].file
      /\ \/ task[p].pc = "switch" /\ task'[p].pc = "exchange"
         \/ task[p].pc = "merge" /\ task'[p].pc = "apply"
  BY <1>1, Goes DEF Lock, Working, Activating
<1>4. publishMu = p /\ task[p].pc # "idle"
  BY <1>1, <1>3, AtWork DEF Working, Activating
<1>5. TypeOK'
  BY <1>1, <1>2, <1>3 DEF TypeOK
<1>6. RequestOK(p)'
  BY <1>1, <1>2, <1>3 DEF RequestOK, Working, Activating, Installed, Delta
<1>7. CopyOK(p)'
  BY <1>1, <1>2, <1>3 DEF CopyOK, Switching
<1>8. RestartRecovers' /\ MutexInv' /\ DownInv' /\ RequestInv' /\ CopyInv'
  BY <1>2, <1>3, <1>4, <1>6, <1>7, PublisherStep DEF Working, Activating
<1>9. StoreInv'
  BY <1>1, <1>2, <1>3 DEF RegistryInv, StoreInv, Pointed, Switching
<1>10. PointerInv' /\ DataInv' /\ DeltaInv' /\ ReadInv'
  BY <1>2 DEF RegistryInv, PointerInv, DataInv, DeltaInv, ReadInv, Installed
<1> QED BY <1>5, <1>8, <1>9, <1>10 DEF RegistryInv

\* Nobody is inside a query, and the pointer leads to the new store already.
LEMMA SwitchStoreInv ==
    ASSUME RegistryInv, NEW p \in Publishers, SwitchStore(p)
    PROVE  RegistryInv'
<1> DEFINE t == [task[p] EXCEPT !.pc = "close", !.file = store]
<1>1. TypeOK /\ MutexInv /\ PointerInv /\ RequestOK(p) /\ CopyOK(p) /\ task[p] \in Task
  BY DEF RegistryInv, RequestInv, CopyInv, TypeOK
<1>2. task[p].pc = "exchange" /\ ~QueryUnderWay /\ store' = task[p].file
  BY DEF SwitchStore
<1>3. UNCHANGED <<phase, pointer, snapshots, deltas, runtimes, opened, publishMu, reading, acked>>
  BY DEF SwitchStore, diskVars
<1>4. t \in Task /\ t.pc = "close" /\ t.file = store /\ t.version = task[p].version
  BY <1>1 DEF Task, TypeOK
<1>5. task' = [task EXCEPT ![p] = t]
  BY DEF SwitchStore
<1>6. /\ task' \in [Publishers -> Task]
      /\ task'[p].pc = "close" /\ task'[p].file = store /\ task'[p].version = task[p].version
      /\ \A q \in Publishers \ {p} : task'[q] = task[q]
  <2> HIDE DEF t
  <2> QED BY <1>1, <1>4, <1>5, Moves
<1>7. publishMu = p /\ task[p].pc # "idle"
  BY <1>1, <1>2, AtWork DEF Working, Activating
<1>8. /\ store' \in opened /\ store' \in DOMAIN runtimes /\ store' # store
      /\ IsCopy(runtimes[store'].view, task[p].version)
      /\ runtimes[store'].view.events # NoRow
      /\ pointer = {[version |-> task[p].version, file |-> store']}
  BY <1>1, <1>2 DEF CopyOK, Switching
<1>9. TypeOK'
  BY <1>1, <1>3, <1>6, <1>8 DEF TypeOK
<1>10. RequestOK(p)' /\ CopyOK(p)'
  BY <1>1, <1>2, <1>3, <1>6, <1>8 DEF RequestOK, CopyOK, Working, Activating, Switching, Installed
<1>11. RestartRecovers' /\ MutexInv' /\ DownInv' /\ RequestInv' /\ CopyInv'
  BY <1>3, <1>6, <1>7, <1>10, PublisherStep DEF Working, Activating
<1>12. PointerInv' /\ DataInv' /\ DeltaInv'
  BY <1>3 DEF RegistryInv, PointerInv, DataInv, DeltaInv, Installed
<1>13. store' = Pointed'
  BY <1>3, <1>8, <1>12, PointedIs
<1>14. StoreInv'
  BY <1>3, <1>8, <1>13 DEF StoreInv, IsCopy
<1>15. ReadInv'
  BY <1>2, <1>3 DEF ReadInv, QueryUnderWay
<1> QED BY <1>9, <1>11, <1>12, <1>14, <1>15 DEF RegistryInv

\* What is closed is not what is served.
LEMMA CloseOldStoreInv ==
    ASSUME RegistryInv, NEW p \in Publishers, CloseOldStore(p)
    PROVE  RegistryInv'
<1> DEFINE t == [task[p] EXCEPT !.pc = "runtimes", !.file = None]
<1>1. TypeOK /\ MutexInv /\ RequestOK(p) /\ CopyOK(p) /\ task[p] \in Task
  BY DEF RegistryInv, RequestInv, CopyInv, TypeOK
<1>2. task[p].pc = "close" /\ opened' = opened \ {task[p].file}
  BY DEF CloseOldStore
<1>3. /\ UNCHANGED <<phase, pointer, snapshots, deltas, runtimes, store, publishMu>>
      /\ UNCHANGED <<reading, acked>>
  BY DEF CloseOldStore, diskVars
<1>4. t \in Task /\ t.pc = "runtimes" /\ t.version = task[p].version
  BY <1>1 DEF Task
<1>5. task' = [task EXCEPT ![p] = t]
  BY DEF CloseOldStore
<1>6. /\ task' \in [Publishers -> Task]
      /\ task'[p].pc = "runtimes" /\ task'[p].version = task[p].version
      /\ \A q \in Publishers \ {p} : task'[q] = task[q]
  <2> HIDE DEF t
  <2> QED BY <1>1, <1>4, <1>5, Moves
<1>7. publishMu = p /\ task[p].pc # "idle"
  BY <1>1, <1>2, AtWork DEF Working, Activating
<1>8. TypeOK'
  BY <1>1, <1>2, <1>3, <1>6 DEF TypeOK
<1>9. RequestOK(p)' /\ CopyOK(p)'
  BY <1>1, <1>2, <1>3, <1>6 DEF RequestOK, CopyOK, Working, Activating, Switching, Installed
<1>10. RestartRecovers' /\ MutexInv' /\ DownInv' /\ RequestInv' /\ CopyInv'
  BY <1>3, <1>6, <1>7, <1>9, PublisherStep DEF Working, Activating
<1>11. StoreInv'
  BY <1>1, <1>2, <1>3, <1>6 DEF RegistryInv, StoreInv, Pointed, Switching, CopyOK
<1>12. PointerInv' /\ DataInv' /\ DeltaInv' /\ ReadInv'
  BY <1>3 DEF RegistryInv, PointerInv, DataInv, DeltaInv, ReadInv, Installed
<1> QED BY <1>8, <1>10, <1>11, <1>12 DEF RegistryInv

\* The active version is kept, and so are the deltas that were merged into it.
LEMMA CleanupArtifactsInv ==
    ASSUME RegistryInv, NEW p \in Publishers, CleanupArtifacts(p)
    PROVE  RegistryInv'
<1> DEFINE v == task[p].version
<1>1. TypeOK /\ MutexInv /\ PointerInv /\ StoreInv /\ DataInv /\ RequestOK(p) /\ CopyOK(p)
  BY DEF RegistryInv, RequestInv, CopyInv
<1>2. /\ task[p].pc = "artifacts"
      /\ snapshots' = {s \in snapshots : s.version \in Kept(v, task[p].previous)}
      /\ deltas' = {d \in deltas : d.day > SourceWatermark[v]}
      /\ Finish(p)
  BY DEF CleanupArtifacts
<1>3. UNCHANGED <<phase, pointer, runtimes, store, opened, reading, acked>>
  BY DEF CleanupArtifacts
<1>4. v \in Versions /\ v \in Kept(v, task[p].previous) /\ \A a \in pointer : a.version = v
  BY <1>1, <1>2, Constants DEF RequestOK, CopyOK, Activating, Kept
<1>5. publishMu = p /\ task[p].pc # "idle" /\ phase = "running"
  BY <1>1, <1>2, AtWork, Alone DEF RegistryInv, Working, Activating
<1>6. /\ publishMu' = None /\ task' \in [Publishers -> Task] /\ task'[p].pc = "idle"
      /\ \A q \in Publishers \ {p} : task'[q] = task[q]
  BY <1>1, <1>2, Finishes
<1>7. TypeOK'
  BY <1>1, <1>2, <1>3, <1>6 DEF TypeOK
<1>8. RequestOK(p)' /\ CopyOK(p)'
  BY <1>6 DEF RequestOK, CopyOK, Working, Activating, Switching
<1>9. RestartRecovers' /\ MutexInv' /\ DownInv' /\ RequestInv' /\ CopyInv'
  BY <1>3, <1>5, <1>6, <1>8, Constants, PublisherStep DEF Working, Activating
<1>10. ASSUME NEW a \in pointer
       PROVE  /\ \E s \in snapshots' : s.version = a.version
              /\ runtimes[a.file].file.applied \cup runtimes[a.file].view.applied \subseteq deltas'
  <2>1. a.version = v /\ Installed(v) /\ a.file \in DOMAIN runtimes
    BY <1>1, <1>4 DEF PointerInv
  <2>2. /\ runtimes[a.file].view.version = v /\ runtimes[a.file].file.version = v
        /\ Sound(runtimes[a.file].view) /\ Sound(runtimes[a.file].file)
        /\ runtimes[a.file].file.applied \cup runtimes[a.file].view.applied \subseteq deltas
    BY <1>1, <2>1 DEF PointerInv, DataInv
  <2>3. \A d \in runtimes[a.file].file.applied \cup runtimes[a.file].view.applied :
            d \in deltas /\ SourceWatermark[v] < d.day
    BY <2>2 DEF Sound
  <2>4. \A d \in deltas : d.day \in Nat
    BY <1>1, Constants DEF TypeOK, Days
  <2>5. SourceWatermark[v] \in Nat
    BY <1>4, Constants DEF Days
  <2>6. runtimes[a.file].file.applied \cup runtimes[a.file].view.applied \subseteq deltas'
    BY <1>2, <2>3, <2>4, <2>5
  <2> QED BY <1>2, <1>4, <2>1, <2>6 DEF Installed
<1>11. PointerInv'
  BY <1>1, <1>3, <1>10 DEF PointerInv, Installed
<1>12. store = Pointed
  BY <1>1, <1>2, <1>5, Alone DEF RegistryInv, StoreInv, Working, Activating, Switching
<1>13. store # None => \E a \in pointer : store = a.file
  BY <1>12, PointedIs, <1>1 DEF Pointed
<1>14. StoreInv'
  BY <1>1, <1>3, <1>10, <1>12, <1>13 DEF StoreInv, Pointed
<1>15. DataInv' /\ DeltaInv' /\ ReadInv'
  BY <1>2, <1>3 DEF RegistryInv, DataInv, DeltaInv, ReadInv
<1> QED BY <1>7, <1>9, <1>11, <1>14, <1>15 DEF RegistryInv

------------------------------------------------------------------------------
(* Each action preserves the invariant: what changes runtime files.          *)

LEMMA PrepareRuntimeInv ==
    ASSUME RegistryInv, NEW p \in Publishers, PrepareRuntime(p)
    PROVE  RegistryInv'
<1> DEFINE v == task[p].version
<1>1. TypeOK /\ MutexInv /\ RequestOK(p) /\ task[p] \in Task
  BY DEF RegistryInv, RequestInv, TypeOK
<1>2. task[p].pc = "prepare" /\ v \in Versions /\ Installed(v)
  BY <1>1 DEF PrepareRuntime, RequestOK, Activating
<1>3. UNCHANGED <<phase, pointer, snapshots, deltas, store, reading, acked>>
  BY DEF PrepareRuntime, diskVars
<1>4. publishMu = p /\ task[p].pc # "idle" /\ phase = "running"
  BY <1>1, <1>2, AtWork, Alone DEF RegistryInv, Working, Activating
<1>5. CASE Finish(p) /\ UNCHANGED <<runtimes, opened>>
  <2>1. /\ publishMu' = None /\ task' \in [Publishers -> Task] /\ task'[p].pc = "idle"
        /\ \A q \in Publishers \ {p} : task'[q] = task[q]
    BY <1>1, <1>5, Finishes
  <2>2. TypeOK'
    BY <1>1, <1>3, <1>5, <2>1 DEF TypeOK
  <2>3. RequestOK(p)' /\ CopyOK(p)'
    BY <2>1 DEF RequestOK, CopyOK, Working, Activating, Switching
  <2>4. RestartRecovers' /\ MutexInv' /\ DownInv' /\ RequestInv' /\ CopyInv'
    BY <1>3, <1>4, <2>1, <2>3, Constants, PublisherStep DEF Working, Activating
  <2>5. StoreInv'
    BY <1>2, <1>3, <1>5, <2>1 DEF RegistryInv, StoreInv, Pointed, Switching
  <2>6. PointerInv' /\ DataInv' /\ DeltaInv' /\ ReadInv'
    BY <1>3, <1>5 DEF RegistryInv, PointerInv, DataInv, DeltaInv, ReadInv, Installed
  <2> QED BY <2>2, <2>4, <2>5, <2>6 DEF RegistryInv
<1>6. ASSUME NEW f \in Files \ DOMAIN runtimes,
             runtimes' = Keep(f, [file |-> Snapshot(v), view |-> EnsureStatistics(Snapshot(v)),
                                  wal |-> TRUE]),
             opened' = opened \cup {f},
             task' = [task EXCEPT ![p].pc = "pointer", ![p].file = f],
             publishMu' = publishMu
      PROVE  RegistryInv'
  <2> DEFINE t == [task[p] EXCEPT !.pc = "pointer", !.file = f]
             r == [file |-> Snapshot(v), view |-> EnsureStatistics(Snapshot(v)), wal |-> TRUE]
  <2>1. /\ Snapshot(v) \in Database /\ Sound(Snapshot(v)) /\ IsCopy(Snapshot(v), v)
    BY <1>2, SnapshotIsSound
  <2>2. /\ r \in Runtime /\ Sound(r.file) /\ Sound(r.view) /\ r.view.events # NoRow
        /\ IsCopy(r.file, v) /\ IsCopy(r.view, v)
        /\ r.file.version = r.view.version /\ r.file.watermark <= r.view.watermark
    <3>1. r.file = Snapshot(v) /\ r.view = EnsureStatistics(Snapshot(v))
      OBVIOUS
    <3>2. /\ r.view \in Database /\ Sound(r.view) /\ r.view.events # NoRow /\ IsCopy(r.view, v)
      BY <2>1, <3>1, Ensured DEF IsCopy
    <3>3. SourceWatermark[v] \in Nat
      BY <1>2, Constants DEF Days
    <3> QED BY <2>1, <3>1, <3>2, <3>3 DEF Runtime, IsCopy
  <2> HIDE DEF r
  <2>3. /\ DOMAIN runtimes' = DOMAIN runtimes \cup {f} /\ runtimes'[f] = r
        /\ \A g \in DOMAIN runtimes : runtimes'[g] = runtimes[g]
    BY <1>6 DEF Keep, r
  <2>4. t \in Task /\ t.pc = "pointer" /\ t.file = f /\ t.version = v
    BY <1>1 DEF Task
  <2>5. task' = [task EXCEPT ![p] = t]
    BY <1>6
  <2>6. /\ task' \in [Publishers -> Task]
        /\ task'[p].pc = "pointer" /\ task'[p].file = f /\ task'[p].version = v
        /\ \A q \in Publishers \ {p} : task'[q] = task[q]
    <3> HIDE DEF t
    <3> QED BY <1>1, <2>4, <2>5, Moves
  <2>7. TypeOK'
    BY <1>1, <1>3, <1>6, <2>2, <2>3, <2>6 DEF TypeOK
  <2>8. f # store /\ \A a \in pointer : a.file # f
    BY <1>4, Constants DEF RegistryInv, StoreInv, PointerInv
  <2>9. RequestOK(p)'
    BY <1>2, <1>3, <2>6 DEF RequestOK, Activating, Installed
  <2>10. CopyOK(p)'
    BY <1>3, <1>6, <2>2, <2>3, <2>6, <2>8 DEF CopyOK, Switching
  <2>11. RestartRecovers' /\ MutexInv' /\ DownInv' /\ RequestInv' /\ CopyInv'
    BY <1>3, <1>4, <1>6, <2>6, <2>9, <2>10, PublisherStep DEF Working, Activating
  <2>12. StoreInv'
    BY <1>2, <1>3, <1>6, <2>3, <2>6 DEF RegistryInv, StoreInv, Pointed, Switching
  <2>13. PointerInv'
    BY <1>3, <2>3 DEF RegistryInv, PointerInv, Installed
  <2>14. DataInv'
    BY <2>2, <2>3 DEF RegistryInv, DataInv
  <2>15. DeltaInv' /\ ReadInv'
    BY <1>3 DEF RegistryInv, DeltaInv, ReadInv
  <2> QED BY <2>7, <2>11, <2>12, <2>13, <2>14, <2>15 DEF RegistryInv
<1> QED BY <1>5, <1>6 DEF PrepareRuntime

LEMMA WritePointerInv ==
    ASSUME RegistryInv, NEW p \in Publishers, WritePointer(p)
    PROVE  RegistryInv'
<1> DEFINE v == task[p].version
           f == task[p].file
<1>1. /\ TypeOK /\ MutexInv /\ PointerInv /\ StoreInv /\ RequestOK(p) /\ CopyOK(p)
      /\ task[p] \in Task
  BY DEF RegistryInv, RequestInv, CopyInv, TypeOK
<1>2. task[p].pc = "pointer" /\ v \in Versions /\ Installed(v)
  BY <1>1 DEF WritePointer, RequestOK, Activating
<1>3. UNCHANGED <<phase, snapshots, deltas, store, reading>>
  BY DEF WritePointer
<1>4. publishMu = p /\ task[p].pc # "idle" /\ phase = "running"
  BY <1>1, <1>2, AtWork, Alone DEF RegistryInv, Working, Activating
<1>5. /\ f \in opened /\ f \in DOMAIN runtimes /\ f # store /\ f \in Files
      /\ IsCopy(runtimes[f].file, v) /\ IsCopy(runtimes[f].view, v)
      /\ runtimes[f].view.events # NoRow
      /\ \A a \in pointer : a.file # f
  BY <1>1, <1>2 DEF CopyOK, TypeOK
<1>6. ASSUME opened' = opened \ {f},
             runtimes' = [g \in DOMAIN runtimes \ {f} |-> runtimes[g]],
             Finish(p), UNCHANGED <<pointer, acked>>
      PROVE  RegistryInv'
  <2>1. /\ publishMu' = None /\ task' \in [Publishers -> Task] /\ task'[p].pc = "idle"
        /\ \A q \in Publishers \ {p} : task'[q] = task[q]
    BY <1>1, <1>6, Finishes
  <2>2. TypeOK'
    BY <1>1, <1>3, <1>6, <2>1 DEF TypeOK
  <2>3. RequestOK(p)' /\ CopyOK(p)'
    BY <2>1 DEF RequestOK, CopyOK, Working, Activating, Switching
  <2>4. RestartRecovers' /\ MutexInv' /\ DownInv' /\ RequestInv' /\ CopyInv'
    BY <1>3, <1>4, <2>1, <2>3, Constants, PublisherStep DEF Working, Activating
  <2>5. StoreInv'
    BY <1>2, <1>3, <1>5, <1>6, <2>1 DEF RegistryInv, StoreInv, Pointed, Switching
  <2>6. PointerInv'
    BY <1>1, <1>3, <1>5, <1>6 DEF PointerInv, Installed
  <2>7. DataInv' /\ DeltaInv' /\ ReadInv'
    BY <1>3, <1>6 DEF RegistryInv, DataInv, DeltaInv, ReadInv
  <2> QED BY <2>2, <2>4, <2>5, <2>6, <2>7 DEF RegistryInv
<1>7. ASSUME NEW previous \in Versions \cup {None},
             acked' = 0, pointer' = PointerTo(v, f),
             task' = [task EXCEPT ![p].pc = "switch", ![p].previous = previous],
             UNCHANGED <<runtimes, opened, publishMu>>
      PROVE  RegistryInv'
  <2> DEFINE t == [task[p] EXCEPT !.pc = "switch", !.previous = previous]
  <2>1. t \in Task /\ t.pc = "switch" /\ t.file = f /\ t.version = v
    BY <1>1 DEF Task
  <2>2. task' = [task EXCEPT ![p] = t]
    BY <1>7
  <2>3. /\ task' \in [Publishers -> Task]
        /\ task'[p].pc = "switch" /\ task'[p].file = f /\ task'[p].version = v
        /\ \A q \in Publishers \ {p} : task'[q] = task[q]
    <3> HIDE DEF t
    <3> QED BY <1>1, <2>1, <2>2, Moves
  <2>4. pointer' = {[version |-> v, file |-> f]}
    BY <1>7 DEF PointerTo
  <2>5. TypeOK'
    BY <1>1, <1>2, <1>3, <1>5, <1>7, <2>3, <2>4 DEF TypeOK
  <2>6. RequestOK(p)'
    BY <1>2, <1>3, <2>3 DEF RequestOK, Activating, Installed
  <2>7. CopyOK(p)'
    BY <1>3, <1>5, <1>7, <2>3, <2>4 DEF CopyOK, Switching
  <2>8. RestartRecovers' /\ MutexInv' /\ DownInv' /\ RequestInv' /\ CopyInv'
    BY <1>3, <1>4, <1>7, <2>3, <2>6, <2>7, PublisherStep DEF Working, Activating
  <2>9. StoreInv'
    BY <1>1, <1>3, <1>7, <2>3 DEF StoreInv, Switching
  <2>10. PointerInv'
    BY <1>2, <1>3, <1>5, <1>7, <2>4 DEF PointerInv, Installed, IsCopy
  <2>11. DataInv' /\ DeltaInv' /\ ReadInv'
    BY <1>3, <1>7 DEF RegistryInv, DataInv, DeltaInv, ReadInv
  <2> QED BY <2>5, <2>8, <2>9, <2>10, <2>11 DEF RegistryInv
<1>8. (IF pointer = {} THEN None ELSE (CHOOSE a \in pointer : TRUE).version)
        \in Versions \cup {None}
  <2>1. ASSUME pointer # {} PROVE (CHOOSE a \in pointer : TRUE) \in pointer
    BY <2>1
  <2> QED BY <1>1, <2>1 DEF TypeOK
<1> QED BY <1>6, <1>7, <1>8 DEF WritePointer

\* What is served is not removed.
LEMMA CleanupRuntimesInv ==
    ASSUME RegistryInv, NEW p \in Publishers, CleanupRuntimes(p)
    PROVE  RegistryInv'
<1>1. TypeOK /\ MutexInv /\ PointerInv /\ StoreInv /\ DataInv /\ RequestOK(p) /\ CopyOK(p)
  BY DEF RegistryInv, RequestInv, CopyInv
<1>2. task[p].pc = "runtimes" /\ runtimes' = Cleaned(store) /\ Goto(p, "artifacts")
  BY DEF CleanupRuntimes
<1>3. UNCHANGED <<phase, pointer, snapshots, deltas, store, opened, publishMu, reading, acked>>
  BY DEF CleanupRuntimes, diskVars
<1>4. publishMu = p /\ task[p].pc # "idle" /\ phase = "running"
  BY <1>1, <1>2, AtWork, Alone DEF RegistryInv, Working, Activating
<1>5. /\ task' \in [Publishers -> Task]
      /\ task'[p].pc = "artifacts" /\ task'[p].version = task[p].version
      /\ \A q \in Publishers \ {p} : task'[q] = task[q]
  BY <1>1, <1>2, Goes DEF Working, Activating
<1>6. store = Pointed
  BY <1>1, <1>2, <1>4, Alone DEF RegistryInv, StoreInv, Working, Activating, Switching
<1>7. /\ DOMAIN runtimes' = DOMAIN runtimes \cap {store}
      /\ \A f \in DOMAIN runtimes' : /\ runtimes'[f].file = runtimes[f].file
                                    /\ runtimes'[f].view = runtimes[f].view
                                    /\ runtimes'[f] \in Runtime
  BY <1>1, <1>2 DEF Cleaned, TypeOK, Runtime
<1>8. TypeOK'
  BY <1>1, <1>3, <1>5, <1>7 DEF TypeOK
<1>9. RequestOK(p)' /\ CopyOK(p)'
  BY <1>1, <1>2, <1>3, <1>5 DEF RequestOK, CopyOK, Working, Activating, Switching, Installed
<1>10. RestartRecovers' /\ MutexInv' /\ DownInv' /\ RequestInv' /\ CopyInv'
  BY <1>3, <1>4, <1>5, <1>9, PublisherStep DEF Working, Activating
<1>11. StoreInv'
  BY <1>1, <1>3, <1>6, <1>7 DEF StoreInv, Pointed
<1>12. PointerInv'
  <2>1. \A a \in pointer : a.file \in DOMAIN runtimes'
    BY <1>1, <1>6, <1>7, PointedIs DEF PointerInv
  <2> QED BY <1>1, <1>3, <1>7, <2>1 DEF PointerInv, Installed
<1>13. DataInv' /\ DeltaInv' /\ ReadInv'
  BY <1>3, <1>7 DEF RegistryInv, DataInv, DeltaInv, ReadInv
<1> QED BY <1>8, <1>10, <1>11, <1>12, <1>13 DEF RegistryInv

\* What ApplyDelta does to the runtime file that is served: nothing, or one day more.
LEMMA ApplyDeltaRuntimes ==
    ASSUME RegistryInv, NEW p \in Publishers, ApplyDelta(p)
    PROVE  /\ DOMAIN runtimes' = DOMAIN runtimes
           /\ \A f \in DOMAIN runtimes \ {store} : runtimes'[f] = runtimes[f]
           /\ store \in DOMAIN runtimes =>
                \/ runtimes'[store] = runtimes[store]
                \/ /\ runtimes'[store] = [runtimes[store] EXCEPT
                                            !.view = Merged(runtimes[store].view, Delta(task[p]))]
                   /\ Follows(runtimes[store].view, Delta(task[p]))
<1> DEFINE delta == [day |-> task[p].day, sum |-> task[p].sum]
<1>1. delta = Delta(task[p])
  BY DEF Delta
<1>2. \/ runtimes' = runtimes
      \/ /\ Follows(Content(store), delta)
         /\ runtimes' = [runtimes EXCEPT ![store].view = Merged(Content(store), delta)]
  BY DEF ApplyDelta
<1>3. store \in DOMAIN runtimes => Content(store) = runtimes[store].view
  BY DEF Content
<1> HIDE DEF delta
<1> QED BY <1>1, <1>2, <1>3

LEMMA ApplyDeltaInv ==
    ASSUME RegistryInv, NEW p \in Publishers, ApplyDelta(p)
    PROVE  RegistryInv'
<1> DEFINE d == Delta(task[p])
<1>1. /\ TypeOK /\ MutexInv /\ PointerInv /\ StoreInv /\ DataInv /\ RequestOK(p)
      /\ Finish(p) /\ task[p].pc = "apply"
  BY DEF RegistryInv, RequestInv, ApplyDelta
<1>2. UNCHANGED <<phase, pointer, snapshots, deltas, store, opened, reading>>
  BY DEF ApplyDelta, diskVars
<1>3. d \in DeltaBundles /\ d \in deltas /\ d.day \in Days /\ d.day = task[p].day
  BY <1>1, Constants DEF RequestOK, Delta
<1>4. publishMu = p /\ task[p].pc # "idle" /\ phase = "running"
  BY <1>1, AtWork, Alone DEF RegistryInv, Working, Activating
<1>5. /\ publishMu' = None /\ task' \in [Publishers -> Task] /\ task'[p].pc = "idle"
      /\ \A q \in Publishers \ {p} : task'[q] = task[q]
  BY <1>1, Finishes
<1>6. acked' \in Days \cup {0}
  BY <1>1, <1>3 DEF ApplyDelta, TypeOK
<1>7. ASSUME NEW f \in DOMAIN runtimes
      PROVE  /\ runtimes'[f] \in Runtime
             /\ Sound(runtimes'[f].file) /\ Sound(runtimes'[f].view)
             /\ runtimes'[f].file = runtimes[f].file
             /\ runtimes'[f].view.version = runtimes[f].view.version
             /\ runtimes'[f].file.version = runtimes'[f].view.version
             /\ runtimes'[f].file.watermark <= runtimes'[f].view.watermark
             /\ runtimes[f].view.events # NoRow => runtimes'[f].view.events # NoRow
             /\ runtimes[f].view.applied \subseteq deltas => runtimes'[f].view.applied \subseteq deltas
  <2>1. /\ runtimes[f] \in Runtime /\ Sound(runtimes[f].file) /\ Sound(runtimes[f].view)
        /\ runtimes[f].file.version = runtimes[f].view.version
        /\ runtimes[f].file.watermark <= runtimes[f].view.watermark
    BY <1>1 DEF TypeOK, DataInv
  <2>2. CASE runtimes'[f] = runtimes[f]
    BY <2>1, <2>2
  <2>3. CASE /\ f = store /\ Follows(runtimes[f].view, d)
             /\ runtimes'[f] = [runtimes[f] EXCEPT !.view = Merged(runtimes[f].view, d)]
    <3> DEFINE m == Merged(runtimes[f].view, d)
    <3>1. store # None /\ runtimes[f].view.events # NoRow
      BY <1>1, <1>4, <2>3, Constants DEF TypeOK, StoreInv
    <3>2. runtimes[f].view \in Database /\ runtimes[f].file \in Database
      BY <2>1 DEF Runtime
    <3>3. /\ m \in Database /\ Sound(m) /\ m.events # NoRow
          /\ m.version = runtimes[f].view.version
          /\ m.watermark = runtimes[f].view.watermark + 1
          /\ m.applied = runtimes[f].view.applied \cup {d}
      BY <1>3, <2>1, <2>3, <3>1, <3>2, MergedIsSound
    <3>4. runtimes[f].file.watermark <= m.watermark
      <4>1. runtimes[f].file.watermark \in Nat /\ runtimes[f].view.watermark \in Nat
        BY <3>2, Constants DEF Database, Days
      <4> HIDE DEF m
      <4> QED BY <2>1, <3>3, <4>1
    <3>5. runtimes'[f].file = runtimes[f].file /\ runtimes'[f].view = m /\ runtimes'[f] \in Runtime
      BY <2>1, <2>3, <3>3 DEF Runtime
    <3> HIDE DEF m, d
    <3> QED BY <1>3, <2>1, <3>3, <3>4, <3>5
  <2> QED BY <2>2, <2>3, ApplyDeltaRuntimes
<1>8. DOMAIN runtimes' = DOMAIN runtimes
  BY ApplyDeltaRuntimes
<1>9. TypeOK'
  BY <1>1, <1>2, <1>5, <1>6, <1>7, <1>8 DEF TypeOK
<1>10. RequestOK(p)' /\ CopyOK(p)'
  BY <1>5 DEF RequestOK, CopyOK, Working, Activating, Switching
<1>11. RestartRecovers' /\ MutexInv' /\ DownInv' /\ RequestInv' /\ CopyInv'
  BY <1>2, <1>4, <1>5, <1>10, Constants, PublisherStep DEF Working, Activating
<1>12. StoreInv'
  BY <1>1, <1>2, <1>5, <1>7, <1>8 DEF StoreInv, Pointed, Switching
<1>13. PointerInv'
  BY <1>1, <1>2, <1>7, <1>8 DEF PointerInv, Installed
<1>14. DataInv' /\ DeltaInv' /\ ReadInv'
  BY <1>2, <1>7, <1>8 DEF RegistryInv, DataInv, DeltaInv, ReadInv
<1> QED BY <1>9, <1>11, <1>12, <1>13, <1>14 DEF RegistryInv

LEMMA CheckpointInv ==
    ASSUME RegistryInv, NEW f \in Files, Checkpoint(f)
    PROVE  RegistryInv'
<1>1. TypeOK /\ PointerInv /\ StoreInv /\ DataInv /\ CopyInv
  BY DEF RegistryInv
<1>2. /\ UNCHANGED <<phase, pointer, snapshots, deltas, store, opened, publishMu, task>>
      /\ UNCHANGED <<reading, acked>>
  BY DEF Checkpoint, diskVars
<1>3. /\ f \in DOMAIN runtimes /\ DOMAIN runtimes' = DOMAIN runtimes
      /\ \A g \in DOMAIN runtimes \ {f} : runtimes'[g] = runtimes[g]
      /\ runtimes'[f] = [runtimes[f] EXCEPT !.file = runtimes[f].view]
  BY DEF Checkpoint
<1>4. runtimes[f] \in Runtime /\ runtimes[f].view \in Database
  BY <1>1, <1>3 DEF TypeOK, Runtime
<1>5. /\ runtimes'[f] \in Runtime
      /\ runtimes'[f].file = runtimes[f].view /\ runtimes'[f].view = runtimes[f].view
  BY <1>3, <1>4 DEF Runtime
<1>6. TypeOK'
  BY <1>1, <1>2, <1>3, <1>5 DEF TypeOK
<1>7. \A g \in DOMAIN runtimes : runtimes'[g].view = runtimes[g].view
  BY <1>3, <1>5
<1>8. StoreInv'
  BY <1>1, <1>2, <1>3, <1>7 DEF StoreInv, Pointed
<1>9. PointerInv'
  <2>1. /\ UNCHANGED <<pointer, snapshots, deltas>> /\ PointerInv
        /\ DOMAIN runtimes' = DOMAIN runtimes
    BY <1>1, <1>2, <1>3
  <2>2. ASSUME NEW a \in pointer
        PROVE  /\ Installed(a.version)' /\ a.file \in DOMAIN runtimes
               /\ runtimes'[a.file].view.version = a.version
               /\ runtimes'[a.file].file.applied \cup runtimes'[a.file].view.applied \subseteq deltas
    <3>1. /\ Installed(a.version) /\ a.file \in DOMAIN runtimes
          /\ runtimes[a.file].view.version = a.version
          /\ runtimes[a.file].file.applied \cup runtimes[a.file].view.applied \subseteq deltas
      BY <2>1 DEF PointerInv
    <3>2. Installed(a.version)'
      BY <2>1, <3>1 DEF Installed
    <3>3. CASE a.file = f
      BY <1>5, <3>1, <3>2, <3>3
    <3>4. CASE a.file # f
      <4>1. runtimes'[a.file] = runtimes[a.file]
        BY <1>3, <3>1, <3>4
      <4> QED BY <3>1, <3>2, <4>1
    <3> QED BY <3>3, <3>4
  <2>3. \A a, b \in pointer : a = b
    BY <2>1 DEF PointerInv
  <2> QED BY <2>1, <2>2, <2>3 DEF PointerInv
<1>10. DataInv'
  <2>1. runtimes[f].view.watermark <= runtimes[f].view.watermark
    BY <1>4, Constants DEF Database, Days
  <2> QED BY <1>1, <1>3, <1>5, <2>1 DEF DataInv
<1>11. CopyInv'
  <2> SUFFICES ASSUME NEW p \in Publishers PROVE CopyOK(p)'
    BY DEF CopyInv
  <2>1. CopyOK(p)
    BY <1>1 DEF CopyInv
  <2> QED BY <1>2, <1>3, <1>5, <1>7, <2>1 DEF CopyOK
<1>12. /\ RestartRecovers' /\ MutexInv' /\ DownInv' /\ RequestInv' /\ DeltaInv' /\ ReadInv'
  BY <1>2 DEF RegistryInv, RestartRecovers, MutexInv, DownInv, RequestInv, RequestOK, DeltaInv,
              ReadInv, Installed
<1> QED BY <1>6, <1>8, <1>9, <1>10, <1>11, <1>12 DEF RegistryInv

------------------------------------------------------------------------------
(* Each action preserves the invariant: queries, stops and starts.           *)

\* A step of a history request.
LEMMA ReaderInv ==
    ASSUME RegistryInv, NEW r \in Readers,
           StartSeries(r) \/ ReadSeries(r) \/ StartActive(r) \/ ReadActive(r) \/ Reply(r)
    PROVE  RegistryInv'
<1>1. TypeOK /\ DownInv /\ StoreInv /\ ReadInv
  BY DEF RegistryInv
<1>2. /\ UNCHANGED <<phase, pointer, snapshots, deltas, runtimes, store, opened, publishMu>>
      /\ UNCHANGED <<task, acked>>
  BY DEF StartSeries, ReadSeries, StartActive, ReadActive, Reply, Query, diskVars
<1>3. phase = "running"
  <2>1. CASE StartSeries(r) \/ StartActive(r)
    BY <2>1 DEF StartSeries, StartActive, Query
  <2>2. CASE reading[r].pc # "idle"
    BY <1>1, <2>2 DEF DownInv
  <2>3. ReadSeries(r) \/ ReadActive(r) \/ Reply(r) => reading[r].pc # "idle"
    BY DEF ReadSeries, ReadActive, Reply
  <2> QED BY <2>1, <2>2, <2>3
<1>4. reading[r] \in Reading
  BY <1>1 DEF TypeOK
<1> DEFINE Moved == \E x \in Reading :
                        /\ reading' = [reading EXCEPT ![r] = x]
                        /\ x.pc \in {"series", "active"} => x.store = store
<1>5. Moved
  <2>1. ASSUME NEW from, NEW to \in {"series", "active"}, Query(r, from, to)
        PROVE  Moved
    <3> DEFINE x == [reading[r] EXCEPT !.pc = to, !.store = store]
    <3>1. x \in Reading /\ x.store = store
      BY <1>1, <1>4 DEF Reading, TypeOK
    <3>2. reading' = [reading EXCEPT ![r] = x]
      BY <2>1 DEF Query
    <3> HIDE DEF x
    <3> QED BY <3>1, <3>2
  <2>2. ASSUME NEW to \in {"decoded", "reply"},
               reading' = [reading EXCEPT ![r].pc = to, ![r].store = None]
        PROVE  Moved
    <3> DEFINE x == [reading[r] EXCEPT !.pc = to, !.store = None]
    <3>1. x \in Reading /\ x.pc \notin {"series", "active"}
      BY <1>4 DEF Reading
    <3>2. reading' = [reading EXCEPT ![r] = x]
      BY <2>2
    <3> HIDE DEF x
    <3> QED BY <3>1, <3>2
  <2>3. ASSUME reading' = [reading EXCEPT ![r] = NotReading]
        PROVE  Moved
    <3>1. NotReading \in Reading /\ NotReading.pc \notin {"series", "active"}
      BY DEF NotReading, Reading
    <3> QED BY <2>3, <3>1
  <2> QED BY <2>1, <2>2, <2>3 DEF StartSeries, ReadSeries, StartActive, ReadActive, Reply
<1>6. TypeOK'
  BY <1>1, <1>2, <1>5 DEF TypeOK
<1>7. ReadInv'
  BY <1>1, <1>2, <1>5 DEF ReadInv, TypeOK
<1>8. RequestInv' /\ CopyInv'
  BY <1>2 DEF RegistryInv, RequestInv, CopyInv, RequestOK, CopyOK, Installed
<1>9. StoreInv'
  BY <1>1, <1>2 DEF StoreInv, Pointed
<1>10. /\ RestartRecovers' /\ MutexInv' /\ DownInv' /\ PointerInv' /\ DataInv' /\ DeltaInv'
  BY <1>2, <1>3
     DEF RegistryInv, RestartRecovers, MutexInv, DownInv, PointerInv, DataInv, DeltaInv, Installed
<1> QED BY <1>6, <1>7, <1>8, <1>9, <1>10 DEF RegistryInv

\* The process is gone, and each runtime file is what was in it, with its WAL or
\* without it.
LEMMA StopInv ==
    ASSUME RegistryInv, Stop, DOMAIN runtimes' = DOMAIN runtimes,
           \A f \in DOMAIN runtimes :
               /\ runtimes'[f] \in Runtime
               /\ runtimes'[f].file \in {runtimes[f].file, runtimes[f].view}
               /\ runtimes'[f].view = runtimes'[f].file
    PROVE  RegistryInv'
<1>1. TypeOK /\ PointerInv /\ DataInv /\ DeltaInv
  BY DEF RegistryInv
<1>2. /\ phase' = "down" /\ store' = None /\ opened' = {} /\ publishMu' = None
      /\ task' = [p \in Publishers |-> Idle] /\ reading' = [r \in Readers |-> NotReading]
      /\ UNCHANGED <<pointer, snapshots, deltas, acked>>
  BY DEF Stop, diskVars
<1>3. /\ task' \in [Publishers -> Task] /\ \A p \in Publishers : task'[p].pc = "idle"
      /\ reading' \in [Readers -> Reading] /\ \A r \in Readers : reading'[r].pc = "idle"
  BY <1>2, IdleIsATask DEF NotReading, Reading
<1>4. TypeOK'
  BY <1>1, <1>2, <1>3 DEF TypeOK
<1>5. /\ RestartRecovers' /\ MutexInv' /\ DownInv' /\ RequestInv' /\ CopyInv' /\ StoreInv'
      /\ ReadInv'
  BY <1>2, <1>3, Constants
     DEF RestartRecovers, MutexInv, DownInv, RequestInv, RequestOK, CopyInv, CopyOK, StoreInv,
         ReadInv, Working, Activating, Switching
<1>6. PointerInv'
  <2> SUFFICES ASSUME NEW a \in pointer
               PROVE  /\ a.file \in DOMAIN runtimes'
                      /\ runtimes'[a.file].view.version = a.version
                      /\ runtimes'[a.file].file.applied \cup runtimes'[a.file].view.applied
                            \subseteq deltas
    BY <1>1, <1>2 DEF PointerInv, Installed
  <2>1. /\ a.file \in DOMAIN runtimes /\ runtimes[a.file].view.version = a.version
        /\ runtimes[a.file].file.version = a.version
        /\ runtimes[a.file].file.applied \cup runtimes[a.file].view.applied \subseteq deltas
    BY <1>1 DEF PointerInv, DataInv
  <2> QED BY <2>1
<1>7. DataInv'
  <2> SUFFICES ASSUME NEW f \in DOMAIN runtimes
               PROVE  /\ Sound(runtimes'[f].file) /\ Sound(runtimes'[f].view)
                      /\ runtimes'[f].file.version = runtimes'[f].view.version
                      /\ runtimes'[f].file.watermark <= runtimes'[f].view.watermark
    BY DEF DataInv
  <2>1. Sound(runtimes[f].file) /\ Sound(runtimes[f].view)
    BY <1>1 DEF DataInv
  <2>2. runtimes'[f].file.watermark \in Nat
    BY Constants DEF Runtime, Database, Days
  <2> QED BY <2>1, <2>2
<1>8. DeltaInv'
  BY <1>1, <1>2 DEF DeltaInv
<1> QED BY <1>4, <1>5, <1>6, <1>7, <1>8 DEF RegistryInv

\* What the next Open finds in a runtime file.
LEMMA RecoveredIs ==
    ASSUME NEW r \in Runtime
    PROVE  /\ Recovered(r) \in Runtime
           /\ Recovered(r).view = Recovered(r).file
           /\ Recovered(r).file \in {r.file, r.view}
           /\ LET c == [r EXCEPT !.file = r.view]
              IN  c \in Runtime /\ c.file = r.view /\ c.view = r.view
BY DEF Recovered, Runtime

LEMMA CrashInv == ASSUME RegistryInv, Crash PROVE RegistryInv'
<1>1. \A f \in DOMAIN runtimes : runtimes[f] \in Runtime
  BY DEF RegistryInv, TypeOK
<1>2. /\ Stop /\ DOMAIN runtimes' = DOMAIN runtimes
      /\ \A f \in DOMAIN runtimes : runtimes'[f] = Recovered(runtimes[f])
  BY DEF Crash
<1>3. ASSUME NEW f \in DOMAIN runtimes
      PROVE  /\ runtimes'[f] \in Runtime
             /\ runtimes'[f].file \in {runtimes[f].file, runtimes[f].view}
             /\ runtimes'[f].view = runtimes'[f].file
  <2> DEFINE r == runtimes[f]
  <2>1. r \in Runtime /\ runtimes'[f] = Recovered(r)
    BY <1>1, <1>2
  <2> HIDE DEF r
  <2>2. /\ Recovered(r) \in Runtime /\ Recovered(r).view = Recovered(r).file
        /\ Recovered(r).file \in {r.file, r.view}
    BY <2>1, RecoveredIs
  <2> QED BY <2>1, <2>2 DEF r
<1> QED BY <1>2, <1>3, StopInv

LEMMA ShutdownInv == ASSUME RegistryInv, Shutdown PROVE RegistryInv'
<1>1. \A f \in DOMAIN runtimes : runtimes[f] \in Runtime
  BY DEF RegistryInv, TypeOK
<1>2. /\ Stop /\ DOMAIN runtimes' = DOMAIN runtimes
      /\ \A f \in DOMAIN runtimes : 
            runtimes'[f] = Recovered(IF f = store THEN [runtimes[f] EXCEPT !.file = runtimes[f].view]
                                     ELSE runtimes[f])
  BY DEF Shutdown
<1>3. ASSUME NEW f \in DOMAIN runtimes
      PROVE  /\ runtimes'[f] \in Runtime
             /\ runtimes'[f].file \in {runtimes[f].file, runtimes[f].view}
             /\ runtimes'[f].view = runtimes'[f].file
  <2> DEFINE c == [runtimes[f] EXCEPT !.file = runtimes[f].view]
  <2>1. c \in Runtime /\ c.file = runtimes[f].view /\ c.view = runtimes[f].view
    BY <1>1, RecoveredIs
  <2>2. runtimes'[f] = Recovered(c) \/ runtimes'[f] = Recovered(runtimes[f])
    BY <1>2
  <2> HIDE DEF c
  <2> QED BY <1>1, <2>1, <2>2, RecoveredIs
<1> QED BY <1>2, <1>3, StopInv

\* NewRegistry finds what active.json names, and so it does not fail.
LEMMA RestartInv == ASSUME RegistryInv, Restart PROVE RegistryInv'
<1>1. TypeOK /\ MutexInv /\ DownInv /\ RequestInv /\ CopyInv /\ PointerInv /\ DataInv
  BY DEF RegistryInv
<1>2. phase = "down" /\ UNCHANGED <<pointer, snapshots, deltas, publishMu, task, reading, acked>>
  BY DEF Restart, diskVars
<1>3. publishMu = None /\ \A p \in Publishers : task[p].pc = "idle"
      /\ \A r \in Readers : reading[r].pc = "idle"
  BY <1>1, <1>2 DEF DownInv
<1>4. \A a \in pointer : Installed(a.version) /\ Content(a.file).version = a.version
  BY <1>1 DEF PointerInv, Content
<1>5. /\ phase' = "running" /\ store' = Pointed /\ opened' = {store'}
      /\ runtimes' = IF pointer = {} THEN runtimes
                     ELSE [f \in {store'} |->
                             [runtimes[f] EXCEPT !.view = EnsureStatistics(@)]]
  BY <1>4 DEF Restart
<1>6. Pointed' = Pointed
  BY <1>2 DEF Pointed
<1>7. /\ RestartRecovers' /\ MutexInv' /\ DownInv' /\ RequestInv' /\ CopyInv'
      /\ DeltaInv' /\ ReadInv'
  BY <1>1, <1>2, <1>3, <1>5, Constants
     DEF RegistryInv, RestartRecovers, MutexInv, DownInv, RequestInv, RequestOK, CopyInv, CopyOK,
         DeltaInv, ReadInv, Working, Activating, Switching
<1>8. CASE pointer = {}
  <2>1. store' = None /\ UNCHANGED runtimes
    BY <1>5, <1>8 DEF Pointed
  <2>2. TypeOK'
    BY <1>1, <1>2, <1>5, <2>1 DEF TypeOK
  <2>3. StoreInv' /\ PointerInv' /\ DataInv'
    BY <1>1, <1>2, <1>5, <1>6, <1>8, <2>1 DEF StoreInv, PointerInv, DataInv
  <2> QED BY <1>7, <2>2, <2>3 DEF RegistryInv
<1>9. CASE pointer # {}
  <2>1. PICK a \in pointer : pointer = {a}
    BY <1>1, <1>9 DEF PointerInv
  <2>2. store' = a.file /\ a.file \in DOMAIN runtimes /\ a.file \in Files
    BY <1>1, <1>5, <2>1, PointedIs DEF PointerInv, TypeOK
  <2> DEFINE r == runtimes[a.file]
  <2>3. /\ r \in Runtime /\ r.view \in Database /\ r.file \in Database
        /\ Sound(r.file) /\ Sound(r.view)
        /\ r.file.version = r.view.version /\ r.file.watermark <= r.view.watermark
        /\ r.view.version = a.version /\ r.file.applied \cup r.view.applied \subseteq deltas
    BY <1>1, <2>1, <2>2 DEF TypeOK, DataInv, PointerInv, Runtime
  <2>4. /\ DOMAIN runtimes' = {a.file}
        /\ runtimes'[a.file] = [r EXCEPT !.view = EnsureStatistics(r.view)]
    BY <1>5, <1>9, <2>2
  <2> HIDE DEF r
  <2>5. /\ EnsureStatistics(r.view) \in Database
        /\ Sound(EnsureStatistics(r.view))
        /\ EnsureStatistics(r.view).events # NoRow
        /\ EnsureStatistics(r.view).version = r.view.version
        /\ EnsureStatistics(r.view).watermark = r.view.watermark
        /\ EnsureStatistics(r.view).applied = r.view.applied
    BY <2>3, Ensured
  <2>6. /\ runtimes'[a.file] \in Runtime /\ runtimes'[a.file].file = r.file
        /\ runtimes'[a.file].view = EnsureStatistics(r.view)
    BY <2>3, <2>4, <2>5 DEF Runtime
  <2>7. TypeOK'
    BY <1>1, <1>2, <1>5, <2>2, <2>4, <2>6 DEF TypeOK
  <2>8. StoreInv'
    BY <1>5, <1>6, <1>2, <2>2, <2>3, <2>4, <2>5, <2>6 DEF StoreInv
  <2>9. PointerInv'
    <3>1. Installed(a.version)
      BY <1>1, <2>1 DEF PointerInv
    <3>2. /\ runtimes'[a.file].view.version = a.version
          /\ runtimes'[a.file].file.applied \cup runtimes'[a.file].view.applied \subseteq deltas
      BY <2>3, <2>5, <2>6
    <3>3. a.file \in DOMAIN runtimes'
      BY <2>4
    <3> QED BY <1>2, <2>1, <3>1, <3>2, <3>3 DEF PointerInv, Installed
  <2>10. DataInv'
    BY <2>3, <2>4, <2>5, <2>6 DEF DataInv
  <2> QED BY <1>7, <2>7, <2>8, <2>9, <2>10 DEF RegistryInv
<1> QED BY <1>8, <1>9

------------------------------------------------------------------------------
(* Theorems.                                                                 *)

LEMMA InitInv == Init => RegistryInv
<1> SUFFICES ASSUME Init PROVE RegistryInv
  OBVIOUS
<1>1. /\ task \in [Publishers -> Task] /\ \A p \in Publishers : task[p].pc = "idle"
      /\ reading \in [Readers -> Reading] /\ \A r \in Readers : reading[r].pc = "idle"
  BY IdleIsATask DEF Init, NotReading, Reading
<1>2. TypeOK
  BY <1>1 DEF Init, TypeOK
<1>3. MutexInv /\ DownInv /\ RequestInv /\ CopyInv /\ ReadInv
  BY <1>1, Constants
     DEF Init, MutexInv, DownInv, RequestInv, RequestOK, CopyInv, CopyOK, ReadInv, Working,
         Activating, Switching
<1>4. RestartRecovers /\ PointerInv /\ StoreInv /\ DataInv /\ DeltaInv
  BY DEF Init, RestartRecovers, PointerInv, StoreInv, DataInv, DeltaInv, Pointed
<1> QED BY <1>2, <1>3, <1>4 DEF RegistryInv

\* A step in which nothing happens.
LEMMA StutterInv == ASSUME RegistryInv, UNCHANGED vars PROVE RegistryInv'
<1>1. /\ UNCHANGED <<phase, pointer, snapshots, deltas, runtimes, store, opened, publishMu>>
      /\ UNCHANGED <<task, reading, acked>>
  BY DEF vars, diskVars
<1>2. TypeOK' /\ RestartRecovers' /\ MutexInv' /\ DownInv' /\ DataInv' /\ DeltaInv' /\ ReadInv'
  BY <1>1
     DEF RegistryInv, TypeOK, RestartRecovers, MutexInv, DownInv, DataInv, DeltaInv, ReadInv
<1>3. RequestInv' /\ CopyInv' /\ PointerInv' /\ StoreInv'
  BY <1>1
     DEF RegistryInv, RequestInv, RequestOK, CopyInv, CopyOK, PointerInv, StoreInv, Installed, Pointed
<1> QED BY <1>2, <1>3 DEF RegistryInv

LEMMA Inductive == RegistryInv /\ [Next]_vars => RegistryInv'
<1> SUFFICES ASSUME RegistryInv, [Next]_vars PROVE RegistryInv'
  OBVIOUS
<1>1. ASSUME NEW p \in Publishers, InstallSnapshot(p) \/ ActivateSnapshot(p) \/ InstallDelta(p)
      PROVE  RegistryInv'
  BY <1>1, InstallSnapshotInv, ActivateSnapshotInv, InstallDeltaInv
<1>2. ASSUME NEW p \in Publishers, Publish(p) PROVE RegistryInv'
  BY <1>2, KeepSnapshotInv, VerifyInstalledInv, PrepareRuntimeInv, WritePointerInv, LockInv,
     SwitchStoreInv, CloseOldStoreInv, CleanupRuntimesInv, CleanupArtifactsInv, KeepDeltaInv,
     ApplyDeltaInv
     DEF Publish
<1>3. ASSUME NEW r \in Readers, StartSeries(r) \/ Read(r) PROVE RegistryInv'
  BY <1>3, ReaderInv DEF Read
<1>4. ASSUME NEW f \in Files, Checkpoint(f) PROVE RegistryInv'
  BY <1>4, CheckpointInv
<1>5. CASE Crash \/ Shutdown \/ Restart
  BY <1>5, CrashInv, ShutdownInv, RestartInv
<1>6. CASE UNCHANGED vars
  BY <1>6, StutterInv
<1> QED BY <1>1, <1>2, <1>3, <1>4, <1>5, <1>6 DEF Next

THEOREM RegistryInvariant == Spec => []RegistryInv
BY InitInv, Inductive, PTL DEF Spec

\* registry.go: every variable has its type, for any publishers, readers and bundles.
THEOREM TypeCorrect == Spec => []TypeOK
<1>1. RegistryInv => TypeOK
  BY DEF RegistryInv
<1> QED BY <1>1, RegistryInvariant, PTL

\* registry.go:101: NewRegistry never fails, wherever the process stopped: between
\* the two steps of an activation, under a delta, or in the middle of a cleanup.
THEOREM RestartNeverFails == Spec => []RestartRecovers
<1>1. RegistryInv => RestartRecovers
  BY DEF RegistryInv
<1> QED BY <1>1, RegistryInvariant, PTL

\* writeActivePointer and switchStore: when no publisher is at work, active.json names
\* the store that is served.
THEOREM PointerNeverParts == Spec => []PointerMatchesStore
<1>1. RegistryInv => PointerMatchesStore
  <2> SUFFICES ASSUME MutexInv, StoreInv, phase = "running", publishMu = None
               PROVE  store = Pointed
    BY DEF RegistryInv, PointerMatchesStore
  <2>1. \A p \in Publishers : task[p].pc \notin Switching
    BY Constants DEF MutexInv, Working, Activating, Switching
  <2> QED BY <2>1 DEF StoreInv
<1> QED BY <1>1, RegistryInvariant, PTL

\* registry.go, withStore: the read lock keeps the store of a query open under it.
THEOREM QueriesHaveTheirStore == Spec => []NoQueryOnClosedStore
<1>1. RegistryInv => NoQueryOnClosedStore
  BY DEF RegistryInv, NoQueryOnClosedStore, DownInv, StoreInv, ReadInv
<1> QED BY <1>1, RegistryInvariant, PTL

\* installImmutableDirectory and applied_deltas: what was merged under an identifier is
\* what its directory holds.
THEOREM DeltasAreNeverMixed == Spec => []OneContentPerDelta
<1>1. RegistryInv => OneContentPerDelta
  <2> SUFFICES ASSUME RegistryInv, NEW a \in Content(store).applied, NEW d \in deltas,
                      a.day = d.day
               PROVE  a.sum = d.sum
    BY DEF OneContentPerDelta
  <2>1. store \in DOMAIN runtimes
    BY DEF Content, Empty
  <2>2. phase = "running" /\ store # None
    BY <2>1, Constants DEF RegistryInv, TypeOK, DownInv
  <2>3. a \in deltas
    BY <2>1, <2>2 DEF RegistryInv, StoreInv, Content
  <2> QED BY <2>3 DEF RegistryInv, DeltaInv
<1> QED BY <1>1, RegistryInvariant, PTL

\* EnsureStatistics and mergeStatistics: the row of the served store counts its series.
THEOREM StatisticsStayExact == Spec => []StatisticsMatchSeries
<1>1. RegistryInv => StatisticsMatchSeries
  <2> SUFFICES ASSUME RegistryInv, phase = "running", store # None
               PROVE  Content(store).events = Cardinality({d \in Days : Content(store).days[d] > 0})
    BY DEF StatisticsMatchSeries
  <2> DEFINE db == runtimes[store].view
  <2>1. /\ Content(store) = db /\ db \in Database /\ Sound(db) /\ db.events # NoRow
    BY DEF RegistryInv, TypeOK, StoreInv, DataInv, Content, Runtime
  <2> HIDE DEF db
  <2>2. db.watermark \in 0..LastDay /\ db.events = db.watermark /\ db.days = Complete(db.watermark)
    BY <2>1, Constants DEF Database, Sound, Days
  <2>3. {d \in Days : db.days[d] > 0} = 1..db.watermark
    BY <2>2, Constants DEF Complete, Days
  <2>4. Cardinality(1..db.watermark) = db.watermark
    <3>1. db.watermark \in Int /\ db.watermark >= 0
      BY <2>2, Constants
    <3>2. Cardinality(1..db.watermark) = IF 1 > db.watermark THEN 0 ELSE db.watermark - 1 + 1
      BY <3>1, FS_Interval
    <3> QED BY <3>1, <3>2
  <2> QED BY <2>1, <2>2, <2>3, <2>4
<1> QED BY <1>1, RegistryInvariant, PTL

------------------------------------------------------------------------------
(* The registry implements PublishedHistory.                                 *)

\* What a step shows of a database that is complete.
LEMMA Shows ==
    ASSUME NEW v, NEW w, Served'.version = v, Served'.watermark = w, Served'.days = Complete(w)
    PROVE  Abstract!Serve(v, w)
BY DEF Abstract!Serve, Abstract!Complete, Abstract!Days, Complete, Days

\* What is served is nothing, or a sound database.
LEMMA ServedIsSound ==
    ASSUME TypeOK, DataInv
    PROVE  \/ Served = Empty
           \/ Served \in Database /\ Sound(Served)
BY DEF Served, Content, TypeOK, DataInv, Runtime

\* A step that leaves the served database alone.
LEMMA ShowsTheSame ==
    ASSUME phase = "running", phase' = "running", Content(store)' = Content(store)
    PROVE  UNCHANGED Abstract!vars
BY DEF Abstract!vars, Served

\* Steps that touch no runtime file and not the store.
LEMMA KeepsServed ==
    ASSUME phase = "running", UNCHANGED <<phase, runtimes, store>>
    PROVE  UNCHANGED Abstract!vars
<1>1. Content(store)' = Content(store)
  BY DEF Content
<1> QED BY <1>1, ShowsTheSame

\* The runtime files an activation makes, drops and cleans up are not the one that is
\* served.
LEMMA ActivationKeepsServed ==
    ASSUME RegistryInv, NEW p \in Publishers,
           PrepareRuntime(p) \/ WritePointer(p) \/ CleanupRuntimes(p)
    PROVE  UNCHANGED Abstract!vars
<1>1. TypeOK /\ MutexInv /\ StoreInv /\ CopyOK(p)
  BY DEF RegistryInv, CopyInv
<1>2. task[p].pc \in {"prepare", "pointer", "runtimes"} /\ UNCHANGED <<phase, store>>
  BY DEF PrepareRuntime, WritePointer, CleanupRuntimes, diskVars
<1>3. phase = "running"
  BY <1>1, <1>2, AtWork, Alone DEF RegistryInv, Working, Activating
<1>4. store \in DOMAIN runtimes \/ store = None
  BY <1>1, <1>3 DEF StoreInv
<1>5. CASE PrepareRuntime(p)
  <2>1. CASE UNCHANGED runtimes
    BY <1>2, <1>3, <2>1, KeepsServed
  <2>2. ASSUME NEW f \in Files \ DOMAIN runtimes, NEW r, runtimes' = Keep(f, r)
        PROVE  UNCHANGED Abstract!vars
    <3>1. Content(store)' = Content(store)
      BY <1>1, <1>2, <1>4, <2>2, Constants DEF Content, Keep, TypeOK
    <3> QED BY <1>2, <1>3, <3>1, ShowsTheSame
  <2> QED BY <1>5, <2>1, <2>2 DEF PrepareRuntime
<1>6. CASE WritePointer(p)
  <2>1. CASE UNCHANGED runtimes
    BY <1>2, <1>3, <2>1, KeepsServed
  <2>2. CASE runtimes' = [f \in DOMAIN runtimes \ {task[p].file} |-> runtimes[f]]
    <3>1. task[p].file # store
      BY <1>1, <1>6 DEF CopyOK, WritePointer
    <3>2. Content(store)' = Content(store)
      BY <1>2, <2>2, <3>1 DEF Content
    <3> QED BY <1>2, <1>3, <3>2, ShowsTheSame
  <2> QED BY <1>6, <2>1, <2>2 DEF WritePointer
<1>7. CASE CleanupRuntimes(p)
  <2>1. runtimes' = Cleaned(store)
    BY <1>7 DEF CleanupRuntimes
  <2>2. ASSUME store \in DOMAIN runtimes
        PROVE  store \in DOMAIN runtimes' /\ runtimes'[store].view = runtimes[store].view
    BY <1>1, <2>1, <2>2 DEF Cleaned, TypeOK, Runtime
  <2>3. store \notin DOMAIN runtimes => store \notin DOMAIN runtimes'
    BY <2>1 DEF Cleaned
  <2>4. Content(store)' = Content(store)
    BY <1>2, <2>2, <2>3 DEF Content
  <2> QED BY <1>2, <1>3, <2>4, ShowsTheSame
<1> QED BY <1>5, <1>6, <1>7

\* The exchange of the stores is what publishes a snapshot.
LEMMA SwitchPublishes ==
    ASSUME RegistryInv, NEW p \in Publishers, SwitchStore(p)
    PROVE  Abstract!Publish
<1> DEFINE v == task[p].version
<1>1. TypeOK /\ MutexInv /\ DataInv /\ RequestOK(p) /\ CopyOK(p)
  BY DEF RegistryInv, RequestInv, CopyInv
<1>2. /\ task[p].pc = "exchange" /\ store' = task[p].file /\ UNCHANGED <<phase, runtimes>>
  BY DEF SwitchStore
<1>3. phase = "running" /\ v \in Versions
  BY <1>1, <1>2, AtWork, Alone DEF RegistryInv, RequestOK, Working, Activating
<1>4. /\ store' \in DOMAIN runtimes /\ IsCopy(runtimes[store'].view, v)
      /\ Sound(runtimes[store'].view)
  BY <1>1, <1>2 DEF CopyOK, Switching, DataInv
<1>5. Served' = runtimes[store'].view
  BY <1>2, <1>3, <1>4 DEF Served, Content
<1>6. /\ Served'.version = v /\ Served'.watermark = SourceWatermark[v]
      /\ Served'.days = Complete(SourceWatermark[v])
  BY <1>4, <1>5 DEF IsCopy, Sound
<1>7. Abstract!Serve(v, SourceWatermark[v])
  BY <1>6, Shows
<1> QED BY <1>3, <1>7 DEF Abstract!Publish

\* A delta adds exactly the next day, or nothing.
LEMMA DeltaAddsADay ==
    ASSUME RegistryInv, NEW p \in Publishers, ApplyDelta(p)
    PROVE  Abstract!AddDay \/ UNCHANGED Abstract!vars
<1> DEFINE d == Delta(task[p])
<1>1. TypeOK /\ MutexInv /\ StoreInv /\ DataInv /\ RequestOK(p)
  BY DEF RegistryInv, RequestInv
<1>2. task[p].pc = "apply" /\ UNCHANGED <<phase, store>>
  BY DEF ApplyDelta
<1>3. phase = "running" /\ d \in DeltaBundles
  BY <1>1, <1>2, AtWork, Alone DEF RegistryInv, RequestOK, Working, Activating
<1>4. CASE store \notin DOMAIN runtimes \/ runtimes'[store] = runtimes[store]
  <2>1. Content(store)' = Content(store)
    BY <1>2, <1>4, ApplyDeltaRuntimes DEF Content
  <2> QED BY <1>2, <1>3, <2>1, ShowsTheSame
<1>5. CASE /\ store \in DOMAIN runtimes
           /\ runtimes'[store] = [runtimes[store] EXCEPT !.view = Merged(runtimes[store].view, d)]
           /\ Follows(runtimes[store].view, d)
  <2> DEFINE db == runtimes[store].view
             m == Merged(db, d)
  <2>1. /\ runtimes[store] \in Runtime /\ db \in Database /\ Sound(db) /\ db.events # NoRow
    BY <1>1, <1>3, <1>5, Constants DEF TypeOK, DataInv, StoreInv, Runtime
  <2>2. /\ m.version = db.version /\ m.watermark = db.watermark + 1
        /\ m.days = Complete(db.watermark + 1)
    BY <1>3, <1>5, <2>1, MergedIsSound
  <2>3. Served = db
    BY <1>3, <1>5 DEF Served, Content
  <2>4. Served' = m
    <3>1. runtimes'[store].view = m
      BY <1>5, <2>1 DEF Runtime
    <3> HIDE DEF m
    <3> QED BY <1>2, <1>3, <1>5, <3>1, ApplyDeltaRuntimes DEF Served, Content
  <2>5. db.version \in Versions /\ db.watermark < LastDay
    BY <1>3, <1>5, <2>1, Constants DEF Sound, Follows, Days, Database
  <2> HIDE DEF m, db
  <2>6. Abstract!Serve(db.version, db.watermark + 1)
    BY <2>2, <2>4, Shows
  <2> QED BY <2>3, <2>5, <2>6 DEF Abstract!AddDay
<1> QED BY <1>4, <1>5, ApplyDeltaRuntimes

\* A stop in the middle of an activation publishes its snapshot; any other stop leaves
\* the served version with no fewer days than its snapshot had.
LEMMA StopShows ==
    ASSUME RegistryInv, RegistryInv', Stop, DOMAIN runtimes' = DOMAIN runtimes,
           \A f \in DOMAIN runtimes :
               runtimes'[f].view \in {runtimes[f].file, runtimes[f].view}
    PROVE  Abstract!Publish \/ Abstract!LoseDays \/ UNCHANGED Abstract!vars
<1>1. TypeOK /\ RequestInv /\ CopyInv /\ PointerInv /\ StoreInv /\ DataInv /\ DataInv'
  BY DEF RegistryInv
<1>2. phase = "running" /\ phase' = "down" /\ pointer' = pointer
  BY DEF Stop, diskVars
<1>3. Pointed' = Pointed
  BY <1>2 DEF Pointed
<1>4. ASSUME NEW p \in Publishers, task[p].pc \in Switching
      PROVE  Abstract!Publish
  <2> DEFINE v == task[p].version
             f == task[p].file
  <2>1. v \in Versions /\ pointer = {[version |-> v, file |-> f]}
    BY <1>1, <1>4 DEF RequestInv, RequestOK, CopyInv, CopyOK, Activating, Switching
  <2>2. /\ f \in DOMAIN runtimes /\ IsCopy(runtimes[f].file, v) /\ IsCopy(runtimes[f].view, v)
    BY <1>1, <1>4 DEF CopyInv, CopyOK
  <2>3. Pointed = f
    BY <1>1, <2>1, PointedIs
  <2>4. Served' = runtimes'[f].view /\ Sound(runtimes'[f].view)
    BY <1>1, <1>2, <1>3, <2>2, <2>3 DEF Served, Content, DataInv
  <2>5. IsCopy(runtimes'[f].view, v)
    BY <2>2
  <2>6. /\ Served'.version = v /\ Served'.watermark = SourceWatermark[v]
        /\ Served'.days = Complete(SourceWatermark[v])
    BY <2>4, <2>5 DEF IsCopy, Sound
  <2>7. Abstract!Serve(v, SourceWatermark[v])
    BY <2>6, Shows
  <2> QED BY <2>1, <2>7 DEF Abstract!Publish
<1>5. CASE \A p \in Publishers : task[p].pc \notin Switching
  <2>1. store = Pointed
    BY <1>1, <1>2, <1>5 DEF StoreInv
  <2>2. CASE store \notin DOMAIN runtimes
    <3>1. Served = Empty /\ Served' = Empty
      BY <1>2, <1>3, <2>1, <2>2 DEF Served, Content, Empty, Complete, Days
    <3> QED BY <3>1 DEF Abstract!vars, Empty, Complete, Days
  <2>3. CASE store \in DOMAIN runtimes
    <3> DEFINE db == runtimes[store].view
               new == runtimes'[Pointed].view
    <3>1. Served = db /\ Served' = new
      BY <1>2, <1>3, <2>1, <2>3 DEF Served, Content
    <3>2. /\ runtimes[store] \in Runtime
          /\ Sound(db) /\ Sound(new) /\ new.version = db.version
          /\ new.watermark \in {runtimes[store].file.watermark, db.watermark}
          /\ runtimes[store].file.watermark <= db.watermark
      BY <1>1, <2>1, <2>3 DEF TypeOK, DataInv
    <3>3. /\ runtimes[store].file.watermark \in Nat /\ db.watermark \in Nat
      BY <3>2, Constants DEF Runtime, Database, Days
    <3>4. SourceWatermark[db.version] \in Nat
      BY <3>2, Constants DEF Sound, Days
    <3> HIDE DEF db, new
    <3>5. /\ db.version \in Versions
          /\ new.watermark \in SourceWatermark[db.version]..db.watermark
          /\ new.days = Complete(new.watermark)
      BY <3>2, <3>3, <3>4 DEF Sound
    <3>6. Abstract!Serve(db.version, new.watermark)
      BY <3>1, <3>2, <3>5, Shows
    <3> QED BY <3>1, <3>5, <3>6 DEF Abstract!LoseDays
  <2> QED BY <2>2, <2>3
<1> QED BY <1>4, <1>5

\* A restart opens what active.json names, and serves what was there.
LEMMA RestartShows ==
    ASSUME RegistryInv, Restart
    PROVE  UNCHANGED Abstract!vars
<1>1. TypeOK /\ PointerInv /\ DataInv
  BY DEF RegistryInv
<1>2. phase = "down" /\ UNCHANGED pointer
  BY DEF Restart, diskVars
<1>3. \A a \in pointer : Installed(a.version) /\ Content(a.file).version = a.version
  BY <1>1 DEF PointerInv, Content
<1>4. /\ phase' = "running" /\ store' = Pointed
      /\ runtimes' = IF pointer = {} THEN runtimes
                     ELSE [f \in {store'} |->
                             [runtimes[f] EXCEPT !.view = EnsureStatistics(@)]]
  BY <1>3 DEF Restart
<1>5. CASE pointer = {}
  <2>1. Served' = Served
    BY <1>2, <1>4, <1>5 DEF Served, Content
  <2> QED BY <2>1 DEF Abstract!vars
<1>6. CASE pointer # {}
  <2>1. PICK a \in pointer : TRUE
    BY <1>6
  <2>2. Pointed \in DOMAIN runtimes
    BY <1>1, <2>1, PointedIs DEF PointerInv
  <2> DEFINE r == runtimes[Pointed]
             db == EnsureStatistics(r.view)
  <2>3. r \in Runtime /\ r.view \in Database /\ Sound(r.view)
    BY <1>1, <2>2 DEF TypeOK, DataInv, Runtime
  <2>4. db.version = r.view.version /\ db.watermark = r.view.watermark /\ db.days = r.view.days
    BY <2>3, Ensured
  <2>5. store' \in DOMAIN runtimes' /\ runtimes'[store'] = [r EXCEPT !.view = db]
    BY <1>4, <1>6
  <2>6. Served = r.view
    BY <1>2, <2>2 DEF Served, Content
  <2>7. Served' = db
    <3> HIDE DEF db
    <3>1. runtimes'[store'].view = db
      BY <2>3, <2>5 DEF Runtime
    <3> QED BY <1>4, <2>5, <3>1 DEF Served, Content
  <2> HIDE DEF db, r
  <2> QED BY <2>4, <2>6, <2>7 DEF Abstract!vars
<1> QED BY <1>5, <1>6

QuietStep(p) ==
    \/ InstallSnapshot(p) \/ ActivateSnapshot(p) \/ InstallDelta(p)
    \/ KeepSnapshot(p) \/ VerifyInstalled(p) \/ Lock(p) \/ CloseOldStore(p)
    \/ CleanupArtifacts(p) \/ KeepDelta(p)

\* Most steps of a publishing request show nothing.
LEMMA QuietStepsKeepServed ==
    ASSUME DownInv, NEW p \in Publishers, QuietStep(p)
    PROVE  UNCHANGED Abstract!vars
<1>1. UNCHANGED <<phase, runtimes, store>>
  <2>1. CASE InstallSnapshot(p) \/ ActivateSnapshot(p) \/ InstallDelta(p)
    BY <2>1, Zenon DEF InstallSnapshot, ActivateSnapshot, InstallDelta, Ask
  <2>2. CASE KeepSnapshot(p) \/ VerifyInstalled(p) \/ Lock(p)
    BY <2>2, Zenon DEF KeepSnapshot, VerifyInstalled, Lock
  <2>3. CASE CloseOldStore(p) \/ CleanupArtifacts(p) \/ KeepDelta(p)
    BY <2>3, Zenon DEF CloseOldStore, CleanupArtifacts, KeepDelta
  <2> QED BY <2>1, <2>2, <2>3, Zenon DEF QuietStep
<1>2. phase = "running" \/ task[p].pc # "idle"
  BY DEF QuietStep, InstallSnapshot, ActivateSnapshot, InstallDelta, Ask, KeepSnapshot,
         VerifyInstalled, Lock, CloseOldStore, CleanupArtifacts, KeepDelta
<1>3. phase = "running"
  BY <1>2 DEF DownInv
<1> QED BY <1>1, <1>3, KeepsServed, Zenon

LEMMA StepShows ==
    ASSUME RegistryInv, RegistryInv', [Next]_vars
    PROVE  [Abstract!Next]_Abstract!vars
<1>1. ASSUME NEW p \in Publishers, QuietStep(p)
      PROVE  UNCHANGED Abstract!vars
  <2>1. DownInv
    BY DEF RegistryInv
  <2> QED BY <1>1, <2>1, QuietStepsKeepServed, Zenon
<1>2. ASSUME NEW p \in Publishers, Publish(p)
      PROVE  [Abstract!Next]_Abstract!vars
  BY <1>1, <1>2, ActivationKeepsServed, SwitchPublishes, DeltaAddsADay
     DEF Publish, QuietStep, Abstract!Next
<1>3. ASSUME NEW r \in Readers, StartSeries(r) \/ Read(r)
      PROVE  UNCHANGED Abstract!vars
  BY <1>3 DEF StartSeries, Read, ReadSeries, StartActive, ReadActive, Reply, Query, diskVars,
              Abstract!vars, Served, Content, Pointed, Empty, Complete, Days
<1>4. ASSUME NEW f \in Files, Checkpoint(f)
      PROVE  UNCHANGED Abstract!vars
  <2>1. UNCHANGED <<phase, pointer, store>> /\ DOMAIN runtimes' = DOMAIN runtimes
    BY <1>4 DEF Checkpoint, diskVars
  <2>2. \A g \in DOMAIN runtimes : runtimes'[g].view = runtimes[g].view
    BY <1>4 DEF Checkpoint, RegistryInv, TypeOK, Runtime
  <2>3. \A g : Content(g)' = Content(g)
    BY <2>1, <2>2 DEF Content
  <2> QED BY <2>1, <2>3 DEF Abstract!vars, Served, Pointed
<1>5. CASE Crash \/ Shutdown
  <2>1. \A f \in DOMAIN runtimes : runtimes[f] \in Runtime
    BY DEF RegistryInv, TypeOK
  <2>2. Stop /\ DOMAIN runtimes' = DOMAIN runtimes
    BY <1>5 DEF Crash, Shutdown
  <2>3. ASSUME NEW f \in DOMAIN runtimes
        PROVE  runtimes'[f].view \in {runtimes[f].file, runtimes[f].view}
    <3> DEFINE c == [runtimes[f] EXCEPT !.file = runtimes[f].view]
    <3>1. c \in Runtime /\ c.file = runtimes[f].view /\ c.view = runtimes[f].view
      BY <2>1, RecoveredIs
    <3>2. runtimes'[f] = Recovered(c) \/ runtimes'[f] = Recovered(runtimes[f])
      BY <1>5 DEF Crash, Shutdown
    <3> HIDE DEF c
    <3> QED BY <2>1, <3>1, <3>2, RecoveredIs
  <2> QED BY <2>2, <2>3, StopShows DEF Abstract!Next
<1>6. CASE Restart
  BY <1>6, RestartShows
<1>7. CASE UNCHANGED vars
  BY <1>7 DEF vars, diskVars, Abstract!vars, Served, Content, Pointed, Empty, Complete, Days
<1> QED BY <1>1, <1>2, <1>3, <1>4, <1>5, <1>6, <1>7 DEF Next, QuietStep

\* PublishedHistory: at any time queries are answered from exactly one published
\* version, complete up to some day; a delta adds exactly the next day, and a stop takes
\* away no day of the snapshot.
THEOREM RegistryServesPublishedHistory == Spec => ServesPublishedHistory
<1>1. Init => Abstract!Init
  <2> SUFFICES ASSUME Init PROVE Abstract!Init
    OBVIOUS
  <2>1. Served = Empty
    BY DEF Init, Served, Content
  <2> QED BY <2>1 DEF Empty, Complete, Days, Abstract!Init, Abstract!Complete, Abstract!Days
<1>2. RegistryInv /\ RegistryInv' /\ [Next]_vars => [Abstract!Next]_Abstract!vars
  BY StepShows
<1> QED BY <1>1, <1>2, RegistryInvariant, PTL DEF Spec, ServesPublishedHistory, Abstract!Spec

==============================================================================
