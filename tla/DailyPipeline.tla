---------------------------- MODULE DailyPipeline ----------------------------
(***************************************************************************)
(* The daily publication of deltas (builder/.../daily.py with build_silver *)
(* and build_delta of build.py): runs of the builder that share their      *)
(* directories of raw partitions, silver data sets and delta bundles, and  *)
(* publish over HTTP into the registry, which is PublishedHistory here.    *)
(*                                                                         *)
(* A raw partition is a revision number (0 while it is not downloaded), of *)
(* which only matters whether it holds events of its own day, of earlier   *)
(* and of later ones.  No two builds have the same content (creation       *)
(* times, UUIDs in the names of the parts).  A directory can be finished   *)
(* only once until the builder loses its directories, so a content is      *)
(* known by the run that built it and the number of losses before.         *)
(***************************************************************************)
EXTENDS Integers

CONSTANTS
    CatchUps,         \* repeated run_catch_up invocations
    Dailies,          \* repeated run_daily invocations
    Versions,         \* snapshots that may be activated
    SourceWatermark,  \* the last day of each snapshot
    LastDay,          \* the target watermark of a catch-up
    MaxRevision,      \* bound: downloads of one partition
    Holds,            \* Holds[<<d, r>>]: the events in revision r of the partition of day d
    MaxTrouble,       \* bound: faults and operator actions
    None

Runs == CatchUps \cup Dailies
Days == 1..LastDay
Revisions == 1..MaxRevision

\* When an event happened, seen from the day of the partition.
Events == {"earlier", "own", "later"}

ASSUME PipelineAssumption ==
    /\ LastDay \in Nat \ {0}
    /\ MaxRevision \in Nat \ {0}
    /\ MaxTrouble \in Nat
    /\ CatchUps \cap Dailies = {}
    /\ SourceWatermark \in [Versions -> Days \cup {0}]
    /\ Holds \in [Days \X Revisions -> SUBSET Events]
    /\ None \notin Versions \cup Runs

Silver == [claimed : Revisions, rows : Revisions, builder : Runs, losses : 0..MaxTrouble]
Bundle == [day : Days, source : Silver, builder : Runs]

VARIABLES
    raw,        \* raw[d]: the revision of the day's partition, 0 while missing
    silver,     \* silver[d]: {} or the one final directory of the day
    delta,      \* delta[d]: likewise
    receipts,   \* days with a publish-receipt.json
    losses,     \* how often the builder's directories were lost
    run,        \* what each run is doing
    posts,      \* [by, bundle]: uploads the service has not answered yet; by is None when nobody waits
    version, watermark, days,  \* what the service serves
    merged,     \* bundles merged into the served version
    kept,       \* delta directories of the service
    trouble     \* faults so far

files == <<raw, silver, delta, receipts, losses>>
served == <<version, watermark, days>>
service == <<served, merged, kept>>
vars == <<files, run, posts, service, trouble>>

Service == INSTANCE PublishedHistory WITH Nothing <- None

\* claimed and rows belong to a silver data set under construction; peak is the
\* highest watermark served since the run last asked for it.
Run == [pc : {"idle", "active", "silver", "claim", "rows", "keepSilver", "verify",
              "delta", "keepDelta", "publish", "await", "receipt", "completed"},
        goal : Days, day : Days, claimed : Revisions \cup {0}, rows : Revisions \cup {0},
        peak : Days \cup {0}]

Idle == [pc |-> "idle", goal |-> LastDay, day |-> LastDay, claimed |-> 0, rows |-> 0, peak |-> 0]

TypeOK ==
    /\ raw \in [Days -> Revisions \cup {0}]
    /\ \A d \in Days : silver[d] = {} \/ \E s \in Silver : silver[d] = {s}
    /\ \A d \in Days : delta[d] = {} \/ \E b \in Bundle : delta[d] = {b} /\ b.day = d
    /\ receipts \subseteq Days
    /\ run \in [Runs -> Run]
    /\ posts \subseteq [by : Runs \cup {None}, bundle : Bundle]
    /\ version \in Versions \cup {None}
    /\ watermark \in Days \cup {0}
    /\ merged \subseteq Bundle /\ kept \subseteq Bundle
    /\ trouble \in 0..MaxTrouble
    /\ losses \in 0..trouble

Init ==
    /\ raw \in [Days -> {0, 1}]
    /\ silver = [d \in Days |-> {}]
    /\ delta = [d \in Days |-> {}]
    /\ receipts = {}
    /\ losses = 0
    /\ run = [p \in Runs |-> Idle]
    /\ posts = {}
    /\ Service!Init
    /\ merged = {} /\ kept = {}
    /\ trouble = 0

------------------------------------------------------------------------------

Goto(p, pc) == run' = [run EXCEPT ![p].pc = pc]

\* An exception, up to the exit of the command.
Exit(p) == run' = [run EXCEPT ![p] = Idle]

\* The service has activated something: active_watermark is not empty.
Activated == version # None

\* run_catch_up: nothing to do, a partition is missing, or the first day of the range.
StartCatchUp(p) ==
    /\ p \in CatchUps
    /\ run[p].pc = "idle"
    /\ Activated
    /\ watermark < LastDay
    /\ \A d \in watermark + 1..LastDay : raw[d] # 0
    /\ run' = [run EXCEPT ![p] = [Idle EXCEPT !.pc = "active", !.day = watermark + 1]]
    /\ UNCHANGED <<files, posts, service, trouble>>

\* run_daily for one day, whose partition run-daily-pipeline.sh has seen.
StartDaily(p) ==
    /\ p \in Dailies
    /\ run[p].pc = "idle"
    /\ \E d \in Days :
        /\ raw[d] # 0
        /\ run' = [run EXCEPT ![p] = [Idle EXCEPT !.pc = "active", !.goal = d, !.day = d]]
    /\ UNCHANGED <<files, posts, service, trouble>>

\* Mutant: one day past the target.
DayDonePast(p) ==
    run' = [run EXCEPT ![p] = [Idle EXCEPT !.pc = "active", !.day = run[p].day + 1]]

\* A day is done: the next one of the range, or the end of the command.
DayDone(p) ==
    IF run[p].day = run[p].goal
    THEN run' = [run EXCEPT ![p] = [Idle EXCEPT !.pc = "completed", !.goal = run[p].goal,
                                                !.day = run[p].day, !.peak = run[p].peak]]
    ELSE run' = [run EXCEPT ![p] = [Idle EXCEPT !.pc = "active", !.day = run[p].day + 1]]

\* run_daily asks for the watermark: the day may be served already, may be due, or
\* may not be adjacent to what is served.
AskActive(p) ==
    /\ run[p].pc = "active"
    /\ \/ /\ Activated /\ watermark >= run[p].day
          /\ IF run[p].day = run[p].goal
             THEN run' = [run EXCEPT ![p].pc = "completed", ![p].peak = watermark]
             ELSE DayDone(p)
       \/ /\ Activated /\ watermark = run[p].day - 1
          /\ run' = [run EXCEPT ![p].pc = "silver", ![p].peak = watermark]
       \/ /\ ~Activated \/ watermark < run[p].day - 1
          /\ Exit(p)
    /\ UNCHANGED <<files, posts, service, trouble>>

------------------------------------------------------------------------------
(* _ensure_silver.                                                           *)

\* The checksum of the partition is compared with the manifest of a directory that exists.
FindSilver(p) ==
    /\ run[p].pc = "silver"
    /\ IF silver[run[p].day] = {} THEN Goto(p, "claim")
       ELSE IF \A s \in silver[run[p].day] : s.claimed = raw[run[p].day]
            THEN Goto(p, "verify")
            ELSE Exit(p)
    /\ UNCHANGED <<files, posts, service, trouble>>

\* build_silver takes the checksum again, for the manifest; _prepare_destination
\* refuses a directory that has appeared meanwhile.
ClaimRaw(p) ==
    /\ run[p].pc = "claim"
    /\ IF silver[run[p].day] = {}
       THEN run' = [run EXCEPT ![p].pc = "rows", ![p].claimed = raw[run[p].day]]
       ELSE Exit(p)
    /\ UNCHANGED <<files, posts, service, trouble>>

\* to_inclusive: events after the watermark of the data set do not get into it.
InSilver(d, r) == Holds[<<d, r>>] \ {"later"}

\* DuckDB reads the partition, and cannot go on if no part has been written.
ReadRaw(p) ==
    /\ run[p].pc = "rows"
    /\ IF InSilver(run[p].day, raw[run[p].day]) = {} THEN Exit(p)
       ELSE run' = [run EXCEPT ![p].pc = "keepSilver", ![p].rows = raw[run[p].day]]
    /\ UNCHANGED <<files, posts, service, trouble>>

\* os.replace: a directory does not replace one that has files in it.
KeepSilver(p) ==
    /\ run[p].pc = "keepSilver"
    /\ IF silver[run[p].day] = {}
       THEN /\ silver' = [silver EXCEPT ![run[p].day] =
                   {[claimed |-> run[p].claimed, rows |-> run[p].rows,
                     builder |-> p, losses |-> losses]}]
            /\ run' = [run EXCEPT ![p].pc = "verify", ![p].claimed = 0, ![p].rows = 0]
       ELSE Exit(p) /\ UNCHANGED silver
    /\ UNCHANGED <<raw, delta, receipts, losses, posts, service, trouble>>

\* minimum_event_day and maximum_event_day of the manifest are the day itself.
OwnDayOnly(d) == \A s \in silver[d] : InSilver(d, s.rows) = {"own"}

\* Mutant: a data set that was there is taken as it is; only a new one is looked at.
VerifySilverWhenBuilt(p) ==
    /\ run[p].pc = "verify"
    /\ IF OwnDayOnly(run[p].day) \/ \A s \in silver[run[p].day] : s.builder # p
       THEN Goto(p, "delta") ELSE Exit(p)
    /\ UNCHANGED <<files, posts, service, trouble>>

\* Old or new, the data set, which has no later events, must hold no earlier ones.
VerifySilver(p) ==
    /\ run[p].pc = "verify"
    /\ IF OwnDayOnly(run[p].day) THEN Goto(p, "delta") ELSE Exit(p)
    /\ UNCHANGED <<files, posts, service, trouble>>

------------------------------------------------------------------------------
(* _ensure_delta and the publication.                                        *)

\* Mutant: a bundle that an earlier run finished is not looked for.
FindDeltaNever(p) ==
    /\ run[p].pc = "delta"
    /\ Goto(p, "keepDelta")
    /\ UNCHANGED <<files, posts, service, trouble>>

\* A bundle that exists must come from this silver data set.  Its watermarks are
\* those of the day.
FindDelta(p) ==
    /\ run[p].pc = "delta"
    /\ IF delta[run[p].day] = {} THEN Goto(p, "keepDelta")
       ELSE IF \A b \in delta[run[p].day] : {b.source} = silver[run[p].day]
            THEN Goto(p, "publish")
            ELSE Exit(p)
    /\ UNCHANGED <<files, posts, service, trouble>>

NewBundle(p) == [day |-> run[p].day, source |-> CHOOSE s \in silver[run[p].day] : TRUE, builder |-> p]

\* Mutant: the finished bundle replaces one that was finished meanwhile.
KeepDeltaAnyway(p) ==
    /\ run[p].pc = "keepDelta"
    /\ delta' = [delta EXCEPT ![run[p].day] = {NewBundle(p)}]
    /\ Goto(p, "publish")
    /\ UNCHANGED <<raw, silver, receipts, losses, posts, service, trouble>>

\* build_delta from the silver data set, which no longer changes.
KeepDelta(p) ==
    /\ run[p].pc = "keepDelta"
    /\ IF delta[run[p].day] = {}
       THEN delta' = [delta EXCEPT ![run[p].day] = {NewBundle(p)}] /\ Goto(p, "publish")
       ELSE Exit(p) /\ UNCHANGED delta
    /\ UNCHANGED <<raw, silver, receipts, losses, posts, service, trouble>>

\* publish_delta uploads the archive of the directory.
Upload(p) ==
    /\ run[p].pc = "publish"
    /\ posts' = posts \cup [by : {p}, bundle : delta[run[p].day]]
    /\ Goto(p, "await")
    /\ UNCHANGED <<files, service, trouble>>

WriteReceipt(p) ==
    /\ run[p].pc = "receipt"
    /\ receipts' = receipts \cup {run[p].day}
    /\ DayDone(p)
    /\ UNCHANGED <<raw, silver, delta, losses, posts, service, trouble>>

\* The command has printed its result.
Report(p) ==
    /\ run[p].pc = "completed"
    /\ Exit(p)
    /\ UNCHANGED <<files, posts, service, trouble>>

------------------------------------------------------------------------------
(* The service: InstallDeltaZip of the registry, activations and stops.      *)

\* The runs as the service leaves them: each has seen the watermark that is served now.
Peaked(runs) == [p \in Runs |-> [runs[p] EXCEPT !.peak =
                    IF runs[p].pc \notin {"idle", "active"} /\ watermark' > @ THEN watermark' ELSE @]]

\* Mutant: an upload that was refused counts as one that was accepted.
AnsweredAnyhow(post, pc) ==
    IF post.by = None THEN run ELSE [run EXCEPT ![post.by].pc = "receipt"]

\* The answer goes to the run whose upload it was, if that still waits.
Answered(post, pc) ==
    IF post.by = None THEN run
    ELSE [run EXCEPT ![post.by] = IF pc = "idle" THEN Idle ELSE [@ EXCEPT !.pc = pc]]

\* Mutant: the directory of the identifier is not compared.
ConflictsNever(bundle) == FALSE

\* A directory of the service never gets a second content (what is merged is kept).
Conflicts(bundle) == \E b \in kept : b.day = bundle.day /\ b # bundle

Refuse(post) ==
    /\ ~Activated \/ Conflicts(post.bundle)
    /\ UNCHANGED service
    /\ run' = Peaked(Answered(post, "idle"))

\* A bundle of another day than the next one stays in the service's directory.
RefuseDay(post) ==
    /\ Activated /\ ~Conflicts(post.bundle)
    /\ post.bundle \notin merged /\ watermark # post.bundle.day - 1
    /\ kept' = kept \cup {post.bundle}
    /\ UNCHANGED <<served, merged>>
    /\ run' = Peaked(Answered(post, "idle"))

Acknowledge(post) ==
    /\ Activated /\ ~Conflicts(post.bundle)
    /\ post.bundle \in merged
    /\ kept' = kept \cup {post.bundle}
    /\ UNCHANGED <<served, merged>>
    /\ run' = Peaked(Answered(post, "receipt"))

Merge(post) ==
    /\ ~Conflicts(post.bundle)
    /\ post.bundle \notin merged /\ watermark = post.bundle.day - 1
    /\ Service!AddDay
    /\ merged' = merged \cup {post.bundle}
    /\ kept' = kept \cup {post.bundle}
    /\ run' = Peaked(Answered(post, "receipt"))

Serve(post) ==
    /\ post \in posts
    /\ posts' = posts \ {post}
    /\ Refuse(post) \/ RefuseDay(post) \/ Acknowledge(post) \/ Merge(post)
    /\ UNCHANGED <<files, trouble>>

\* An operator activates a snapshot: deltas up to its watermark are pruned.
Activate(v) ==
    /\ Service!Serve(v, SourceWatermark[v])
    /\ merged' = {}
    /\ kept' = {b \in kept : b.day > SourceWatermark[v]}
    /\ run' = Peaked(run)
    /\ UNCHANGED <<files, posts>>

\* The process stops, perhaps between the directory and the merge of an upload, and
\* may lose days it had merged.
Stop ==
    /\ Service!LoseDays
    /\ merged' = {b \in merged : b.day <= watermark'}
    /\ \E under \in {{}} \cup {{post.bundle} : post \in posts} :
        /\ \A b \in under : ~Conflicts(b)
        /\ kept' = kept \cup under
    /\ posts' = {}
    /\ UNCHANGED <<files, run>>

------------------------------------------------------------------------------

\* Nobody waits for the answers to these uploads any more.
Abandoned(p) == {IF post.by = p THEN [post EXCEPT !.by = None] ELSE post : post \in posts}

Uploading(p) == \E post \in posts : post.by = p

\* The connection is gone.
LoseAnswer(p) ==
    /\ run[p].pc = "await"
    /\ ~Uploading(p)
    /\ Exit(p)
    /\ UNCHANGED <<files, posts, service, trouble>>

\* The upload is lost, or is served after the timeout of the client.
GiveUp(p) ==
    /\ run[p].pc = "await"
    /\ Uploading(p)
    /\ posts' \in {Abandoned(p), {post \in posts : post.by # p}}
    /\ Exit(p)
    /\ UNCHANGED <<files, service>>

\* A run is killed at any point; its staging directory is left behind and unused.
Kill(p) ==
    /\ run[p].pc # "idle"
    /\ Exit(p)
    /\ posts' = Abandoned(p)
    /\ UNCHANGED <<files, service>>

\* The builder's directories are lost; they will be built again from the partitions.
LoseFiles ==
    /\ \A p \in Runs : run[p].pc = "idle"
    /\ silver' = [d \in Days |-> {}]
    /\ delta' = [d \in Days |-> {}]
    /\ receipts' = {}
    /\ losses' = losses + 1
    /\ UNCHANGED <<raw, run, posts, service>>

\* The data platform downloads a partition, for the first time or again.
Download(d) ==
    /\ raw[d] < MaxRevision
    /\ raw' = [raw EXCEPT ![d] = @ + 1]
    /\ UNCHANGED <<silver, delta, receipts, losses, run, posts, service>>

FirstActivation ==
    /\ ~Activated
    /\ \E v \in Versions : Activate(v)
    /\ UNCHANGED trouble

Trouble ==
    /\ trouble < MaxTrouble
    /\ trouble' = trouble + 1
    /\ \/ \E p \in Runs : GiveUp(p) \/ Kill(p)
       \/ \E d \in Days : Download(d)
       \/ Activated /\ \E v \in Versions : Activate(v)
       \/ Stop
       \/ LoseFiles

Step(p) ==
    \/ AskActive(p)
    \/ FindSilver(p) \/ ClaimRaw(p) \/ ReadRaw(p) \/ KeepSilver(p) \/ VerifySilver(p)
    \/ FindDelta(p) \/ KeepDelta(p) \/ Upload(p) \/ WriteReceipt(p) \/ Report(p)
    \/ LoseAnswer(p)

Next ==
    \/ \E p \in Runs : StartCatchUp(p) \/ StartDaily(p) \/ Step(p)
    \/ \E post \in posts : Serve(post)
    \/ FirstActivation
    \/ Trouble

Spec == Init /\ [][Next]_vars

\* launchd starts the commands again and again, a command goes on, and the service
\* answers what reaches it.  An operator activates a first
\* snapshot; nothing more is assumed of operators, and nothing of downloads.
FairSpec ==
    /\ Spec
    /\ \A p \in Runs : WF_vars(Step(p)) /\ WF_vars(StartCatchUp(p))
    /\ WF_vars(\E post \in posts : Serve(post))
    /\ WF_vars(FirstActivation)

------------------------------------------------------------------------------
(* Properties.                                                               *)

\* registry.go:587 with daily.py:277: for one day the service never holds two contents,
\* whoever built them: runs that raced, that were killed and ran again, or that built
\* everything anew from the same partitions after their directories were lost.
OneBundlePerDay == \A a, b \in kept \cup merged : a.day = b.day => a = b

\* daily.py:277, build.py:155: a finished directory is never replaced, so that what a
\* manifest was compared with is what is published: not by the rename of a run that
\* looked for the directory before another one had finished it.
FinishedStays ==
    [][\A d \in Days : \/ /\ silver[d] \in {{}, silver'[d]}
                          /\ delta[d] \in {{}, delta'[d]}
                       \/ silver'[d] = {} /\ delta'[d] = {}]_vars

\* daily.py:168: a run that reports its day as published or applied, or writes a
\* receipt, is right: the service has served that day since the run asked for the
\* watermark, although other runs publish and operators roll back meanwhile.
CompletedMeansServed ==
    \A p \in Runs :
        /\ run[p].pc = "completed" => run[p].peak >= run[p].goal
        /\ run[p].pc = "receipt" => run[p].peak >= run[p].day

\* daily.py:230: what is published for a day are the events of that day and no others.
\* Later ones are left out, and a data set with earlier ones is refused by the run that
\* built it and by any later one that finds it in place.
OnlyOwnDayIsPublished ==
    \A b \in merged \cup kept : InSilver(b.day, b.source.rows) = {"own"}

\* A data set that no run will take as it is: built from a partition that has
\* changed since, or from one with events of earlier days.
SilverRefused(d) ==
    \E s \in silver[d] : s.claimed # raw[d] \/ InSilver(d, s.rows) # {"own"}

\* There is no partition, or nothing in it up to its day.
RawRefused(d) == raw[d] = 0 \/ InSilver(d, raw[d]) = {}

\* The service keeps a bundle of the day that the builder no longer has.
DeltaRefused(d) == \E b \in kept : b.day = d /\ delta[d] # {b}

\* Whatever was killed, lost, rolled back or served late, repeated catch-ups reach
\* their target, unless a partition is missing or refused, or an artifact is.
CatchUpEnds ==
    <>[](\/ watermark = LastDay
         \/ \E d \in Days : RawRefused(d) \/ SilverRefused(d) \/ DeltaRefused(d))
==============================================================================
