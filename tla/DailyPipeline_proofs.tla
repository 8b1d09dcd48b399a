------------------------- MODULE DailyPipeline_proofs -------------------------
(***************************************************************************)
(* What DailyPipeline promises, for any number of runs, days, snapshots    *)
(* and troubles: finished directories stay, a day has one content and no   *)
(* events but its own, and what a run reports as done was served.          *)
(***************************************************************************)
EXTENDS DailyPipeline, TLAPS

------------------------------------------------------------------------------
(* The inductive invariant.                                                  *)

FilesInv ==
    /\ silver \in [Days -> SUBSET Silver]
    /\ delta \in [Days -> SUBSET Bundle]

\* The days a run has before it are downloaded; a catch-up goes to the last day, a
\* daily run has one day only.
RangeOK(p) ==
    run[p].pc # "idle" =>
        /\ run[p].day <= run[p].goal
        /\ run[p].goal \in {run[p].day, LastDay}
        /\ \A d \in run[p].day..run[p].goal : raw[d] # 0

\* A run that builds has read what it writes, and the data set of its day is there and
\* stays from the moment it was looked at.
BuildOK(p) ==
    /\ run[p].pc \in {"rows", "keepSilver"} => run[p].claimed # 0
    /\ run[p].pc = "keepSilver" => run[p].rows # 0
    /\ run[p].pc = "verify" => silver[run[p].day] # {}
    /\ run[p].pc \in {"delta", "keepDelta"} =>
            silver[run[p].day] # {} /\ OwnDayOnly(run[p].day)

\* A run has seen the watermark that is served, and before it writes its receipt it has
\* seen its day served.
PeakOK(p) ==
    /\ run[p].pc \notin {"idle", "active"} => run[p].peak >= watermark
    /\ run[p].pc = "receipt" => run[p].peak >= run[p].day
    /\ run[p].pc = "completed" => run[p].peak >= run[p].goal

RunInv == \A p \in Runs : RangeOK(p) /\ BuildOK(p) /\ PeakOK(p)

\* An upload somebody waits for is the only one of that run, and of the day it is at.
PostInv ==
    /\ \A post \in posts : post.by # None =>
            run[post.by].pc = "await" /\ run[post.by].day = post.bundle.day
    /\ \A post, other \in posts : post.by # None /\ post.by = other.by => post = other

Pure(b) == InSilver(b.day, b.source.rows) = {"own"}

\* Every bundle, on either side or on its way, has the events of its day and no others.
PureInv ==
    /\ \A d \in Days : \A b \in delta[d] : Pure(b)
    /\ \A post \in posts : Pure(post.bundle)
    /\ \A b \in kept : Pure(b)

\* What is merged is kept, each day has one content, and it is served.
KeptInv ==
    /\ merged \subseteq kept
    /\ \A a, b \in kept : a.day = b.day => a = b
    /\ \A b \in merged : b.day <= watermark

PipelineInv == TypeOK /\ FilesInv /\ RunInv /\ PostInv /\ PureInv /\ KeptInv

------------------------------------------------------------------------------
(* Lemmas.                                                                   *)

LEMMA Constants ==
    /\ LastDay \in Nat \ {0} /\ MaxRevision \in Nat \ {0} /\ LastDay \in Days
    /\ \A v \in Versions : SourceWatermark[v] \in Days \cup {0}
    /\ None \notin Versions /\ None \notin Runs
BY PipelineAssumption DEF Days

LEMMA IdleIsARun ==
    /\ Idle \in Run
    /\ Idle.pc = "idle" /\ Idle.goal = LastDay /\ Idle.day = LastDay
    /\ Idle.claimed = 0 /\ Idle.rows = 0 /\ Idle.peak = 0
BY Constants DEF Idle, Run

\* A step of one run that touches no upload and not the service: what others built stays.
LEMMA RunStep ==
    ASSUME PipelineInv, NEW p \in Runs, NEW t \in Run, run' = [run EXCEPT ![p] = t],
           run[p].pc = "await" => \A post \in posts : post.by # p,
           RangeOK(p)', BuildOK(p)', PeakOK(p)',
           UNCHANGED <<raw, posts, service, trouble>>,
           silver' \in [Days -> SUBSET Silver], delta' \in [Days -> SUBSET Bundle],
           TypeOK',
           \A d \in Days : silver[d] \in {{}, silver'[d]},
           \A d \in Days : \A b \in delta'[d] : Pure(b)
    PROVE  PipelineInv'
<1>1. TypeOK /\ RunInv /\ PostInv /\ PureInv /\ KeptInv
  BY DEF PipelineInv
<1>2. run'[p] = t /\ \A q \in Runs \ {p} : run'[q] = run[q]
  BY <1>1 DEF TypeOK
<1>3. ASSUME NEW q \in Runs \ {p}
      PROVE  RangeOK(q)' /\ BuildOK(q)' /\ PeakOK(q)'
  <2>1. /\ RangeOK(q) /\ BuildOK(q) /\ PeakOK(q) /\ run'[q] = run[q] /\ run[q].day \in Days
    BY <1>1, <1>2 DEF RunInv, TypeOK, Run
  <2>2. silver[run[q].day] # {} => silver'[run[q].day] = silver[run[q].day]
    BY <2>1
  <2> QED BY <2>1, <2>2 DEF RangeOK, BuildOK, PeakOK, OwnDayOnly, service, served
<1>4. RunInv'
  BY <1>3 DEF RunInv
<1>5. PostInv'
  BY <1>1, <1>2 DEF PostInv, TypeOK
<1>6. PureInv' /\ KeptInv' /\ FilesInv'
  BY <1>1 DEF PureInv, KeptInv, FilesInv, service, served, Pure
<1> QED BY <1>4, <1>5, <1>6 DEF PipelineInv

\* A step of a run that changes nothing but what the run is doing.
LEMMA QuietRunStep ==
    ASSUME PipelineInv, NEW p \in Runs, NEW t \in Run, run' = [run EXCEPT ![p] = t],
           run[p].pc = "await" => \A post \in posts : post.by # p,
           RangeOK(p)', BuildOK(p)', PeakOK(p)',
           UNCHANGED <<files, posts, service, trouble>>
    PROVE  PipelineInv'
<1>1. TypeOK /\ FilesInv /\ PureInv
  BY DEF PipelineInv
<1>2. UNCHANGED <<raw, silver, delta, receipts, losses, posts, version, watermark, days, merged, kept, trouble>>
  BY DEF files, service, served
<1>3. TypeOK'
  BY <1>1, <1>2 DEF TypeOK
<1> QED BY <1>1, <1>2, <1>3, RunStep DEF FilesInv, PureInv, service, served

\* The end of a run is nothing to worry about.
LEMMA ExitStep ==
    ASSUME PipelineInv, NEW p \in Runs, Exit(p),
           run[p].pc = "await" => \A post \in posts : post.by # p,
           UNCHANGED <<files, posts, service, trouble>>
    PROVE  PipelineInv'
<1>1. run'[p] = Idle
  BY DEF PipelineInv, TypeOK, Exit
<1>2. RangeOK(p)' /\ BuildOK(p)' /\ PeakOK(p)'
  BY <1>1, IdleIsARun DEF RangeOK, BuildOK, PeakOK
<1> QED BY <1>2, IdleIsARun, QuietRunStep DEF Exit

\* A run goes on to another step of the same day.
LEMMA GoesOn ==
    ASSUME TypeOK, NEW p \in Runs, NEW pc \in {"verify", "claim", "delta", "keepDelta", "publish", "await"}, Goto(p, pc)
    PROVE  \E t \in Run : /\ run' = [run EXCEPT ![p] = t]
                          /\ run'[p] = t
                          /\ t.pc = pc /\ t.goal = run[p].goal /\ t.day = run[p].day
                          /\ t.peak = run[p].peak
<1> DEFINE t == [run[p] EXCEPT !.pc = pc]
<1>1. /\ t \in Run /\ t.pc = pc /\ t.goal = run[p].goal /\ t.day = run[p].day
      /\ t.peak = run[p].peak
  <2> DEFINE r == run[p]
  <2>1. r \in Run
    BY DEF TypeOK
  <2> HIDE DEF r
  <2>2. LET s == [r EXCEPT !.pc = pc]
        IN  s \in Run /\ s.pc = pc /\ s.goal = r.goal /\ s.day = r.day /\ s.peak = r.peak
    BY <2>1 DEF Run
  <2> QED BY <2>2 DEF r
<1>2. run' = [run EXCEPT ![p] = t] /\ run'[p] = t
  BY DEF Goto, TypeOK
<1> HIDE DEF t
<1> QED BY <1>1, <1>2

------------------------------------------------------------------------------
(* The steps of a run.                                                       *)

LEMMA StartCatchUpStep ==
    ASSUME PipelineInv, NEW p \in Runs, StartCatchUp(p)
    PROVE  PipelineInv'
<1> DEFINE t == [Idle EXCEPT !.pc = "active", !.day = watermark + 1]
<1>1. /\ TypeOK /\ run[p].pc = "idle" /\ watermark < LastDay
      /\ \A d \in watermark + 1..LastDay : raw[d] # 0
      /\ run' = [run EXCEPT ![p] = t]
      /\ UNCHANGED <<files, posts, service, trouble>>
  BY DEF PipelineInv, StartCatchUp
<1>2. watermark + 1 \in Days
  BY <1>1, Constants DEF TypeOK, Days
<1>3. t \in Run /\ t.pc = "active" /\ t.goal = LastDay /\ t.day = watermark + 1
  BY <1>2, IdleIsARun DEF Idle, Run
<1> HIDE DEF t
<1>4. run'[p] = t
  BY <1>1 DEF TypeOK
<1>5. RangeOK(p)' /\ BuildOK(p)' /\ PeakOK(p)'
  BY <1>1, <1>2, <1>3, <1>4, Constants DEF RangeOK, BuildOK, PeakOK, Days, files
<1> QED BY <1>1, <1>3, <1>5, QuietRunStep

LEMMA StartDailyStep ==
    ASSUME PipelineInv, NEW p \in Runs, StartDaily(p)
    PROVE  PipelineInv'
<1>1. PICK d \in Days :
        /\ raw[d] # 0
        /\ run' = [run EXCEPT ![p] = [Idle EXCEPT !.pc = "active", !.goal = d, !.day = d]]
  BY DEF StartDaily
<1> DEFINE t == [Idle EXCEPT !.pc = "active", !.goal = d, !.day = d]
<1>2. TypeOK /\ run[p].pc = "idle" /\ UNCHANGED <<files, posts, service, trouble>>
  BY DEF PipelineInv, StartDaily
<1>3. t \in Run /\ t.pc = "active" /\ t.goal = d /\ t.day = d
  BY IdleIsARun DEF Idle, Run
<1>4. run' = [run EXCEPT ![p] = t]
  BY <1>1
<1> HIDE DEF t
<1>5. run'[p] = t
  BY <1>2, <1>4 DEF TypeOK
<1>6. RangeOK(p)' /\ BuildOK(p)' /\ PeakOK(p)'
  BY <1>1, <1>2, <1>3, <1>5 DEF RangeOK, BuildOK, PeakOK, Days, files
<1> QED BY <1>2, <1>3, <1>4, <1>6, QuietRunStep

\* The next day of the range, or the end of it.
LEMMA DayDoneIs ==
    ASSUME PipelineInv, NEW p \in Runs, run[p].pc # "idle", DayDone(p),
           run[p].peak >= watermark, run[p].peak >= run[p].day
    PROVE  \E t \in Run :
                /\ run' = [run EXCEPT ![p] = t] /\ run'[p] = t
                /\ t.day <= t.goal /\ t.goal \in {t.day, LastDay}
                /\ \A d \in t.day..t.goal : raw[d] # 0
                /\ \/ t.pc = "active"
                   \/ t.pc = "completed" /\ t.peak >= watermark /\ t.peak >= t.goal
<1>1. /\ TypeOK /\ RangeOK(p) /\ run[p] \in Run /\ run[p].day \in Days /\ run[p].goal \in Days
      /\ run[p].peak \in Days \cup {0}
  BY DEF PipelineInv, RunInv, TypeOK, Run
<1>2. /\ run[p].day <= run[p].goal /\ run[p].goal \in {run[p].day, LastDay}
      /\ \A d \in run[p].day..run[p].goal : raw[d] # 0
  BY <1>1 DEF RangeOK
<1>3. CASE run[p].day = run[p].goal
  <2> DEFINE t == [Idle EXCEPT !.pc = "completed", !.goal = run[p].goal,
                               !.day = run[p].day, !.peak = run[p].peak]
  <2>1. /\ t \in Run /\ t.pc = "completed" /\ t.goal = run[p].goal /\ t.day = run[p].day
        /\ t.peak = run[p].peak
    BY <1>1, IdleIsARun DEF Idle, Run
  <2>2. run' = [run EXCEPT ![p] = t]
    BY <1>3 DEF DayDone
  <2> HIDE DEF t
  <2>3. run'[p] = t
    BY <1>1, <2>2 DEF TypeOK
  <2> QED BY <1>1, <1>2, <1>3, <2>1, <2>2, <2>3
<1>4. CASE run[p].day # run[p].goal
  <2> DEFINE t == [Idle EXCEPT !.pc = "active", !.day = run[p].day + 1]
  <2>1. run[p].goal = LastDay /\ run[p].day + 1 \in Days
    BY <1>1, <1>2, <1>4, Constants DEF Days
  <2>2. t \in Run /\ t.pc = "active" /\ t.goal = LastDay /\ t.day = run[p].day + 1
    BY <2>1, IdleIsARun DEF Idle, Run
  <2>3. run' = [run EXCEPT ![p] = t]
    BY <1>4 DEF DayDone
  <2> HIDE DEF t
  <2>4. run'[p] = t
    BY <1>1, <2>3 DEF TypeOK
  <2>5. t.day <= t.goal /\ \A d \in t.day..t.goal : raw[d] # 0
    BY <1>1, <1>2, <2>1, <2>2, Constants DEF Days
  <2> QED BY <2>2, <2>3, <2>4, <2>5
<1> QED BY <1>3, <1>4

LEMMA AskActiveStep ==
    ASSUME PipelineInv, NEW p \in Runs, AskActive(p)
    PROVE  PipelineInv'
<1>1. /\ TypeOK /\ RangeOK(p) /\ run[p].pc = "active" /\ run[p] \in Run
      /\ UNCHANGED <<files, posts, service, trouble>>
  BY DEF PipelineInv, RunInv, AskActive, TypeOK
<1>2. UNCHANGED <<raw, watermark>> /\ watermark \in Days \cup {0} /\ run[p].day \in Days
  BY <1>1 DEF files, service, served, TypeOK, Run
<1>3. CASE Exit(p)
  BY <1>1, <1>3, ExitStep
<1>4. CASE /\ run[p].day # run[p].goal
           /\ DayDone(p)
  <2> DEFINE t == [Idle EXCEPT !.pc = "active", !.day = run[p].day + 1]
  <2>1. /\ run[p].goal = LastDay /\ run[p].day + 1 \in Days
        /\ \A d \in run[p].day + 1..LastDay : raw[d] # 0
    BY <1>1, <1>2, <1>4, Constants DEF RangeOK, Days
  <2>2. t \in Run /\ t.pc = "active" /\ t.goal = LastDay /\ t.day = run[p].day + 1
    BY <2>1, IdleIsARun DEF Idle, Run
  <2>3. run' = [run EXCEPT ![p] = t]
    BY <1>4 DEF DayDone
  <2> HIDE DEF t
  <2>4. run'[p] = t
    BY <1>1, <2>3 DEF TypeOK
  <2>5. RangeOK(p)' /\ BuildOK(p)' /\ PeakOK(p)'
    BY <1>2, <2>1, <2>2, <2>4, Constants DEF RangeOK, BuildOK, PeakOK, Days
  <2> QED BY <1>1, <2>2, <2>3, <2>5, QuietRunStep
<1>5. ASSUME NEW pc \in {"completed", "silver"},
             run' = [run EXCEPT ![p].pc = pc, ![p].peak = watermark],
             pc = "completed" => run[p].day = run[p].goal /\ watermark >= run[p].day
      PROVE  PipelineInv'
  <2> DEFINE t == [run[p] EXCEPT !.pc = pc, !.peak = watermark]
  <2>1. /\ t \in Run /\ t.pc = pc /\ t.goal = run[p].goal /\ t.day = run[p].day
        /\ t.peak = watermark
    BY <1>1, <1>2 DEF Run
  <2>2. run' = [run EXCEPT ![p] = t]
    BY <1>5
  <2> HIDE DEF t
  <2>3. run'[p] = t
    BY <1>1, <2>2 DEF TypeOK
  <2>4. watermark >= watermark
    BY <1>2 DEF Days
  <2>5. RangeOK(p)'
    BY <1>1, <1>2, <2>1, <2>3 DEF RangeOK
  <2>6. BuildOK(p)' /\ PeakOK(p)'
    BY <1>2, <1>5, <2>1, <2>3, <2>4 DEF BuildOK, PeakOK
  <2> QED BY <1>1, <2>1, <2>2, <2>5, <2>6, QuietRunStep
<1> QED BY <1>3, <1>4, <1>5 DEF AskActive

\* Steps of a run that only look at its directories.
LEMMA LookStep ==
    ASSUME PipelineInv, NEW p \in Runs, FindSilver(p) \/ VerifySilver(p) \/ FindDelta(p)
    PROVE  PipelineInv'
<1>1. /\ TypeOK /\ FilesInv /\ RangeOK(p) /\ BuildOK(p) /\ PeakOK(p)
      /\ run[p].pc \in {"silver", "verify", "delta"}
      /\ UNCHANGED <<files, posts, service, trouble>>
  BY DEF PipelineInv, RunInv, FindSilver, VerifySilver, FindDelta
<1>2. UNCHANGED <<raw, silver, watermark>>
  BY <1>1 DEF files, service, served
<1>3. CASE Exit(p)
  BY <1>1, <1>3, ExitStep
<1>4. ASSUME NEW pc \in {"claim", "verify", "delta", "keepDelta", "publish"}, Goto(p, pc),
             pc = "verify" => silver[run[p].day] # {},
             pc \in {"delta", "keepDelta"} => silver[run[p].day] # {} /\ OwnDayOnly(run[p].day)
      PROVE  PipelineInv'
  <2>1. PICK t \in Run : /\ run' = [run EXCEPT ![p] = t] /\ run'[p] = t
                         /\ t.pc = pc /\ t.goal = run[p].goal /\ t.day = run[p].day
                         /\ t.peak = run[p].peak
    BY <1>1, <1>4, GoesOn
  <2>2. RangeOK(p)' /\ PeakOK(p)'
    BY <1>1, <1>2, <2>1 DEF RangeOK, PeakOK
  <2>3. BuildOK(p)'
    BY <1>2, <1>4, <2>1 DEF BuildOK, OwnDayOnly
  <2> QED BY <1>1, <2>1, <2>2, <2>3, QuietRunStep
<1>5. CASE FindSilver(p)
  BY <1>3, <1>4, <1>5 DEF FindSilver
<1>6. CASE VerifySilver(p)
  BY <1>1, <1>3, <1>4, <1>6 DEF VerifySilver, BuildOK
<1>7. CASE FindDelta(p)
  BY <1>1, <1>3, <1>4, <1>7 DEF FindDelta, BuildOK
<1> QED BY <1>5, <1>6, <1>7

LEMMA ClaimRawStep ==
    ASSUME PipelineInv, NEW p \in Runs, ClaimRaw(p)
    PROVE  PipelineInv'
<1>1. /\ TypeOK /\ RangeOK(p) /\ PeakOK(p) /\ run[p].pc = "claim" /\ run[p] \in Run
      /\ UNCHANGED <<files, posts, service, trouble>>
  BY DEF PipelineInv, RunInv, ClaimRaw, TypeOK
<1>2. UNCHANGED <<raw, watermark>>
  BY <1>1 DEF files, service, served
<1>3. run[p].day \in Days /\ run[p].day \in run[p].day..run[p].goal
  BY <1>1 DEF Run, RangeOK, Days
<1>4. raw[run[p].day] \in Revisions \cup {0} /\ raw[run[p].day] # 0
  BY <1>1, <1>3 DEF RangeOK, TypeOK
<1>5. CASE Exit(p)
  BY <1>1, <1>5, ExitStep
<1>6. CASE run' = [run EXCEPT ![p].pc = "rows", ![p].claimed = raw[run[p].day]]
  <2> DEFINE t == [run[p] EXCEPT !.pc = "rows", !.claimed = raw[run[p].day]]
  <2>1. /\ t \in Run /\ t.pc = "rows" /\ t.claimed # 0 /\ t.goal = run[p].goal
        /\ t.day = run[p].day /\ t.peak = run[p].peak
    BY <1>1, <1>4 DEF Run
  <2>2. run' = [run EXCEPT ![p] = t]
    BY <1>6
  <2> HIDE DEF t
  <2>3. run'[p] = t
    BY <1>1, <2>2 DEF TypeOK
  <2>4. RangeOK(p)' /\ BuildOK(p)' /\ PeakOK(p)'
    BY <1>1, <1>2, <2>1, <2>3 DEF RangeOK, BuildOK, PeakOK
  <2> QED BY <1>1, <2>1, <2>2, <2>4, QuietRunStep
<1> QED BY <1>5, <1>6 DEF ClaimRaw

LEMMA ReadRawStep ==
    ASSUME PipelineInv, NEW p \in Runs, ReadRaw(p)
    PROVE  PipelineInv'
<1> DEFINE t == [run[p] EXCEPT !.pc = "keepSilver", !.rows = raw[run[p].day]]
<1>1. /\ TypeOK /\ RangeOK(p) /\ BuildOK(p) /\ PeakOK(p) /\ run[p].pc = "rows"
      /\ run[p] \in Run
      /\ UNCHANGED <<files, posts, service, trouble>>
  BY DEF PipelineInv, RunInv, ReadRaw, TypeOK
<1>2. UNCHANGED <<raw, watermark>>
  BY <1>1 DEF files, service, served
<1>3. run[p].day \in Days /\ run[p].day \in run[p].day..run[p].goal
  BY <1>1 DEF Run, RangeOK, Days
<1>4. raw[run[p].day] \in Revisions \cup {0} /\ raw[run[p].day] # 0
  BY <1>1, <1>3 DEF RangeOK, TypeOK
<1>5. /\ t \in Run /\ t.pc = "keepSilver" /\ t.claimed = run[p].claimed /\ t.rows # 0
      /\ t.goal = run[p].goal /\ t.day = run[p].day /\ t.peak = run[p].peak
  BY <1>1, <1>4 DEF Run
<1>6. CASE Exit(p)
  BY <1>1, <1>6, ExitStep
<1>7. CASE run' = [run EXCEPT ![p].pc = "keepSilver", ![p].rows = raw[run[p].day]]
  <2>1. run' = [run EXCEPT ![p] = t]
    BY <1>7
  <2> HIDE DEF t
  <2>2. run'[p] = t
    BY <1>1, <2>1 DEF TypeOK
  <2>3. RangeOK(p)' /\ BuildOK(p)' /\ PeakOK(p)'
    BY <1>1, <1>2, <1>5, <2>2 DEF RangeOK, BuildOK, PeakOK
  <2> QED BY <1>1, <1>5, <2>1, <2>3, QuietRunStep
<1> QED BY <1>6, <1>7 DEF ReadRaw

\* A data set appears where there was none.
LEMMA KeepSilverStep ==
    ASSUME PipelineInv, NEW p \in Runs, KeepSilver(p)
    PROVE  PipelineInv'
<1>1. /\ TypeOK /\ FilesInv /\ PureInv /\ RangeOK(p) /\ BuildOK(p) /\ PeakOK(p)
      /\ run[p].pc = "keepSilver" /\ run[p] \in Run
      /\ UNCHANGED <<raw, delta, receipts, losses, posts, service, trouble>>
  BY DEF PipelineInv, RunInv, KeepSilver, TypeOK
<1>2. CASE Exit(p) /\ UNCHANGED silver
  BY <1>1, <1>2, ExitStep DEF files
<1> DEFINE s == [claimed |-> run[p].claimed, rows |-> run[p].rows,
                 builder |-> p, losses |-> losses]
<1>3. CASE /\ silver[run[p].day] = {}
           /\ silver' = [silver EXCEPT ![run[p].day] = {s}]
           /\ run' = [run EXCEPT ![p].pc = "verify", ![p].claimed = 0, ![p].rows = 0]
  <2>1. s \in Silver /\ run[p].day \in Days
    <3>1. losses \in 0..MaxTrouble
      BY <1>1, PipelineAssumption DEF TypeOK
    <3> QED BY <1>1, <3>1 DEF BuildOK, Run, Silver
  <2> HIDE DEF s
  <2>2. /\ silver' \in [Days -> SUBSET Silver] /\ silver'[run[p].day] = {s}
        /\ \A d \in Days \ {run[p].day} : silver'[d] = silver[d]
    BY <1>1, <1>3, <2>1 DEF FilesInv
  <2> DEFINE t == [run[p] EXCEPT !.pc = "verify", !.claimed = 0, !.rows = 0]
  <2>3. /\ t \in Run /\ t.pc = "verify" /\ t.goal = run[p].goal /\ t.day = run[p].day
        /\ t.peak = run[p].peak
    BY <1>1 DEF Run
  <2>4. run' = [run EXCEPT ![p] = t]
    BY <1>3
  <2> HIDE DEF t
  <2>5. run'[p] = t
    BY <1>1, <2>4 DEF TypeOK
  <2>6. RangeOK(p)' /\ BuildOK(p)' /\ PeakOK(p)'
    BY <1>1, <2>2, <2>3, <2>5 DEF RangeOK, BuildOK, PeakOK, service, served
  <2>7. TypeOK'
    <3>1. \A d \in Days : silver'[d] = {} \/ \E x \in Silver : silver'[d] = {x}
      BY <1>1, <2>1, <2>2 DEF TypeOK
    <3>2. run' \in [Runs -> Run]
      BY <1>1, <2>3, <2>4 DEF TypeOK
    <3> QED BY <1>1, <3>1, <3>2 DEF TypeOK, service, served
  <2>8. \A d \in Days : silver[d] \in {{}, silver'[d]}
    BY <1>3, <2>2
  <2>9. delta' \in [Days -> SUBSET Bundle] /\ \A d \in Days : \A b \in delta'[d] : Pure(b)
    BY <1>1 DEF FilesInv, PureInv
  <2> QED BY <1>1, <2>2, <2>3, <2>4, <2>6, <2>7, <2>8, <2>9, RunStep
<1> QED BY <1>2, <1>3 DEF KeepSilver

\* A bundle appears where there was none, from a data set of its own day.
LEMMA KeepDeltaStep ==
    ASSUME PipelineInv, NEW p \in Runs, KeepDelta(p)
    PROVE  PipelineInv'
<1>1. /\ TypeOK /\ FilesInv /\ PureInv /\ RangeOK(p) /\ BuildOK(p) /\ PeakOK(p)
      /\ run[p].pc = "keepDelta" /\ run[p] \in Run
      /\ UNCHANGED <<raw, silver, receipts, losses, posts, service, trouble>>
  BY DEF PipelineInv, RunInv, KeepDelta, TypeOK
<1>2. CASE Exit(p) /\ UNCHANGED delta
  BY <1>1, <1>2, ExitStep DEF files
<1> DEFINE b == NewBundle(p)
<1>3. CASE /\ delta' = [delta EXCEPT ![run[p].day] = {b}]
           /\ Goto(p, "publish")
  <2>1. PICK src \in silver[run[p].day] : src = CHOOSE s \in silver[run[p].day] : TRUE
    BY <1>1 DEF BuildOK
  <2>2. b = [day |-> run[p].day, source |-> src, builder |-> p]
    BY <2>1 DEF NewBundle
  <2>3. run[p].day \in Days /\ src \in Silver /\ InSilver(run[p].day, src.rows) = {"own"}
    BY <1>1, <2>1 DEF BuildOK, OwnDayOnly, FilesInv, Run
  <2>4. b \in Bundle /\ b.day = run[p].day /\ Pure(b)
    BY <2>2, <2>3 DEF Bundle, Pure
  <2> HIDE DEF b
  <2>5. /\ delta' \in [Days -> SUBSET Bundle] /\ delta'[run[p].day] = {b}
        /\ \A d \in Days \ {run[p].day} : delta'[d] = delta[d]
    BY <1>1, <1>3, <2>3, <2>4 DEF FilesInv
  <2>6. PICK t \in Run : /\ run' = [run EXCEPT ![p] = t] /\ run'[p] = t
                         /\ t.pc = "publish" /\ t.goal = run[p].goal /\ t.day = run[p].day
                         /\ t.peak = run[p].peak
    BY <1>1, <1>3, GoesOn
  <2>7. RangeOK(p)' /\ BuildOK(p)' /\ PeakOK(p)'
    BY <1>1, <2>6 DEF RangeOK, BuildOK, PeakOK, service, served
  <2>8. TypeOK'
    <3>1. \A d \in Days : delta'[d] = {} \/ \E x \in Bundle : delta'[d] = {x} /\ x.day = d
      BY <1>1, <2>4, <2>5 DEF TypeOK
    <3>2. run' \in [Runs -> Run]
      BY <1>1, <2>6 DEF TypeOK
    <3> QED BY <1>1, <3>1, <3>2 DEF TypeOK, service, served
  <2>9. silver' \in [Days -> SUBSET Silver] /\ \A d \in Days : silver[d] \in {{}, silver'[d]}
    BY <1>1 DEF FilesInv
  <2>10. \A d \in Days : \A x \in delta'[d] : Pure(x)
    BY <1>1, <2>4, <2>5 DEF PureInv
  <2> QED BY <1>1, <2>5, <2>6, <2>7, <2>8, <2>9, <2>10, RunStep
<1> QED BY <1>2, <1>3 DEF KeepDelta

LEMMA WriteReceiptStep ==
    ASSUME PipelineInv, NEW p \in Runs, WriteReceipt(p)
    PROVE  PipelineInv'
<1>1. /\ TypeOK /\ FilesInv /\ PureInv /\ RangeOK(p) /\ PeakOK(p)
      /\ run[p].pc = "receipt" /\ run[p] \in Run /\ run[p].day \in Days
      /\ receipts' = receipts \cup {run[p].day} /\ DayDone(p)
      /\ UNCHANGED <<raw, silver, delta, losses, posts, service, trouble>>
  BY DEF PipelineInv, RunInv, WriteReceipt, TypeOK, Run
<1>2. run[p].peak >= watermark /\ run[p].peak >= run[p].day
  BY <1>1 DEF PeakOK
<1>3. PICK t \in Run :
        /\ run' = [run EXCEPT ![p] = t] /\ run'[p] = t
        /\ t.day <= t.goal /\ t.goal \in {t.day, LastDay}
        /\ \A d \in t.day..t.goal : raw[d] # 0
        /\ \/ t.pc = "active"
           \/ t.pc = "completed" /\ t.peak >= watermark /\ t.peak >= t.goal
  BY <1>1, <1>2, DayDoneIs
<1>4. RangeOK(p)' /\ BuildOK(p)' /\ PeakOK(p)'
  BY <1>1, <1>3 DEF RangeOK, BuildOK, PeakOK, service, served
<1>5. TypeOK'
  <2>1. run' \in [Runs -> Run]
    BY <1>1, <1>3 DEF TypeOK
  <2> QED BY <1>1, <2>1 DEF TypeOK, service, served
<1>6. /\ silver' \in [Days -> SUBSET Silver] /\ \A d \in Days : silver[d] \in {{}, silver'[d]}
      /\ delta' \in [Days -> SUBSET Bundle] /\ \A d \in Days : \A b \in delta'[d] : Pure(b)
  BY <1>1 DEF FilesInv, PureInv
<1> QED BY <1>1, <1>3, <1>4, <1>5, <1>6, RunStep

\* The upload is the only one of this run, and of the day it is at.
LEMMA UploadStep ==
    ASSUME PipelineInv, NEW p \in Runs, Upload(p)
    PROVE  PipelineInv'
<1>1. /\ TypeOK /\ FilesInv /\ RunInv /\ PostInv /\ PureInv /\ KeptInv
      /\ run[p].pc = "publish" /\ run[p].day \in Days
      /\ posts' = posts \cup [by : {p}, bundle : delta[run[p].day]] /\ Goto(p, "await")
      /\ UNCHANGED <<raw, silver, delta, receipts, losses, version, watermark, days, merged, kept, trouble>>
  BY DEF PipelineInv, Upload, TypeOK, Run, files, service, served
<1>2. PICK t \in Run : /\ run' = [run EXCEPT ![p] = t] /\ run'[p] = t
                       /\ t.pc = "await" /\ t.goal = run[p].goal /\ t.day = run[p].day
                       /\ t.peak = run[p].peak
  BY <1>1, GoesOn
<1>3. \A q \in Runs \ {p} : run'[q] = run[q]
  BY <1>1, <1>2 DEF TypeOK
<1>4. \A b, c \in delta[run[p].day] : b = c /\ b \in Bundle /\ b.day = run[p].day /\ Pure(b)
  BY <1>1 DEF TypeOK, FilesInv, PureInv
<1>5. \A post \in posts' \ posts : /\ post \in [by : Runs \cup {None}, bundle : Bundle]
                                  /\ post.by = p /\ post.bundle \in delta[run[p].day]
  BY <1>1, <1>4
<1>6. \A post \in posts : post.by # p
  BY <1>1, Constants DEF PostInv
<1>7. TypeOK'
  BY <1>1, <1>2, <1>5 DEF TypeOK
<1>8. RunInv'
  <2>1. RangeOK(p)' /\ BuildOK(p)' /\ PeakOK(p)'
    BY <1>1, <1>2 DEF RunInv, RangeOK, BuildOK, PeakOK
  <2>2. ASSUME NEW q \in Runs \ {p} PROVE RangeOK(q)' /\ BuildOK(q)' /\ PeakOK(q)'
    BY <1>1, <1>3 DEF RunInv, RangeOK, BuildOK, PeakOK, OwnDayOnly
  <2> QED BY <2>1, <2>2 DEF RunInv
<1>9. PostInv'
  <2>1. ASSUME NEW post \in posts', post.by # None
        PROVE  run'[post.by].pc = "await" /\ run'[post.by].day = post.bundle.day
    <3>1. CASE post \in posts
      BY <1>1, <1>3, <1>6, <2>1, <3>1 DEF PostInv, TypeOK
    <3>2. CASE post \notin posts
      BY <1>2, <1>4, <1>5, <2>1, <3>2
    <3> QED BY <3>1, <3>2
  <2>2. ASSUME NEW post \in posts', NEW other \in posts', post.by # None, post.by = other.by
        PROVE  post = other
    <3>1. CASE post \in posts /\ other \in posts
      BY <1>1, <2>2, <3>1 DEF PostInv
    <3>2. CASE post \notin posts /\ other \notin posts
      BY <1>4, <1>5, <2>2, <3>2
    <3> QED BY <1>5, <1>6, <2>2, <3>1, <3>2
  <2> QED BY <2>1, <2>2 DEF PostInv
<1>10. PureInv' /\ KeptInv' /\ FilesInv'
  BY <1>1, <1>4, <1>5 DEF PureInv, KeptInv, FilesInv, Pure
<1> QED BY <1>7, <1>8, <1>9, <1>10 DEF PipelineInv

\* A run leaves while its upload may be on the way.
LEMMA LeaveStep ==
    ASSUME PipelineInv, NEW p \in Runs, Exit(p), UNCHANGED <<files, service>>,
           trouble' \in trouble..MaxTrouble,
           posts' \in {Abandoned(p), {post \in posts : post.by # p}}
    PROVE  PipelineInv'
<1>1. /\ TypeOK /\ FilesInv /\ RunInv /\ PostInv /\ PureInv /\ KeptInv
      /\ run' = [run EXCEPT ![p] = Idle]
      /\ UNCHANGED <<raw, silver, delta, receipts, losses, version, watermark, days, merged, kept>>
  BY DEF PipelineInv, Exit, files, service, served
<1>2. run'[p] = Idle /\ \A q \in Runs \ {p} : run'[q] = run[q]
  BY <1>1 DEF TypeOK
<1>3. \A new \in posts' :
        /\ new \in [by : Runs \cup {None}, bundle : Bundle]
        /\ new.by # p
        /\ \E post \in posts : new.bundle = post.bundle
        /\ new.by # None => new \in posts
  <2>1. \A post \in posts : post \in [by : Runs \cup {None}, bundle : Bundle]
    BY <1>1 DEF TypeOK
  <2>2. CASE posts' = {post \in posts : post.by # p}
    BY <2>1, <2>2
  <2>3. CASE posts' = Abandoned(p)
    <3> SUFFICES ASSUME NEW post \in posts,
                        NEW new, new = IF post.by = p THEN [post EXCEPT !.by = None] ELSE post
                 PROVE  /\ new \in [by : Runs \cup {None}, bundle : Bundle]
                        /\ new.by # p /\ new.bundle = post.bundle
                        /\ new.by # None => new \in posts
      BY <2>3 DEF Abandoned
    <3> QED BY <2>1, Constants
  <2> QED BY <2>2, <2>3
<1>4. TypeOK'
  BY <1>1, <1>3, IdleIsARun DEF TypeOK
<1>5. RunInv'
  <2>1. RangeOK(p)' /\ BuildOK(p)' /\ PeakOK(p)'
    BY <1>2, IdleIsARun DEF RangeOK, BuildOK, PeakOK
  <2>2. ASSUME NEW q \in Runs \ {p} PROVE RangeOK(q)' /\ BuildOK(q)' /\ PeakOK(q)'
    BY <1>1, <1>2 DEF RunInv, RangeOK, BuildOK, PeakOK, OwnDayOnly
  <2> QED BY <2>1, <2>2 DEF RunInv
<1>6. PostInv'
  BY <1>1, <1>2, <1>3 DEF PostInv, TypeOK
<1>7. PureInv' /\ KeptInv' /\ FilesInv'
  <2>1. \A post \in posts' : Pure(post.bundle)
    BY <1>1, <1>3 DEF PureInv
  <2> QED BY <1>1, <2>1 DEF PureInv, KeptInv, FilesInv
<1> QED BY <1>4, <1>5, <1>6, <1>7 DEF PipelineInv

LEMMA LoseFilesStep ==
    ASSUME PipelineInv, LoseFiles, trouble' = trouble + 1, trouble < MaxTrouble
    PROVE  PipelineInv'
<1>1. /\ TypeOK /\ RunInv /\ PostInv /\ PureInv /\ KeptInv
      /\ \A p \in Runs : run[p].pc = "idle"
      /\ silver' = [d \in Days |-> {}] /\ delta' = [d \in Days |-> {}] /\ receipts' = {}
      /\ UNCHANGED <<raw, run, posts, version, watermark, days, merged, kept>>
  BY DEF PipelineInv, LoseFiles, service, served
<1>2. trouble' \in 0..MaxTrouble /\ losses' \in 0..trouble'
  BY <1>1, PipelineAssumption DEF TypeOK, LoseFiles
<1>3. TypeOK' /\ FilesInv'
  BY <1>1, <1>2 DEF TypeOK, FilesInv
<1>4. RunInv' /\ PostInv' /\ PureInv' /\ KeptInv'
  BY <1>1 DEF RunInv, RangeOK, BuildOK, PeakOK, PostInv, PureInv, KeptInv
<1> QED BY <1>3, <1>4 DEF PipelineInv

\* Another revision does not take the partition away.
LEMMA DownloadStep ==
    ASSUME PipelineInv, NEW d \in Days, Download(d), trouble' \in trouble..MaxTrouble
    PROVE  PipelineInv'
<1>1. /\ TypeOK /\ FilesInv /\ RunInv /\ PostInv /\ PureInv /\ KeptInv
      /\ raw[d] < MaxRevision /\ raw' = [raw EXCEPT ![d] = @ + 1]
      /\ UNCHANGED <<silver, delta, receipts, losses, run, posts, version, watermark, days, merged, kept>>
  BY DEF PipelineInv, Download, service, served
<1>2. raw' \in [Days -> Revisions \cup {0}] /\ \A e \in Days : raw[e] # 0 => raw'[e] # 0
  BY <1>1, Constants DEF TypeOK, Revisions
<1>3. TypeOK'
  BY <1>1, <1>2 DEF TypeOK
<1>4. ASSUME NEW p \in Runs PROVE RangeOK(p)' /\ BuildOK(p)' /\ PeakOK(p)'
  <2>1. run[p].day \in Days /\ run[p].goal \in Days
    BY <1>1 DEF TypeOK, Run
  <2>2. \A e \in run[p].day..run[p].goal : e \in Days
    BY <2>1, Constants DEF Days
  <2> QED BY <1>1, <1>2, <2>2 DEF RunInv, RangeOK, BuildOK, PeakOK, OwnDayOnly
<1>5. PostInv' /\ PureInv' /\ KeptInv' /\ FilesInv'
  BY <1>1 DEF PostInv, PureInv, KeptInv, FilesInv
<1> QED BY <1>3, <1>4, <1>5 DEF PipelineInv, RunInv

LEMMA ReportStep ==
    ASSUME PipelineInv, NEW p \in Runs, Report(p) \/ LoseAnswer(p)
    PROVE  PipelineInv'
<1>1. Exit(p) /\ UNCHANGED <<files, posts, service, trouble>>
  BY DEF Report, LoseAnswer
<1>2. run[p].pc = "await" => \A post \in posts : post.by # p
  BY DEF Report, LoseAnswer, Uploading
<1> QED BY <1>1, <1>2, ExitStep

------------------------------------------------------------------------------
(* The steps of the service.                                                 *)

\* Every run sees the watermark that is served now, and nothing else of it changes.
LEMMA PeakedIs ==
    ASSUME NEW runs \in [Runs -> Run], watermark' \in Days \cup {0}
    PROVE  /\ Peaked(runs) \in [Runs -> Run]
           /\ \A q \in Runs :
                /\ Peaked(runs)[q].pc = runs[q].pc
                /\ Peaked(runs)[q].goal = runs[q].goal
                /\ Peaked(runs)[q].day = runs[q].day
                /\ Peaked(runs)[q].claimed = runs[q].claimed
                /\ Peaked(runs)[q].rows = runs[q].rows
                /\ Peaked(runs)[q].peak >= runs[q].peak
                /\ runs[q].pc \notin {"idle", "active"} => Peaked(runs)[q].peak >= watermark'
<1>1. SUFFICES ASSUME NEW q \in Runs
               PROVE  /\ Peaked(runs)[q] \in Run
                      /\ Peaked(runs)[q].pc = runs[q].pc
                      /\ Peaked(runs)[q].goal = runs[q].goal
                      /\ Peaked(runs)[q].day = runs[q].day
                      /\ Peaked(runs)[q].claimed = runs[q].claimed
                      /\ Peaked(runs)[q].rows = runs[q].rows
                      /\ Peaked(runs)[q].peak >= runs[q].peak
                      /\ runs[q].pc \notin {"idle", "active"} => Peaked(runs)[q].peak >= watermark'
  BY DEF Peaked
<1> DEFINE h == IF runs[q].pc \notin {"idle", "active"} /\ watermark' > runs[q].peak
                THEN watermark' ELSE runs[q].peak
<1>2. Peaked(runs)[q] = [runs[q] EXCEPT !.peak = h]
  BY DEF Peaked
<1>3. runs[q] \in Run /\ runs[q].peak \in Days \cup {0} /\ runs[q].peak \in Int /\ watermark' \in Int
  BY DEF Run, Days
<1>4. /\ h \in Days \cup {0} /\ h >= runs[q].peak
      /\ runs[q].pc \notin {"idle", "active"} => h >= watermark'
  BY <1>3
<1> HIDE DEF h
<1> QED BY <1>2, <1>3, <1>4 DEF Run

LEMMA AnsweredIs ==
    ASSUME PipelineInv, NEW post \in posts, NEW x \in {"idle", "receipt"}
    PROVE  /\ Answered(post, x) \in [Runs -> Run]
           /\ \A q \in Runs : q # post.by => Answered(post, x)[q] = run[q]
           /\ \A q \in Runs : q = post.by =>
                \/ x = "idle" /\ Answered(post, x)[q] = Idle
                \/ /\ x = "receipt" /\ Answered(post, x)[q].pc = "receipt"
                   /\ Answered(post, x)[q].goal = run[q].goal
                   /\ Answered(post, x)[q].day = run[q].day
                   /\ Answered(post, x)[q].peak = run[q].peak
<1>1. run \in [Runs -> Run] /\ post.by \in Runs \cup {None} /\ Idle \in Run
  BY IdleIsARun DEF PipelineInv, TypeOK
<1>2. CASE post.by = None
  BY <1>1, <1>2, Constants DEF Answered
<1>3. CASE post.by \in Runs /\ x = "idle"
  BY <1>1, <1>3, Constants DEF Answered
<1>4. CASE post.by \in Runs /\ x = "receipt"
  <2> DEFINE t == [run[post.by] EXCEPT !.pc = "receipt"]
  <2>1. /\ t \in Run /\ t.pc = "receipt" /\ t.goal = run[post.by].goal
        /\ t.day = run[post.by].day /\ t.peak = run[post.by].peak
    BY <1>1, <1>4 DEF Run
  <2>2. Answered(post, x) = [run EXCEPT ![post.by] = t]
    BY <1>4, Constants DEF Answered
  <2> HIDE DEF t
  <2> QED BY <1>1, <1>4, <2>1, <2>2
<1> QED BY <1>1, <1>2, <1>3, <1>4

\* Runs that see a new watermark stay as they should be.
LEMMA SeenStep ==
    ASSUME PipelineInv, NEW runs \in [Runs -> Run], run' = Peaked(runs),
           watermark' \in Days \cup {0}, UNCHANGED <<raw, silver>>,
           \A q \in Runs :
                \/ runs[q] = run[q]
                \/ runs[q] = Idle
                \/ /\ run[q].pc = "await" /\ runs[q].pc = "receipt"
                   /\ runs[q].goal = run[q].goal /\ runs[q].day = run[q].day
                   /\ run[q].day <= watermark'
    PROVE  RunInv'
<1>1. RunInv /\ \A q \in Runs : run[q] \in Run /\ runs[q] \in Run /\ run'[q] \in Run
  BY PeakedIs DEF PipelineInv, TypeOK
<1> SUFFICES ASSUME NEW q \in Runs
             PROVE  RangeOK(q)' /\ BuildOK(q)' /\ PeakOK(q)'
  BY DEF RunInv
<1>2. RangeOK(q) /\ BuildOK(q) /\ PeakOK(q)
  BY <1>1 DEF RunInv
<1>3. /\ run'[q].pc = runs[q].pc /\ run'[q].goal = runs[q].goal /\ run'[q].day = runs[q].day
      /\ run'[q].claimed = runs[q].claimed /\ run'[q].rows = runs[q].rows
      /\ run'[q].peak >= runs[q].peak
      /\ runs[q].pc \notin {"idle", "active"} => run'[q].peak >= watermark'
  BY PeakedIs
<1>4. /\ run'[q].peak \in Int /\ runs[q].peak \in Int /\ run[q].peak \in Int /\ watermark' \in Int
      /\ run[q].day \in Int /\ run[q].goal \in Int
  BY <1>1 DEF Run, Days
<1>5. CASE runs[q] = run[q]
  BY <1>2, <1>3, <1>4, <1>5 DEF RangeOK, BuildOK, PeakOK, OwnDayOnly
<1>6. CASE runs[q] = Idle
  BY <1>3, <1>6, IdleIsARun DEF RangeOK, BuildOK, PeakOK
<1>7. CASE /\ run[q].pc = "await" /\ runs[q].pc = "receipt"
           /\ runs[q].goal = run[q].goal /\ runs[q].day = run[q].day
           /\ run[q].day <= watermark'
  BY <1>2, <1>3, <1>4, <1>7 DEF RangeOK, BuildOK, PeakOK
<1> QED BY <1>5, <1>6, <1>7

\* An upload is answered, and the run that waits for it hears of it.
LEMMA AnswerStep ==
    ASSUME PipelineInv, NEW post \in posts, NEW x \in {"idle", "receipt"},
           posts' = posts \ {post}, UNCHANGED <<files, trouble>>,
           run' = Peaked(Answered(post, x)),
           version' \in Versions \cup {None}, watermark' \in Days \cup {0},
           x = "receipt" => post.bundle.day <= watermark',
           merged' \subseteq Bundle, kept' \subseteq kept \cup {post.bundle}, KeptInv'
    PROVE  PipelineInv'
<1>1. /\ TypeOK /\ FilesInv /\ PostInv /\ PureInv
      /\ UNCHANGED <<raw, silver, delta, receipts, losses, trouble>>
      /\ post \in [by : Runs \cup {None}, bundle : Bundle]
  BY DEF PipelineInv, files, TypeOK
<1>2. PICK runs \in [Runs -> Run] : runs = Answered(post, x)
  BY AnsweredIs
<1>3. run' = Peaked(runs)
  BY <1>2
<1>4. \A q \in Runs : q = post.by =>
         run[q].pc = "await" /\ run[q].day = post.bundle.day
  BY <1>1, Constants DEF PostInv
<1>5. \A q \in Runs :
                \/ runs[q] = run[q]
                \/ runs[q] = Idle
                \/ /\ run[q].pc = "await" /\ runs[q].pc = "receipt"
                   /\ runs[q].goal = run[q].goal /\ runs[q].day = run[q].day
                   /\ run[q].day <= watermark'
  BY <1>2, <1>4, AnsweredIs
<1>6. RunInv'
  BY <1>1, <1>3, <1>5, SeenStep
<1>7. run' \in [Runs -> Run] /\ \A q \in Runs : q # post.by => run'[q].pc = run[q].pc /\ run'[q].day = run[q].day
  BY <1>2, <1>3, AnsweredIs, PeakedIs
<1>8. TypeOK'
  BY <1>1, <1>7 DEF TypeOK
<1>9. PostInv'
  <2>1. ASSUME NEW other \in posts', other.by # None
        PROVE  run'[other.by].pc = "await" /\ run'[other.by].day = other.bundle.day
    <3>1. other \in posts /\ other # post /\ other.by \in Runs
      BY <1>1, <2>1 DEF TypeOK
    <3>2. other.by # post.by
      BY <1>1, <2>1, <3>1 DEF PostInv
    <3> QED BY <1>1, <1>7, <2>1, <3>1, <3>2 DEF PostInv
  <2> QED BY <1>1, <2>1 DEF PostInv
<1>10. PureInv' /\ FilesInv'
  BY <1>1 DEF PureInv, FilesInv, Pure
<1> QED BY <1>6, <1>8, <1>9, <1>10 DEF PipelineInv

\* Whatever the service makes of an upload.
LEMMA ServeStep ==
    ASSUME PipelineInv, NEW post \in posts, Serve(post)
    PROVE  PipelineInv'
<1>1. /\ TypeOK /\ KeptInv /\ posts' = posts \ {post} /\ UNCHANGED <<files, trouble>>
      /\ post.bundle \in Bundle /\ post.bundle.day \in Days /\ watermark \in Days \cup {0}
  BY DEF PipelineInv, Serve, TypeOK, Bundle
<1>2. ~Conflicts(post.bundle) =>
        \A a, b \in kept \cup {post.bundle} : a.day = b.day => a = b
  BY <1>1 DEF Conflicts, KeptInv
<1>3. CASE Refuse(post)
  <2>1. /\ run' = Peaked(Answered(post, "idle"))
        /\ UNCHANGED <<version, watermark, merged, kept>>
    BY <1>3 DEF Refuse, service, served
  <2>2. KeptInv'
    BY <1>1, <2>1 DEF KeptInv
  <2>3. /\ version' \in Versions \cup {None} /\ watermark' \in Days \cup {0}
        /\ merged' \subseteq Bundle /\ kept' \subseteq kept \cup {post.bundle}
    BY <1>1, <2>1 DEF TypeOK
  <2> QED BY <1>1, <2>1, <2>2, <2>3, AnswerStep
<1>4. CASE RefuseDay(post)
  <2>1. /\ run' = Peaked(Answered(post, "idle")) /\ ~Conflicts(post.bundle)
        /\ kept' = kept \cup {post.bundle}
        /\ UNCHANGED <<version, watermark, merged>>
    BY <1>4 DEF RefuseDay, served
  <2>2. KeptInv'
    BY <1>1, <1>2, <2>1 DEF KeptInv
  <2>3. /\ version' \in Versions \cup {None} /\ watermark' \in Days \cup {0}
        /\ merged' \subseteq Bundle /\ kept' \subseteq kept \cup {post.bundle}
    BY <1>1, <2>1 DEF TypeOK
  <2> QED BY <1>1, <2>1, <2>2, <2>3, AnswerStep
<1>5. CASE Acknowledge(post)
  <2>1. /\ run' = Peaked(Answered(post, "receipt")) /\ ~Conflicts(post.bundle)
        /\ post.bundle \in merged
        /\ kept' = kept \cup {post.bundle}
        /\ UNCHANGED <<version, watermark, merged>>
    BY <1>5 DEF Acknowledge, served
  <2>2. KeptInv' /\ post.bundle.day <= watermark'
    BY <1>1, <1>2, <2>1 DEF KeptInv
  <2>3. /\ version' \in Versions \cup {None} /\ watermark' \in Days \cup {0}
        /\ merged' \subseteq Bundle /\ kept' \subseteq kept \cup {post.bundle}
    BY <1>1, <2>1 DEF TypeOK
  <2> QED BY <1>1, <2>1, <2>2, <2>3, AnswerStep
<1>6. CASE Merge(post)
  <2>1. /\ run' = Peaked(Answered(post, "receipt")) /\ ~Conflicts(post.bundle)
        /\ watermark = post.bundle.day - 1
        /\ merged' = merged \cup {post.bundle} /\ kept' = kept \cup {post.bundle}
        /\ version \in Versions /\ version' = version /\ watermark' = watermark + 1
    BY <1>6 DEF Merge, Service!AddDay, Service!Serve
  <2>2. watermark' = post.bundle.day /\ watermark' \in Days \cup {0} /\ watermark' >= watermark
        /\ post.bundle.day <= watermark'
    BY <1>1, <2>1 DEF Days
  <2>3. KeptInv'
    <3>1. \A b \in merged' : b.day <= watermark'
      <4> SUFFICES ASSUME NEW b \in merged PROVE b.day <= watermark'
        BY <2>1, <2>2
      <4>1. b.day \in Int /\ b.day <= watermark /\ watermark \in Int /\ watermark' \in Int
        BY <1>1, <2>2 DEF KeptInv, TypeOK, Bundle, Days
      <4> QED BY <2>2, <4>1
    <3> QED BY <1>1, <1>2, <2>1, <3>1 DEF KeptInv
  <2>4. /\ version' \in Versions \cup {None} /\ merged' \subseteq Bundle
        /\ kept' \subseteq kept \cup {post.bundle}
    BY <1>1, <2>1 DEF TypeOK
  <2> QED BY <1>1, <2>1, <2>2, <2>3, <2>4, AnswerStep
<1> QED BY <1>3, <1>4, <1>5, <1>6 DEF Serve

\* An activation starts the deltas anew: whatever of them is past its watermark is kept.
LEMMA ActivateStep ==
    ASSUME PipelineInv, NEW v \in Versions, Activate(v), trouble' \in trouble..MaxTrouble
    PROVE  PipelineInv'
<1>1. /\ TypeOK /\ FilesInv /\ PostInv /\ PureInv /\ KeptInv
      /\ version' = v /\ watermark' = SourceWatermark[v]
      /\ merged' = {} /\ kept' = {b \in kept : b.day > SourceWatermark[v]}
      /\ run' = Peaked(run)
      /\ UNCHANGED <<raw, silver, delta, receipts, losses, posts>>
  BY DEF PipelineInv, Activate, Service!Serve, files
<1>2. run \in [Runs -> Run] /\ watermark' \in Days \cup {0}
  BY <1>1, Constants DEF TypeOK
<1>3. RunInv'
  BY <1>1, <1>2, SeenStep
<1>4. run' \in [Runs -> Run] /\ \A q \in Runs : run'[q].pc = run[q].pc /\ run'[q].day = run[q].day
  BY <1>1, <1>2, PeakedIs
<1>5. TypeOK'
  BY <1>1, <1>2, <1>4 DEF TypeOK
<1>6. PostInv'
  <2>1. \A post \in posts : post.by \in Runs \cup {None}
    BY <1>1 DEF TypeOK
  <2> QED BY <1>1, <1>4, <2>1 DEF PostInv
<1>7. PureInv' /\ KeptInv' /\ FilesInv'
  BY <1>1 DEF PureInv, KeptInv, FilesInv
<1> QED BY <1>3, <1>5, <1>6, <1>7 DEF PipelineInv

\* A stop may leave the directory of one upload, and takes days away.
LEMMA StopStep ==
    ASSUME PipelineInv, Stop, trouble' \in trouble..MaxTrouble
    PROVE  PipelineInv'
<1>1. /\ TypeOK /\ FilesInv /\ RunInv /\ PureInv /\ KeptInv
      /\ merged' = {b \in merged : b.day <= watermark'} /\ posts' = {}
      /\ version \in Versions /\ version' = version
      /\ UNCHANGED <<raw, silver, delta, receipts, losses, run>>
  BY DEF PipelineInv, Stop, files, Service!LoseDays, Service!Serve
<1>2. PICK w \in SourceWatermark[version]..watermark : watermark' = w
  BY DEF Stop, Service!LoseDays, Service!Serve
<1>3. watermark' \in Days \cup {0} /\ watermark' <= watermark
  <2>1. SourceWatermark[version] \in Days \cup {0} /\ watermark \in Days \cup {0}
    BY <1>1, Constants DEF TypeOK
  <2> QED BY <1>2, <2>1, Constants DEF Days
<1>4. PICK under \in {{}} \cup {{post.bundle} : post \in posts} :
        /\ \A b \in under : ~Conflicts(b)
        /\ kept' = kept \cup under
  BY DEF Stop
<1>5. /\ \A b \in under : b \in Bundle /\ Pure(b)
      /\ \A a, b \in under : a = b
  BY <1>1, <1>4 DEF TypeOK, PureInv
<1>6. TypeOK'
  BY <1>1, <1>3, <1>4, <1>5 DEF TypeOK
<1>7. RunInv'
  <2> SUFFICES ASSUME NEW q \in Runs PROVE RangeOK(q)' /\ BuildOK(q)' /\ PeakOK(q)'
    BY DEF RunInv
  <2>1. watermark \in Int /\ watermark' \in Int /\ run[q].peak \in Int
    BY <1>1, <1>3 DEF TypeOK, Run, Days
  <2> QED BY <1>1, <1>3, <2>1 DEF RunInv, RangeOK, BuildOK, PeakOK, OwnDayOnly
<1>8. KeptInv'
  <2>1. \A a, b \in kept' : a.day = b.day => a = b
    BY <1>1, <1>4, <1>5 DEF KeptInv, Conflicts
  <2> QED BY <1>1, <1>4, <2>1 DEF KeptInv
<1>9. PostInv' /\ PureInv' /\ FilesInv'
  BY <1>1, <1>4, <1>5 DEF PostInv, PureInv, FilesInv
<1> QED BY <1>6, <1>7, <1>8, <1>9 DEF PipelineInv

LEMMA TroubleStep ==
    ASSUME PipelineInv, Trouble
    PROVE  PipelineInv'
<1>1. trouble' \in trouble..MaxTrouble /\ trouble' = trouble + 1 /\ trouble < MaxTrouble
  BY PipelineAssumption DEF Trouble, PipelineInv, TypeOK
<1>2. CASE \E p \in Runs : GiveUp(p) \/ Kill(p)
  BY <1>1, <1>2, LeaveStep DEF GiveUp, Kill
<1>3. CASE \E d \in Days : Download(d)
  BY <1>1, <1>3, DownloadStep
<1>4. CASE \E v \in Versions : Activate(v)
  BY <1>1, <1>4, ActivateStep
<1>5. CASE Stop
  BY <1>1, <1>5, StopStep
<1>6. CASE LoseFiles
  BY <1>1, <1>6, LoseFilesStep
<1> QED BY <1>2, <1>3, <1>4, <1>5, <1>6 DEF Trouble

------------------------------------------------------------------------------
(* The invariant.                                                            *)

LEMMA InitInv == Init => PipelineInv
<1> SUFFICES ASSUME Init PROVE PipelineInv
  OBVIOUS
<1>1. /\ raw \in [Days -> {0, 1}] /\ silver = [d \in Days |-> {}] /\ delta = [d \in Days |-> {}]
      /\ receipts = {} /\ losses = 0 /\ run = [p \in Runs |-> Idle] /\ posts = {}
      /\ version = None /\ watermark = 0 /\ merged = {} /\ kept = {} /\ trouble = 0
  BY DEF Init, Service!Init
<1>2. TypeOK /\ FilesInv
  <2>1. 1 \in Revisions
    BY Constants DEF Revisions
  <2>2. raw \in [Days -> Revisions \cup {0}] /\ trouble \in 0..MaxTrouble /\ losses \in 0..trouble
    BY <1>1, <2>1, PipelineAssumption
  <2> QED BY <1>1, <2>2, IdleIsARun DEF TypeOK, FilesInv
<1>3. RunInv
  BY <1>1, IdleIsARun DEF RunInv, RangeOK, BuildOK, PeakOK
<1>4. PostInv /\ PureInv /\ KeptInv
  BY <1>1 DEF PostInv, PureInv, KeptInv
<1> QED BY <1>2, <1>3, <1>4 DEF PipelineInv

LEMMA StutterInv == PipelineInv /\ UNCHANGED vars => PipelineInv'
<1> SUFFICES ASSUME PipelineInv, UNCHANGED vars PROVE PipelineInv'
  OBVIOUS
<1>1. UNCHANGED <<raw, silver, delta, receipts, losses, run, posts, version, watermark, merged, kept, trouble>>
  BY DEF vars, files, service, served
<1>2. TypeOK' /\ FilesInv' /\ PostInv' /\ PureInv' /\ KeptInv'
  BY <1>1 DEF PipelineInv, TypeOK, FilesInv, PostInv, PureInv, KeptInv, Pure
<1>3. RunInv'
  BY <1>1 DEF PipelineInv, RunInv, RangeOK, BuildOK, PeakOK, OwnDayOnly
<1> QED BY <1>2, <1>3 DEF PipelineInv

LEMMA Inductive == PipelineInv /\ [Next]_vars => PipelineInv'
<1> SUFFICES ASSUME PipelineInv, [Next]_vars PROVE PipelineInv'
  OBVIOUS
<1>1. ASSUME NEW p \in Runs, Step(p) PROVE PipelineInv'
  BY <1>1, AskActiveStep, LookStep, ClaimRawStep, ReadRawStep, KeepSilverStep, KeepDeltaStep,
     UploadStep, WriteReceiptStep, ReportStep DEF Step
<1>2. ASSUME NEW p \in Runs, StartCatchUp(p) \/ StartDaily(p) PROVE PipelineInv'
  BY <1>2, StartCatchUpStep, StartDailyStep
<1>3. CASE \E post \in posts : Serve(post)
  BY <1>3, ServeStep
<1>4. CASE FirstActivation
  <2>1. trouble' \in trouble..MaxTrouble
    BY <1>4 DEF FirstActivation, PipelineInv, TypeOK
  <2> QED BY <1>4, <2>1, ActivateStep DEF FirstActivation
<1>5. CASE Trouble
  BY <1>5, TroubleStep
<1>6. CASE UNCHANGED vars
  BY <1>6, StutterInv
<1> QED BY <1>1, <1>2, <1>3, <1>4, <1>5, <1>6 DEF Next

\* daily.py, build.py, registry.go: the invariant of the pipeline, for any runs, days,
\* snapshots and troubles.
THEOREM PipelineInvariant == Spec => []PipelineInv
BY InitInv, Inductive, PTL DEF Spec

\* daily.py: every variable has its type; a day has at most one directory of each kind.
THEOREM TypeCorrect == Spec => []TypeOK
<1>1. PipelineInv => TypeOK
  BY DEF PipelineInv
<1> QED BY <1>1, PipelineInvariant, PTL

\* registry.go:587, daily.py:277: the service never holds two contents of a day.
THEOREM BundlesAreUnique == Spec => []OneBundlePerDay
<1>1. PipelineInv => OneBundlePerDay
  BY DEF PipelineInv, KeptInv, OneBundlePerDay
<1> QED BY <1>1, PipelineInvariant, PTL

\* build.py:374, daily.py:230: what is published for a day are events of that day and no
\* others, whoever built the data set and whatever partition it was made from.
THEOREM OtherDaysStayOut == Spec => []OnlyOwnDayIsPublished
<1>1. PipelineInv => OnlyOwnDayIsPublished
  BY DEF PipelineInv, KeptInv, PureInv, Pure, OnlyOwnDayIsPublished
<1> QED BY <1>1, PipelineInvariant, PTL

\* daily.py:168: the day that a run reports, or writes a receipt of, was served since
\* the run asked for the watermark.
THEOREM ReportsAreTrue == Spec => []CompletedMeansServed
<1>1. PipelineInv => CompletedMeansServed
  BY DEF PipelineInv, RunInv, PeakOK, CompletedMeansServed
<1> QED BY <1>1, PipelineInvariant, PTL

------------------------------------------------------------------------------
(* Finished directories.                                                     *)

\* One step: a directory appears where there was none, or all are lost together.
StaysFinished ==
    \A d \in Days : \/ /\ silver[d] \in {{}, silver'[d]}
                       /\ delta[d] \in {{}, delta'[d]}
                    \/ silver'[d] = {} /\ delta'[d] = {}

\* KeepSilver, KeepDelta and LoseFiles are the only steps that touch a directory.
LEMMA StepKeepsFinished ==
    ASSUME PipelineInv, [Next]_vars
    PROVE  StaysFinished
<1>1. FilesInv
  BY DEF PipelineInv
<1>2. CASE UNCHANGED <<silver, delta>>
  BY <1>2 DEF StaysFinished
<1>3. ASSUME NEW p \in Runs, KeepSilver(p) PROVE StaysFinished
  <2>1. CASE UNCHANGED silver
    BY <1>2, <1>3, <2>1 DEF KeepSilver
  <2>2. ASSUME NEW e, silver[e] = {}, NEW s, silver' = [silver EXCEPT ![e] = {s}], UNCHANGED delta
        PROVE  StaysFinished
    BY <1>1, <2>2 DEF StaysFinished, FilesInv
  <2> QED BY <1>3, <2>1, <2>2 DEF KeepSilver
<1>4. ASSUME NEW p \in Runs, KeepDelta(p) PROVE StaysFinished
  <2>1. CASE UNCHANGED delta
    BY <1>2, <1>4, <2>1 DEF KeepDelta
  <2>2. ASSUME NEW e, delta[e] = {}, NEW b, delta' = [delta EXCEPT ![e] = {b}], UNCHANGED silver
        PROVE  StaysFinished
    BY <1>1, <2>2 DEF StaysFinished, FilesInv
  <2> QED BY <1>4, <2>1, <2>2 DEF KeepDelta
<1>5. ASSUME NEW p \in Runs, StartCatchUp(p) \/ StartDaily(p) \/ Step(p) PROVE StaysFinished
  BY <1>2, <1>3, <1>4, <1>5 DEF StartCatchUp, StartDaily, Step, AskActive, FindSilver, ClaimRaw,
     ReadRaw, VerifySilver, FindDelta, Upload, WriteReceipt, Report, LoseAnswer, files
<1>6. CASE \E post \in posts : Serve(post)
  BY <1>2, <1>6 DEF Serve, files
<1>7. CASE FirstActivation
  BY <1>2, <1>7 DEF FirstActivation, Activate, files
<1>8. CASE Trouble
  <2>1. CASE LoseFiles
    BY <2>1 DEF LoseFiles, StaysFinished
  <2> QED BY <1>2, <1>8, <2>1 DEF Trouble, GiveUp, Kill, Download, Activate, Stop, files
<1> QED BY <1>2, <1>5, <1>6, <1>7, <1>8 DEF Next, vars, files

\* daily.py:277, build.py:155: a finished directory is never replaced by another one.
THEOREM FinishedDirectoriesStay == Spec => FinishedStays
<1>1. PipelineInv /\ [Next]_vars => [StaysFinished]_vars
  BY StepKeepsFinished
<1>2. Spec => [][StaysFinished]_vars
  BY <1>1, PipelineInvariant, PTL DEF Spec
<1> QED BY <1>2 DEF FinishedStays, StaysFinished

=============================================================================
