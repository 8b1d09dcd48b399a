---------------------------- MODULE OfficialHistory ----------------------------
(***************************************************************************)
(* Loading the official star history of ONE repository                     *)
(* (internal/handler/official_history.go, loadOfficialHistory and          *)
(* refreshOfficialHistory), with everything the load touches: the          *)
(* in-process LRU entry, the singleflight group, the SQLite cache row, the *)
(* per-repository backoff and GitHub itself.                               *)
(*                                                                         *)
(* Keys are independent in all four structures, so the module follows one  *)
(* key; other keys reach it only by pushing its LRU entry out (Evict) and  *)
(* by filling the backoff table (SweepBackoff).                            *)
(*                                                                         *)
(* A history is abstracted to two parts: the newest weeks, all of which    *)
(* are on page 1, and the older weeks on the following pages.  Each part   *)
(* is a version number; GitHub's current version of a part is the number   *)
(* of times it has changed.  Optional values are sets with at most one     *)
(* element: {} is Go's "not found".                                        *)
(***************************************************************************)
EXTENDS Integers, Sequences

CONSTANTS
    Clients,      \* requests the server handles concurrently
    MemTTL,       \* officialMemoryCacheTTL
    DbTTL,        \* officialHistoryCacheTTL
    FullAfter,    \* fullHistoryRefreshAfter
    BackoffBase,  \* backoffBase
    BackoffMax,   \* backoffMax
    Failures,     \* how a GitHub call may fail: a subset of FailureStatus
    Faults,       \* what else may happen: a subset of FaultKind
    MaxTime,      \* bound: the clock stops here
    MaxChanges    \* bound: how often GitHub changes each part

FailureStatus == {"notFound", "busy", "error"}

FaultKind == {"disconnect", "store", "restart", "switch", "evict", "sweep"}

ASSUME ConstantsAssumption ==
    /\ {MemTTL, DbTTL, FullAfter, BackoffBase, BackoffMax} \subseteq Nat \ {0}
    /\ BackoffBase <= BackoffMax
    /\ Failures \subseteq FailureStatus
    /\ Faults \subseteq FaultKind
    /\ {MaxTime, MaxChanges} \subseteq Nat

VARIABLES
    now,      \* the wall clock
    changes,  \* changes[p]: when GitHub changed part p, in order
    row,      \* the row of github_star_history_cache in the active store
    disk,     \* the part of row that a process restart finds again
    memory,   \* h.memory: the LRU entry of the key
    backoff,  \* h.backoff: the backoffState of the key
    calls,    \* h.flights: the call registered for the key
    pc,       \* where each request stands
    since,    \* when each request, or the flight it joined, arrived
    gone,     \* requests whose client has disconnected (context cancelled)
    local,    \* what the leading request holds on its stack
    answer    \* what loadOfficialHistory returns to each request

upstreamVars == <<now, changes>>
storeVars == <<row, disk>>
processVars == <<memory, backoff, calls>>
clientVars == <<pc, since, gone, local, answer>>
vars == <<upstreamVars, storeVars, processVars, clientVars>>

Parts == {"recent", "old"}

Version(p) == Len(changes[p])

\* model.GitHubStarHistoryCache: the weeks, when they were last refreshed and
\* when the whole history was last read page by page.
Value == [recent : Nat, old : Nat, fetched : Nat, full : Nat]

Status == {"none", "fresh", "stale", "canceled"} \cup FailureStatus

\* officialHistoryLoad or the error returned with it.
Answer == [status : Status, val : SUBSET Value]

NoAnswer == [status |-> "none", val |-> {}]
Refused(s) == [status |-> s, val |-> {}]
Fresh(v) == [status |-> "fresh", val |-> {v}]
Stale(v) == [status |-> "stale", val |-> {v}]

Entry == [load : Answer, expires : Nat]

\* The leader's stack: the row it read, the `now` it took after reading it and
\* the version of page 1 it has fetched.
Local == [cached : SUBSET Value, now : Nat, recent : Nat]
NoLocal == [cached |-> {}, now |-> 0, recent |-> 0]

PC == {"idle", "missed", "waiting", "lookup", "decide", "incremental",
       "first", "rest", "touch", "save", "close", "delete", "reply"}

TypeOK ==
    /\ now \in Nat
    /\ changes \in [Parts -> Seq(Nat)]
    /\ row \in SUBSET Value
    /\ disk \in SUBSET Value
    /\ memory \in SUBSET Entry
    /\ backoff \in SUBSET [failures : Nat \ {0}, until : Nat]
    /\ calls \in SUBSET [done : BOOLEAN, answer : Answer, since : Nat]
    /\ pc \in [Clients -> PC]
    /\ since \in [Clients -> Nat]
    /\ gone \in SUBSET Clients
    /\ local \in [Clients -> Local]
    /\ answer \in [Clients -> Answer]

Init ==
    /\ now = 0
    /\ changes = [p \in Parts |-> <<>>]
    /\ row = {}
    /\ disk = {}
    /\ memory = {}
    /\ backoff = {}
    /\ calls = {}
    /\ pc = [c \in Clients |-> "idle"]
    /\ since = [c \in Clients |-> 0]
    /\ gone = {}
    /\ local = [c \in Clients |-> NoLocal]
    /\ answer = [c \in Clients |-> NoAnswer]

------------------------------------------------------------------------------
(* The structures the load uses.                                             *)

\* LRU.Get: an entry is returned until it expires and removed once it has.
Live == {e \in memory : now < e.expires}

\* LRU.Set with a positive ttl.
Remember(load, expires) == {[load |-> load, expires |-> expires]}

\* refreshBackoff.allow: the states that still forbid a refresh.
Blocking == {b \in backoff : now < b.until}

\* Mutant: doubling is not capped and the sum overflows.
WindowOverflows(n) ==
    LET doubled == BackoffBase * 2^(n - 1)
    IN  IF doubled <= BackoffMax THEN doubled ELSE -doubled

\* The window after n consecutive failures: doubled from the base, capped.
Window(n) ==
    LET doubled == BackoffBase * 2^(n - 1)
    IN  IF doubled \in BackoffBase..BackoffMax THEN doubled ELSE BackoffMax

FailureCount == IF backoff = {} THEN 1 ELSE (CHOOSE b \in backoff : TRUE).failures + 1

StoreFails(c) == c \in gone \/ "store" \in Faults

------------------------------------------------------------------------------
(* loadOfficialHistory up to the flight.                                     *)

\* A request arrives; the first look into memory answers it or not.
Request(c) ==
    /\ pc[c] = "idle"
    /\ since' = [since EXCEPT ![c] = now]
    /\ memory' = Live
    /\ \/ \E e \in Live :
            /\ answer' = [answer EXCEPT ![c] = e.load]
            /\ pc' = [pc EXCEPT ![c] = "reply"]
       \/ /\ Live = {}
          /\ pc' = [pc EXCEPT ![c] = "missed"]
          /\ UNCHANGED answer
    /\ UNCHANGED <<upstreamVars, storeVars, backoff, calls, gone, local>>

\* Mutant: the flight under way is not looked up.
LeadAnyway(c) ==
    /\ pc[c] = "missed"
    /\ calls' = {[done |-> FALSE, answer |-> NoAnswer, since |-> since[c]]}
    /\ pc' = [pc EXCEPT ![c] = "lookup"]
    /\ UNCHANGED <<upstreamVars, storeVars, memory, backoff, since, gone, local, answer>>

\* Group.Do: lead the flight of the key, or wait for the one under way.  A call
\* that is already closed but not yet deleted answers at once.
Lead(c) ==
    /\ pc[c] = "missed"
    /\ calls = {}
    /\ calls' = {[done |-> FALSE, answer |-> NoAnswer, since |-> since[c]]}
    /\ pc' = [pc EXCEPT ![c] = "lookup"]
    /\ UNCHANGED <<upstreamVars, storeVars, memory, backoff, since, gone, local, answer>>

Wait(c) ==
    /\ pc[c] = "missed"
    /\ \E call \in calls :
        /\ answer' = [answer EXCEPT ![c] = call.answer]
        /\ since' = [since EXCEPT ![c] = call.since]
    /\ pc' = [pc EXCEPT ![c] = "waiting"]
    /\ UNCHANGED <<upstreamVars, storeVars, processVars, gone, local>>

\* The select of Group.Do: the closed call's result, or the caller's own
\* cancellation; either may be taken when both are there.
Receive(c) ==
    /\ pc[c] = "waiting"
    /\ answer[c] # NoAnswer
    /\ pc' = [pc EXCEPT ![c] = "reply"]
    /\ UNCHANGED <<upstreamVars, storeVars, processVars, since, gone, local, answer>>

GiveUp(c) ==
    /\ pc[c] = "waiting"
    /\ c \in gone
    /\ answer' = [answer EXCEPT ![c] = Refused("canceled")]
    /\ pc' = [pc EXCEPT ![c] = "reply"]
    /\ UNCHANGED <<upstreamVars, storeVars, processVars, since, gone, local>>

------------------------------------------------------------------------------
(* The function the leader runs.                                             *)

\* The function returns a to Group.Do.
Return(c, a) ==
    /\ answer' = [answer EXCEPT ![c] = a]
    /\ local' = [local EXCEPT ![c] = NoLocal]
    /\ pc' = [pc EXCEPT ![c] = "close"]

\* The second look into memory.  Nobody but a leader writes the entry, so
\* reading the row belongs to the same step.
LookupHit(c) ==
    /\ pc[c] = "lookup"
    /\ memory' = Live
    /\ \E e \in Live : Return(c, e.load)
    /\ UNCHANGED <<upstreamVars, storeVars, backoff, calls, since, gone>>

LookupRow(c) ==
    /\ pc[c] = "lookup"
    /\ Live = {}
    /\ memory' = {}
    /\ \/ /\ StoreFails(c)
          /\ Return(c, Refused("error"))
       \/ /\ c \notin gone
          /\ local' = [local EXCEPT ![c].cached = row]
          /\ pc' = [pc EXCEPT ![c] = "decide"]
          /\ UNCHANGED answer
    /\ UNCHANGED <<upstreamVars, storeVars, backoff, calls, since, gone>>

RowIsFresh(c) == \E v \in local[c].cached : now - v.fetched < DbTTL

\* The row is younger than its TTL.
UseFreshRow(c) ==
    /\ pc[c] = "decide"
    /\ RowIsFresh(c)
    /\ \E v \in local[c].cached :
        /\ memory' = Remember(Fresh(v), now + MemTTL)
        /\ Return(c, Fresh(v))
    /\ UNCHANGED <<upstreamVars, storeVars, backoff, calls, since, gone>>

\* Inside the backoff window: the old row, marked, for the rest of the window,
\* or "temporarily unavailable" when there is none.
Suppress(c) ==
    /\ pc[c] = "decide"
    /\ ~RowIsFresh(c)
    /\ \E b \in Blocking :
        \/ \E v \in local[c].cached :
            /\ memory' = Remember(Stale(v), b.until)
            /\ Return(c, Stale(v))
        \/ /\ local[c].cached = {}
           /\ Return(c, Refused("busy"))
           /\ UNCHANGED memory
    /\ UNCHANGED <<upstreamVars, storeVars, backoff, calls, since, gone>>

\* Mutant: the age of the last full read is not looked at.
StartRefreshNeverFull(c) ==
    /\ pc[c] = "decide"
    /\ ~RowIsFresh(c)
    /\ Blocking = {}
    /\ local' = [local EXCEPT ![c].now = now]
    /\ pc' = [pc EXCEPT ![c] = IF local[c].cached # {} THEN "incremental" ELSE "first"]
    /\ UNCHANGED <<upstreamVars, storeVars, processVars, since, gone, answer>>

\* Ask GitHub: page 1 only while the last full read is recent, else everything.
StartRefresh(c) ==
    /\ pc[c] = "decide"
    /\ ~RowIsFresh(c)
    /\ Blocking = {}
    /\ local' = [local EXCEPT ![c].now = now]
    /\ pc' = [pc EXCEPT ![c] =
                IF \E v \in local[c].cached : now - v.full < FullAfter
                THEN "incremental" ELSE "first"]
    /\ UNCHANGED <<upstreamVars, storeVars, processVars, since, gone, answer>>

\* Mutant: the stale answer stays in memory for the longest window there is.
FailKeepsStale(c, status) ==
    LET until == local[c].now + Window(FailureCount)
    IN  /\ backoff' = {[failures |-> FailureCount, until |-> until]}
        /\ \/ \E v \in local[c].cached :
                /\ memory' = Remember(Stale(v), local[c].now + BackoffMax)
                /\ Return(c, Stale(v))
           \/ /\ local[c].cached = {}
              /\ Return(c, Refused(status))
              /\ UNCHANGED memory
        /\ UNCHANGED <<upstreamVars, disk, calls, since, gone>>

\* The refresh failed: widen the backoff and fall back to the row read before.
Fail(c, status) ==
    LET until == local[c].now + Window(FailureCount)
    IN  /\ backoff' = {[failures |-> FailureCount, until |-> until]}
        /\ \/ \E v \in local[c].cached :
                /\ memory' = Remember(Stale(v), until)
                /\ Return(c, Stale(v))
           \/ /\ local[c].cached = {}
              /\ Return(c, Refused(status))
              /\ UNCHANGED memory
        /\ UNCHANGED <<upstreamVars, disk, calls, since, gone>>

\* The row cannot be written.  The statement of a client that goes away may still
\* have been committed when its context interrupts it.
WriteFails(c, written) ==
    /\ StoreFails(c)
    /\ row' = row \/ (c \in gone /\ row' = written)
    /\ Fail(c, "error")

\* The refresh succeeded with v.
Succeed(c, v) ==
    /\ backoff' = {}
    /\ memory' = Remember(Fresh(v), local[c].now + MemTTL)
    /\ Return(c, Fresh(v))

\* A request to GitHub ends without a usable answer: the client of the leading
\* request has gone, and with it the context of the call, or GitHub fails.
AskFails(c) ==
    /\ pc[c] \in {"incremental", "first", "rest"}
    /\ \/ c \in gone /\ Fail(c, "error")
       \/ \E status \in Failures : Fail(c, status)
    /\ UNCHANGED row

\* Mutant: a 200 answer is treated like a 304.
AskIncrementalAlways304(c) ==
    /\ pc[c] = "incremental"
    /\ c \notin gone
    /\ local' = [local EXCEPT ![c].recent = Version("recent")]
    /\ pc' = [pc EXCEPT ![c] = "touch"]
    /\ UNCHANGED <<upstreamVars, storeVars, processVars, since, gone, answer>>

\* Page 1 with If-None-Match: 304 leaves the weeks and goes on to
\* TouchGitHubStarHistoryCache; 200 replaces the weeks page 1 holds.
AskIncremental(c) ==
    /\ pc[c] = "incremental"
    /\ c \notin gone
    /\ local' = [local EXCEPT ![c].recent = Version("recent")]
    /\ \E v \in local[c].cached :
        pc' = [pc EXCEPT ![c] = IF v.recent = Version("recent") THEN "touch" ELSE "save"]
    /\ UNCHANGED <<upstreamVars, storeVars, processVars, since, gone, answer>>

\* fetchCompleteOfficialHistory: page 1, then the pages behind it.
AskFirst(c) ==
    /\ pc[c] = "first"
    /\ c \notin gone
    /\ local' = [local EXCEPT ![c].recent = Version("recent")]
    /\ pc' = [pc EXCEPT ![c] = "rest"]
    /\ UNCHANGED <<upstreamVars, storeVars, processVars, since, gone, answer>>

\* A complete read does not build on the row: from here only Fail looks at it.
AskRest(c) ==
    /\ pc[c] = "rest"
    /\ LET v == [recent |-> local[c].recent, old |-> Version("old"),
                 fetched |-> local[c].now, full |-> local[c].now]
       IN  \/ WriteFails(c, {v})
           \/ /\ c \notin gone
              /\ row' = {v}
              /\ Succeed(c, v)
              /\ UNCHANGED <<upstreamVars, disk, calls, since, gone>>

\* Mutant: the new date reaches memory only.
TouchMemoryOnly(c) ==
    /\ pc[c] = "touch"
    /\ \/ WriteFails(c, row)
       \/ \E v \in local[c].cached :
            /\ c \notin gone
            /\ Succeed(c, [v EXCEPT !.fetched = local[c].now])
            /\ UNCHANGED <<upstreamVars, storeVars, calls, since, gone>>

\* TouchGitHubStarHistoryCache moves fetched_at of the row, if it is still there.
Touch(c) ==
    /\ pc[c] = "touch"
    /\ LET touched == {[w EXCEPT !.fetched = local[c].now] : w \in row}
       IN  \/ WriteFails(c, touched)
           \/ \E v \in local[c].cached :
                /\ c \notin gone
                /\ row' = touched
                /\ Succeed(c, [v EXCEPT !.fetched = local[c].now])
                /\ UNCHANGED <<upstreamVars, disk, calls, since, gone>>

\* SaveGitHubStarHistoryCache after an incremental refresh: page 1 merged over
\* the weeks of the row.
Save(c) ==
    /\ pc[c] = "save"
    /\ \E v \in local[c].cached :
        LET merged == [v EXCEPT !.recent = local[c].recent, !.fetched = local[c].now]
        IN  \/ WriteFails(c, {merged})
            \/ /\ c \notin gone
               /\ row' = {merged}
               /\ Succeed(c, merged)
               /\ UNCHANGED <<upstreamVars, disk, calls, since, gone>>

\* Mutant: the call is marked done, but nobody is told.
CloseSilently(c) ==
    /\ pc[c] = "close"
    /\ calls' = {[done |-> TRUE, answer |-> answer[c], since |-> since[c]]}
    /\ pc' = [pc EXCEPT ![c] = "delete"]
    /\ UNCHANGED <<upstreamVars, storeVars, memory, backoff, since, gone, local, answer>>

\* Group.Do: close(done) hands the result to everyone who holds the call; it
\* is taken out of the map only afterwards.
Close(c) ==
    /\ pc[c] = "close"
    /\ calls' = {[done |-> TRUE, answer |-> answer[c], since |-> since[c]]}
    /\ answer' = [d \in Clients |-> IF pc[d] = "waiting" /\ answer[d] = NoAnswer
                                    THEN answer[c] ELSE answer[d]]
    /\ pc' = [pc EXCEPT ![c] = "delete"]
    /\ UNCHANGED <<upstreamVars, storeVars, memory, backoff, since, gone, local>>

Delete(c) ==
    /\ pc[c] = "delete"
    /\ calls' = {}
    /\ pc' = [pc EXCEPT ![c] = "reply"]
    /\ UNCHANGED <<upstreamVars, storeVars, memory, backoff, since, gone, local, answer>>

\* The response is written and the request is over.
Reply(c) ==
    /\ pc[c] = "reply"
    /\ pc' = [pc EXCEPT ![c] = "idle"]
    /\ since' = [since EXCEPT ![c] = 0]
    /\ gone' = gone \ {c}
    /\ answer' = [answer EXCEPT ![c] = NoAnswer]
    /\ UNCHANGED <<upstreamVars, storeVars, processVars, local>>

------------------------------------------------------------------------------
(* The environment.                                                          *)

Tick ==
    /\ now < MaxTime
    /\ now' = now + 1
    /\ UNCHANGED <<changes, storeVars, processVars, clientVars>>

Change(p) ==
    /\ Len(changes[p]) < MaxChanges
    /\ changes' = [changes EXCEPT ![p] = Append(@, now)]
    /\ UNCHANGED <<now, storeVars, processVars, clientVars>>

\* net/http cancels the request's context when its client goes away.  From
\* "close" on nothing looks at the context any more.
Disconnect(c) ==
    /\ "disconnect" \in Faults
    /\ pc[c] \notin {"idle", "close", "delete", "reply"}
    /\ c \notin gone
    /\ gone' = gone \cup {c}
    /\ UNCHANGED <<upstreamVars, storeVars, processVars, pc, since, local, answer>>

\* The process stops without closing the store and starts again: only what
\* SQLite had checkpointed into the runtime file is found.
Restart ==
    /\ "restart" \in Faults
    /\ row' = disk
    /\ memory' = {} /\ backoff' = {} /\ calls' = {}
    /\ pc' = [c \in Clients |-> "idle"]
    /\ since' = [c \in Clients |-> 0]
    /\ gone' = {}
    /\ local' = [c \in Clients |-> NoLocal]
    /\ answer' = [c \in Clients |-> NoAnswer]
    /\ UNCHANGED <<upstreamVars, disk>>

Checkpoint ==
    /\ "restart" \in Faults
    /\ disk' = row
    /\ UNCHANGED <<upstreamVars, row, processVars, clientVars>>

\* Registry.ActivateSnapshot: the next store starts without cached histories.
SwitchStore ==
    /\ "switch" \in Faults
    /\ row' = {} /\ disk' = {}
    /\ UNCHANGED <<upstreamVars, processVars, clientVars>>

\* Other keys push the entry out of the LRU.
Evict ==
    /\ "evict" \in Faults
    /\ memory' = {}
    /\ UNCHANGED <<upstreamVars, storeVars, backoff, calls, clientVars>>

\* Failures of other keys fill the backoff table and sweepLocked drops the key.
SweepBackoff ==
    /\ "sweep" \in Faults
    /\ backoff' = {}
    /\ UNCHANGED <<upstreamVars, storeVars, memory, calls, clientVars>>

------------------------------------------------------------------------------

\* What the handling goroutine of request c does by itself.
Step(c) ==
    \/ Lead(c) \/ Wait(c) \/ Receive(c) \/ GiveUp(c)
    \/ LookupHit(c) \/ LookupRow(c)
    \/ UseFreshRow(c) \/ Suppress(c) \/ StartRefresh(c)
    \/ AskFails(c) \/ AskIncremental(c) \/ AskFirst(c) \/ AskRest(c)
    \/ Touch(c) \/ Save(c)
    \/ Close(c) \/ Delete(c) \/ Reply(c)

Environment ==
    \/ Tick
    \/ \E p \in Parts : Change(p)
    \/ \E c \in Clients : Disconnect(c)
    \/ Restart \/ Checkpoint \/ SwitchStore \/ Evict \/ SweepBackoff

Next ==
    \/ \E c \in Clients : Request(c) \/ Step(c)
    \/ Environment

Spec == Init /\ [][Next]_vars

\* Goroutines are scheduled, SQLite returns and the HTTP client has a timeout:
\* whoever is in the middle of a request goes on with it.
FairSpec == Spec /\ \A c \in Clients : WF_vars(Step(c))

------------------------------------------------------------------------------
(* Properties.                                                               *)

\* Version v of part p was GitHub's at time t or later.
SeenSince(p, v, t) == v < Version(p) => changes[p][v + 1] >= t

Answered(c, status) == pc[c] = "reply" /\ answer[c].status = status

\* README.md:97: the history is fresh for 24 hours.  An answer without the stale
\* mark shows the newest weeks as GitHub had them no longer before the request
\* than the store's TTL plus the memory's TTL, whatever mix of memory, row,
\* 304, merge, restart and store switch produced it.
RecentWeeksAreFresh ==
    \A c \in Clients : Answered(c, "fresh") =>
        \A v \in answer[c].val :
            SeenSince("recent", v.recent, since[c] - DbTTL - MemTTL + 1)

\* README.md:97: a full validation is performed after seven days.  The weeks
\* behind page 1, which incremental refreshes never look at, lag GitHub by at
\* most that period on top of the two TTLs.
OldWeeksAreRevalidated ==
    \A c \in Clients : Answered(c, "fresh") =>
        \A v \in answer[c].val :
            SeenSince("old", v.old, since[c] - FullAfter - DbTTL - MemTTL + 1)

\* official_history.go:237-243: an old curve kept in memory goes away no later
\* than the backoff window that justifies it, so the first request after the
\* window retries GitHub (unless the sweep dropped the window itself).
StaleEndsWithBackoff ==
    \A e \in memory : e.load.status = "stale" =>
        \A b \in backoff : e.expires <= b.until

\* w is v or a later state of it, in its weeks and its dates.
NotBefore(w, v) ==
    /\ w.recent >= v.recent /\ w.old >= v.old
    /\ w.fetched >= v.fetched /\ w.full >= v.full

\* official_history.go:265-275: what the LRU entry holds without the stale mark is
\* what the row holds, if there is a row; an entry with the mark is the row or, when
\* the write behind it was committed although it failed, an earlier state of it.  Two
\* refreshes of the key running at once, or a memory entry written before the row,
\* would break it.
MemoryAgreesWithStore ==
    \A e \in memory : \A v \in e.load.val, w \in row :
        /\ e.load.status = "fresh" => v = w
        /\ e.load.status = "stale" => NotBefore(w, v)

\* Within a life of the process the row only moves forward: neither a slow
\* refresh nor a failed one puts older weeks or an older date back.
RowNeverGoesBack ==
    [][\A v \in row, w \in row' : Restart \/ NotBefore(w, v)]_vars

\* The requests that run the function given to Group.Do.
InFlight == {"lookup", "decide", "incremental", "first", "rest", "touch", "save",
             "close", "delete"}

\* cache.go:86: concurrent refreshes of a key are merged, so at most one request
\* at a time talks to GitHub and writes the row.
OneRefreshAtATime ==
    \A c, d \in Clients : pc[c] \in InFlight /\ pc[d] \in InFlight => c = d

\* Nobody waits for a call that nobody will close: a request that waits without
\* a result waits for one that is still going to hand its result out.  (Joining a
\* call between close(done) and its deletion is the delicate moment.)
WaitersHaveALeader ==
    \A d \in Clients : pc[d] = "waiting" /\ answer[d] = NoAnswer =>
        \E c \in Clients : pc[c] \in InFlight \ {"delete"}

\* A request is answered whatever happens to the request it waits for.
EveryRequestEnds == \A c \in Clients : pc[c] # "idle" ~> pc[c] = "idle"

\* README.md:232: an answer marked stale is cached data "served while GitHub was
\* unavailable".  If GitHub never fails, no connected client is given one.
StaleOnlyWhileUnavailable ==
    Failures = {} => \A c \in Clients \ gone : ~Answered(c, "stale")

==============================================================================
