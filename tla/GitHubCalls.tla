------------------------------ MODULE GitHubCalls ------------------------------
(***************************************************************************)
(* The calls the server makes to GitHub: the complete read of a star       *)
(* history, page by page or with one goroutine per page (internal/handler/ *)
(* official_history.go, fetchCompleteOfficialHistory), and the metadata    *)
(* lookups with their avatars (internal/provider/github.go, Fetch), all of *)
(* them under one limiter (internal/provider/limiter.go).                  *)
(*                                                                         *)
(* The weeks of a history are numbered from the oldest; page 1 holds the   *)
(* newest ones, so a week that begins moves every other by one place.      *)
(***************************************************************************)
EXTENDS Integers, FiniteSets

CONSTANTS
    Readers,  \* requests that lead the read of a history
    Lookups,  \* requests that lead the lookup of metadata
    Limit,    \* GITHUB_MAX_CONCURRENCY
    PerFetch, \* officialHistoryFetchConcurrency
    PerPage,  \* officialHistoryPerPage
    MaxPages, \* officialHistoryMaxPages
    MaxWeeks  \* bound: GitHub's history grows no longer than this

\* A hundred pages of thirty weeks are more than GitHub will have for decades.
ASSUME CallsAssumption ==
    /\ {Limit, PerFetch, PerPage} \subseteq Nat \ {0}
    /\ MaxPages \in Nat \ {0, 1}
    /\ MaxWeeks \in 0..(MaxPages * PerPage)
    /\ Lookups \cap (Readers \X Nat) = {}
    /\ IsFiniteSet(Readers) /\ IsFiniteSet(Lookups)

VARIABLES
    latest, \* GitHub: the newest week; the history is 1..latest
    slots,  \* callLimiter.slots: how many are taken
    pc,     \* where each call stands
    stage,  \* where each read stands
    last,   \* first.LastPage, 0 when the Link header does not tell
    got,    \* the weeks of each page that has come back
    cause,  \* firstErr, or the error of the page the read itself asked for
    began,  \* the newest week when the read began
    gone    \* reads whose context is cancelled

readVars == <<stage, last, got, cause, began>>
vars == <<latest, slots, pc, readVars, gone>>

Pages == 1..MaxPages
Calls == (Readers \X Pages) \cup Lookups

PagePC == {"none", "slot", "acquire", "queued", "http", "done"}
LookupPC == {"idle", "acquire", "queued", "http",
             "acquireAvatar", "queuedAvatar", "httpAvatar", "release"}

Stage == {"idle", "first", "serial", "parallel", "save", "ok", "failed"}

\* "busy" is ErrBusy or ErrRateLimited: isUpstreamBusy.
Error == {"notFound", "busy", "error", "canceled"}

TypeOK ==
    /\ latest \in 0..MaxWeeks
    /\ slots \in 0..Limit
    /\ pc \in [Calls -> PagePC \cup LookupPC]
    /\ \A c \in Calls : pc[c] \in IF c \in Lookups THEN LookupPC ELSE PagePC
    /\ stage \in [Readers -> Stage]
    /\ last \in [Readers -> 0..MaxWeeks]
    /\ got \in [Readers -> [Pages -> SUBSET (1..MaxWeeks)]]
    /\ cause \in [Readers -> Error \cup {"none"}]
    /\ began \in [Readers -> 0..MaxWeeks]
    /\ gone \subseteq Readers

Init ==
    /\ latest \in 0..MaxWeeks
    /\ slots = 0
    /\ pc = [c \in Calls |-> IF c \in Lookups THEN "idle" ELSE "none"]
    /\ stage = [r \in Readers |-> "idle"]
    /\ last = [r \in Readers |-> 0]
    /\ got = [r \in Readers |-> [k \in Pages |-> {}]]
    /\ cause = [r \in Readers |-> "none"]
    /\ began = [r \in Readers |-> 0]
    /\ gone = {}

------------------------------------------------------------------------------
(* GitHub.                                                                   *)

\* Page k now; a page behind the last one is empty.
Page(k) == {w \in 1..latest : (latest - w) \div PerPage = k - 1}

\* rel="last" of the Link header.
LastPage == (latest + PerPage - 1) \div PerPage

Grow ==
    /\ latest < MaxWeeks
    /\ latest' = latest + 1
    /\ UNCHANGED <<slots, pc, readVars, gone>>

------------------------------------------------------------------------------
(* callLimiter.acquire, for pages, metadata and avatars alike.               *)

Goes(c, to) == pc' = [pc EXCEPT ![c] = to]

Granted == [acquire |-> "http", queued |-> "http",
            acquireAvatar |-> "httpAvatar", queuedAvatar |-> "httpAvatar"]

Queueing == [acquire |-> "queued", acquireAvatar |-> "queuedAvatar"]

\* The context of a page's call ends with the client's, that of a page goroutine
\* with the first error of any page, too.
Cancelled(r) == r \in gone \/ (stage[r] = "parallel" /\ cause[r] # "none")

\* A slot on the fast path or later: select takes it although the context or the
\* timer may be ready as well.
Acquire(c) ==
    /\ pc[c] \in DOMAIN Granted
    /\ slots < Limit
    /\ slots' = slots + 1
    /\ Goes(c, Granted[pc[c]])
    /\ UNCHANGED <<latest, readVars, gone>>

Queue(c) ==
    /\ pc[c] \in DOMAIN Queueing
    /\ slots = Limit
    /\ Goes(c, Queueing[pc[c]])
    /\ UNCHANGED <<latest, slots, readVars, gone>>

\* Mutant: the last error wins.
FailLast(r, k, e) ==
    /\ cause' = [cause EXCEPT ![r] = e]
    /\ Goes(<<r, k>>, "done")
    /\ UNCHANGED <<latest, stage, last, got, began, gone>>

\* Page k comes back with error e: errOnce keeps the first one (and cancels).
Fail(r, k, e) ==
    /\ cause' = [cause EXCEPT ![r] = IF @ = "none" THEN e ELSE @]
    /\ Goes(<<r, k>>, "done")
    /\ UNCHANGED <<latest, stage, last, got, began, gone>>

\* Mutant: when the wait is too long the call goes out without a slot.
PageGivesUpOpen(r, k) ==
    /\ pc[<<r, k>>] = "queued"
    /\ Goes(<<r, k>>, "http")
    /\ UNCHANGED <<latest, slots, readVars, gone>>

\* acquireTimeout has passed, or the context has ended.
PageGivesUp(r, k) ==
    /\ pc[<<r, k>>] = "queued"
    /\ Fail(r, k, "busy") \/ (Cancelled(r) /\ Fail(r, k, "canceled"))
    /\ UNCHANGED slots

\* applyAuth: the pool has no token to call with.
PageRefused(r, k) ==
    /\ pc[<<r, k>>] = "acquire"
    /\ Fail(r, k, "busy")
    /\ UNCHANGED slots

LookupGivesUp(l) ==
    /\ pc[l] \in {"acquire", "queued"}
    /\ Goes(l, "idle")
    /\ UNCHANGED <<latest, slots, readVars, gone>>

------------------------------------------------------------------------------
(* StarHistory: one page.  The slot is given back when the call returns.     *)

\* Mutant: an error returns without the slot.
PageFailsHolding(r, k) ==
    /\ pc[<<r, k>>] = "http"
    /\ \E e \in Error : Fail(r, k, e)
    /\ UNCHANGED slots

\* A call under a context that has ended is cut off or not even sent.
PageFails(r, k) ==
    /\ pc[<<r, k>>] = "http"
    /\ \/ \E e \in Error \ {"canceled"} : Fail(r, k, e)
       \/ Cancelled(r) /\ Fail(r, k, "canceled")
    /\ slots' = slots - 1

PageAnswered(r, k) ==
    /\ pc[<<r, k>>] = "http"
    /\ ~Cancelled(r)
    /\ got' = [got EXCEPT ![r][k] = Page(k)]
    /\ IF k = 1
       THEN \E n \in {0, LastPage} : last' = [last EXCEPT ![r] = n]
       ELSE UNCHANGED last
    /\ Goes(<<r, k>>, "done")
    /\ slots' = slots - 1
    /\ UNCHANGED <<latest, stage, cause, began, gone>>

------------------------------------------------------------------------------
(* fetchCompleteOfficialHistory and the save behind it.                      *)

To(r, s) == stage' = [stage EXCEPT ![r] = s]

Begin(r) ==
    /\ stage[r] = "idle"
    /\ To(r, "first")
    /\ began' = [began EXCEPT ![r] = latest]
    /\ Goes(<<r, 1>>, "acquire")
    /\ UNCHANGED <<latest, slots, last, got, cause, gone>>

Return(r) ==
    /\ To(r, "failed")
    /\ UNCHANGED <<latest, slots, pc, last, got, cause, began, gone>>

\* An empty first page is a repository without history.
AfterFirst(r) ==
    /\ stage[r] = "first"
    /\ pc[<<r, 1>>] = "done"
    /\ \/ cause[r] # "none" /\ Return(r)
       \/ /\ cause[r] = "none" /\ got[r][1] = {}
          /\ cause' = [cause EXCEPT ![r] = "notFound"]
          /\ To(r, "failed")
          /\ UNCHANGED <<latest, slots, pc, last, got, began, gone>>
       \/ /\ cause[r] = "none" /\ got[r][1] # {}
          /\ \/ last[r] = 0 /\ To(r, "serial") /\ Goes(<<r, 2>>, "acquire")
             \/ last[r] = 1 /\ To(r, "save") /\ UNCHANGED pc
             \/ /\ last[r] > 1 /\ To(r, "parallel")
                /\ pc' = [c \in Calls |-> IF c \in {r} \X (2..last[r]) THEN "slot" ELSE pc[c]]
          /\ UNCHANGED <<latest, slots, last, got, cause, began, gone>>

\* Without the number of pages: the next page, until one is empty.
AfterNext(r) ==
    /\ stage[r] = "serial"
    /\ \E k \in Pages :
        /\ pc[<<r, k>>] = "done"
        /\ \A j \in Pages : j > k => pc[<<r, j>>] = "none"
        /\ \/ cause[r] # "none" /\ Return(r)
           \/ /\ cause[r] = "none"
              /\ IF got[r][k] = {} \/ k = MaxPages
                 THEN To(r, "save") /\ UNCHANGED pc
                 ELSE UNCHANGED stage /\ Goes(<<r, k + 1>>, "acquire")
              /\ UNCHANGED <<latest, slots, last, got, cause, began, gone>>

\* A page goroutine takes one of the read's own slots ...
TakeTurn(r, k) ==
    /\ pc[<<r, k>>] = "slot"
    /\ Cardinality({j \in Pages : pc[<<r, j>>] \in {"acquire", "queued", "http"}}) < PerFetch
    /\ Goes(<<r, k>>, "acquire")
    /\ UNCHANGED <<latest, slots, readVars, gone>>

\* ... or finds its context ended and leaves its page empty, without an error.
Skip(r, k) ==
    /\ pc[<<r, k>>] = "slot"
    /\ Cancelled(r)
    /\ Goes(<<r, k>>, "done")
    /\ UNCHANGED <<latest, slots, readVars, gone>>

Join(r) ==
    /\ stage[r] = "parallel"
    /\ \A k \in Pages : pc[<<r, k>>] \in {"none", "done"}
    /\ To(r, IF cause[r] = "none" THEN "save" ELSE "failed")
    /\ UNCHANGED <<latest, slots, pc, last, got, cause, began, gone>>

\* Mutant: the save does not depend on the client any more.
SaveDetached(r) ==
    /\ stage[r] = "save"
    /\ To(r, "ok")
    /\ UNCHANGED <<latest, slots, pc, last, got, cause, began, gone>>

\* SaveGitHubStarHistoryCache runs under the context of the read.
Save(r) ==
    /\ stage[r] = "save"
    /\ \/ /\ r \notin gone
          /\ To(r, "ok")
          /\ UNCHANGED cause
       \/ /\ To(r, "failed")
          /\ \E e \in {"error"} \cup (IF r \in gone THEN {"canceled"} ELSE {}) :
                cause' = [cause EXCEPT ![r] = e]
    /\ UNCHANGED <<latest, slots, pc, last, got, began, gone>>

\* The flight ends; the next one for the key starts with an empty stack.
End(r) ==
    /\ stage[r] \in {"ok", "failed"}
    /\ To(r, "idle")
    /\ pc' = [c \in Calls |-> IF c \in {r} \X Pages THEN "none" ELSE pc[c]]
    /\ last' = [last EXCEPT ![r] = 0]
    /\ got' = [got EXCEPT ![r] = [k \in Pages |-> {}]]
    /\ cause' = [cause EXCEPT ![r] = "none"]
    /\ began' = [began EXCEPT ![r] = 0]
    /\ gone' = gone \ {r}
    /\ UNCHANGED <<latest, slots>>

------------------------------------------------------------------------------
(* Fetch: metadata, then the avatar while the first slot is still held.  A   *)
(* context that ends does what a timeout or an error does at each place.     *)

Look(l) ==
    /\ pc[l] = "idle"
    /\ Goes(l, "acquire")
    /\ UNCHANGED <<latest, slots, readVars, gone>>

\* An error, an avatar in the cache and a URL that is refused need no second call.
MetadataAnswered(l) ==
    /\ pc[l] = "http"
    /\ \/ Goes(l, "release")
       \/ Goes(l, "acquireAvatar")
    /\ UNCHANGED <<latest, slots, readVars, gone>>

\* Mutant: the timer is looked at when there is a slot again.
AvatarWaits(l) ==
    /\ pc[l] = "queuedAvatar"
    /\ slots < Limit
    /\ Goes(l, "release")
    /\ UNCHANGED <<latest, slots, readVars, gone>>

\* avatarFetchTimeout or the client's end: the card goes without an avatar.
AvatarGivesUp(l) ==
    /\ pc[l] = "queuedAvatar"
    /\ Goes(l, "release")
    /\ UNCHANGED <<latest, slots, readVars, gone>>

\* Mutant: both slots are given back with the avatar.
AvatarReleasesBoth(l) ==
    /\ pc[l] = "httpAvatar"
    /\ Goes(l, "release")
    /\ slots' = slots - 2
    /\ UNCHANGED <<latest, readVars, gone>>

AvatarAnswered(l) ==
    /\ pc[l] = "httpAvatar"
    /\ Goes(l, "release")
    /\ slots' = slots - 1
    /\ UNCHANGED <<latest, readVars, gone>>

Release(l) ==
    /\ pc[l] = "release"
    /\ Goes(l, "idle")
    /\ slots' = slots - 1
    /\ UNCHANGED <<latest, readVars, gone>>

------------------------------------------------------------------------------

Disconnect(r) ==
    /\ r \notin gone
    /\ stage[r] \notin {"idle", "ok", "failed"}
    /\ gone' = gone \cup {r}
    /\ UNCHANGED <<latest, slots, pc, readVars>>

PageStep(r, k) ==
    \/ TakeTurn(r, k) \/ Skip(r, k)
    \/ PageRefused(r, k)
    \/ Acquire(<<r, k>>) \/ Queue(<<r, k>>) \/ PageGivesUp(r, k)
    \/ PageFails(r, k) \/ PageAnswered(r, k)

ReadStep(r) == AfterFirst(r) \/ AfterNext(r) \/ Join(r) \/ Save(r) \/ End(r)

LookupStep(l) ==
    \/ Acquire(l) \/ Queue(l) \/ LookupGivesUp(l)
    \/ MetadataAnswered(l) \/ AvatarGivesUp(l) \/ AvatarAnswered(l)
    \/ Release(l)

Next ==
    \/ \E r \in Readers :
        Begin(r) \/ ReadStep(r) \/ Disconnect(r) \/ \E k \in Pages : PageStep(r, k)
    \/ \E l \in Lookups : Look(l) \/ LookupStep(l)
    \/ Grow

Spec == Init /\ [][Next]_vars

\* Goroutines are scheduled; a call to GitHub ends by the timeout of the HTTP
\* client, a wait for a slot by its timer.  Nobody is promised a slot.
FairSpec ==
    /\ Spec
    /\ \A r \in Readers : WF_vars(ReadStep(r)) /\ \A k \in Pages : WF_vars(PageStep(r, k))
    /\ \A l \in Lookups : WF_vars(LookupStep(l))

------------------------------------------------------------------------------
(* Properties.                                                               *)

\* limiter.go:23, "a global gate for all outbound calls": no more than Limit
\* requests are on the way to GitHub, whoever sent them.
CallsAreLimited == Cardinality({c \in Calls : pc[c] \in {"http", "httpAvatar"}}) <= Limit

\* limiter.go:52, "release must be called": each slot that is taken belongs to a
\* call that will give it back, on every path, and a lookup holds two while it
\* fetches an avatar.
SlotsAreReturned ==
    slots = Cardinality({c \in Calls : pc[c] \in {"http", "httpAvatar"}})
          + Cardinality({l \in Lookups : pc[l] \in {"acquireAvatar", "queuedAvatar",
                                                    "httpAvatar", "release"}})

Weeks(r) == UNION {got[r][k] : k \in Pages}

\* official_history.go:361, "half a history is harder to diagnose than none": a
\* history that was saved has all of its weeks if no week began meanwhile, and in
\* any case if its pages were asked one after the other, whatever was cancelled
\* or failed in between.
SavedIsWhole ==
    \A r \in Readers :
        (stage[r] = "ok" /\ (last[r] = 0 \/ latest = began[r])) => 1..began[r] \subseteq Weeks(r)

\* official_history.go:389: the error of a failed read is that of the page that
\* failed, not the cancellation it caused in the others; on it depends whether
\* the client gets 404, 429 or 503.
CauseIsKept ==
    \A r \in Readers : stage[r] = "failed" /\ cause[r] = "canceled" => r \in gone

\* limiter.go:28-29: rather fewer refreshes than requests that rot in a queue.
\* Every read and every lookup ends, also when all slots are held by lookups that
\* want a second one.
EveryCallEnds ==
    /\ \A r \in Readers : stage[r] # "idle" ~> stage[r] = "idle"
    /\ \A l \in Lookups : pc[l] # "idle" ~> pc[l] = "idle"

\* official_history.go:311, "the complete official weekly history", also when a
\* week begins while the pages are fetched.
HistoryIsComplete ==
    \A r \in Readers : stage[r] = "ok" => 1..began[r] \subseteq Weeks(r)
==============================================================================
