----------------------------- MODULE MetadataCache -----------------------------
(***************************************************************************)
(* Resolving the public metadata of repositories (internal/handler/        *)
(* history.go, resolveMetadataCached): the rows of repository_metadata,    *)
(* keyed by GitHub's repository id, the negative cache, keyed by path, and *)
(* the flights that merge concurrent refreshes, keyed by path too.  GitHub *)
(* renames repositories, lets others take their old paths and changes      *)
(* their visibility meanwhile.                                             *)
(***************************************************************************)
EXTENDS Integers

CONSTANTS
    Clients,     \* requests the server handles concurrently
    Paths,       \* owner/repo paths
    Repos,       \* ids of repositories
    Asked,       \* the repo_id parameters that requests carry, None for none
    TTL,         \* metadataTTL
    NegativeTTL, \* negativeCacheTTL
    Birth,       \* where GitHub's repositories are at first, None for nowhere
    Redirects,   \* which repository each path leads to at first
    Faults,      \* a subset of FaultKind
    MaxTime,     \* bound: the clock stops here
    MaxChanges,  \* bound: how often GitHub changes anything
    None

FaultKind == {"github", "disconnect", "store", "switch"}

ASSUME MetadataAssumption ==
    /\ {TTL, NegativeTTL} \subseteq Nat \ {0}
    /\ Birth \in [Repos -> Paths \cup {None}]
    /\ Redirects \in [Paths -> Repos \cup {None}]
    /\ \A r \in Repos : Birth[r] # None => Redirects[Birth[r]] = r
    /\ \A p \in Paths : Redirects[p] # None => Birth[Redirects[p]] # None
    /\ Faults \subseteq FaultKind
    /\ {MaxTime, MaxChanges} \subseteq Nat
    /\ None \notin Repos \cup Paths

VARIABLES
    now,       \* the wall clock
    resolves,  \* GitHub: the repository a path leads to, by name or by redirect
    moved,     \* when that last changed
    canonical, \* GitHub: full_name of a repository
    visible,   \* GitHub: whether a repository is public
    turned,    \* when that last changed
    readable,  \* the repositories the server's tokens may read though not public
    changes,   \* how often GitHub changed anything
    rows,      \* repository_metadata
    negative,  \* repository_metadata_negative: when a path was found unavailable
    flights,   \* h.flights under the metadata keys: who leads the flight of a path
    pc,        \* where each request stands
    request,   \* its path and repo_id
    since,     \* when each request, or the flight it joined, arrived
    meant,     \* the repo_id of each request, or of the leader of the flight it joined
    gone,      \* requests whose client has disconnected
    local,     \* what the request holds on its stack
    answer     \* what resolveMetadataCached returns

githubVars == <<resolves, moved, canonical, visible, turned, readable, changes>>
storeVars == <<rows, negative>>
clientVars == <<pc, request, since, meant, gone, local, answer>>
vars == <<now, githubVars, storeVars, flights, clientVars>>

\* serving.RepositoryMetadata; every row is of a public repository.
Value == [repo : Repos, name : Paths, checked : Nat]

\* repository_metadata_negative.
Reason == {"missing", "private"}
Entry == [reason : Reason, checked : Nat]

\* "public" and "private" are metadata with that visibility; "kept" is the old row
\* that is given out because GitHub failed, which the caller cannot tell from
\* "public"; "missing" is provider.ErrNotFound.
Status == {"none", "public", "kept", "private", "missing", "error", "canceled"}

Answer == [status : Status, val : SUBSET Value]

Plain(status) == [status |-> status, val |-> {}]

\* The row found, the `now` of the lookup and GitHub's answer, not written yet.
Local == [cached : SUBSET Value, now : Nat, fetched : Answer]

NoLocal == [cached |-> {}, now |-> 0, fetched |-> Plain("none")]

PC == {"idle", "negative", "missed", "waiting", "fetch", "record", "save", "clear", "reply"}

TypeOK ==
    /\ now \in Nat
    /\ resolves \in [Paths -> Repos \cup {None}]
    /\ moved \in [Paths -> Nat]
    /\ canonical \in [Repos -> Paths \cup {None}]
    /\ visible \in [Repos -> BOOLEAN]
    /\ turned \in [Repos -> Nat]
    /\ readable \in SUBSET Repos
    /\ changes \in Nat
    /\ rows \in SUBSET Value
    /\ \A v, w \in rows : v.repo = w.repo => v = w
    /\ negative \in [Paths -> SUBSET Entry]
    /\ flights \in [Paths -> SUBSET Clients]
    /\ pc \in [Clients -> PC]
    /\ request \in [Clients -> [path : Paths, id : Asked] \cup {None}]
    /\ since \in [Clients -> Nat]
    /\ meant \in [Clients -> Asked \cup {None}]
    /\ gone \in SUBSET Clients
    /\ local \in [Clients -> Local]
    /\ answer \in [Clients -> Answer]

Init ==
    /\ now = 0
    /\ canonical = Birth
    /\ resolves = Redirects
    /\ moved = [p \in Paths |-> 0]
    /\ visible \in [Repos -> BOOLEAN]
    /\ turned = [r \in Repos |-> 0]
    /\ readable \in SUBSET Repos
    /\ changes = 0
    /\ rows = {}
    /\ negative = [p \in Paths |-> {}]
    /\ flights = [p \in Paths |-> {}]
    /\ pc = [c \in Clients |-> "idle"]
    /\ request = [c \in Clients |-> None]
    /\ since = [c \in Clients |-> 0]
    /\ meant = [c \in Clients |-> None]
    /\ gone = {}
    /\ local = [c \in Clients |-> NoLocal]
    /\ answer = [c \in Clients |-> Plain("none")]

------------------------------------------------------------------------------
(* A request before it asks GitHub.                                          *)

Path(c) == request[c].path

StoreFails(c) == c \in gone \/ "store" \in Faults

\* MetadataByFullName: the row checked last among those of that name.
Named(p) == {v \in rows : v.name = p /\ \A w \in rows : w.name = p => w.checked <= v.checked}

\* lookupMetadataCache: the row of the repo_id, else the row of the name unless
\* it is of another repo_id.
Lookup(p, id) ==
    LET byId == {v \in rows : v.repo = id}
    IN  IF byId # {} THEN byId
        ELSE {v \in Named(p) : id = None \/ v.repo = id}

\* c has its answer; nothing looks at its context any more.
Answered(c, a) ==
    /\ answer' = [answer EXCEPT ![c] = a]
    /\ gone' = gone \ {c}
    /\ pc' = [pc EXCEPT ![c] = "reply"]
    /\ local' = [local EXCEPT ![c] = NoLocal]

\* A request arrives and looks for a row.  Both queries are one step: a row that
\* is saved between them is found by the second one or was there for the first.
Request(c) ==
    /\ pc[c] = "idle"
    /\ since' = [since EXCEPT ![c] = now]
    /\ \E p \in Paths, id \in Asked :
        /\ request' = [request EXCEPT ![c] = [path |-> p, id |-> id]]
        /\ meant' = [meant EXCEPT ![c] = id]
        /\ \/ /\ "store" \in Faults
              /\ Answered(c, Plain("error"))
           \/ \E v \in Lookup(p, id) :
              /\ now - v.checked < TTL
              /\ Answered(c, [status |-> "public", val |-> {v}])
           \/ /\ \A v \in Lookup(p, id) : now - v.checked >= TTL
              /\ local' = [local EXCEPT ![c].cached = Lookup(p, id), ![c].now = now]
              /\ pc' = [pc EXCEPT ![c] = "negative"]
              /\ UNCHANGED <<gone, answer>>
    /\ UNCHANGED <<now, githubVars, storeVars, flights>>

\* Mutant: an entry of the negative cache does not expire.
RefusedForever(c) == negative[Path(c)]

\* The entry of the negative cache that still counts for this request.
Refused(c) == {n \in negative[Path(c)] : local[c].now - n.checked < NegativeTTL}

\* negativeMetadata: a failure to read counts as "no entry".  What is only known
\* to be private is answered without metadata.
LookupNegative(c) ==
    /\ pc[c] = "negative"
    /\ \/ /\ c \notin gone
          /\ \E n \in Refused(c) : Answered(c, Plain(n.reason))
       \/ /\ StoreFails(c) \/ Refused(c) = {}
          /\ pc' = [pc EXCEPT ![c] = "missed"]
          /\ UNCHANGED <<gone, local, answer>>
    /\ UNCHANGED <<now, githubVars, storeVars, flights, request, since, meant>>

\* Group.Do under metadataFlightKey: the path alone.  (The group itself, step by
\* step, is in OfficialHistory.)
Lead(c) ==
    /\ pc[c] = "missed"
    /\ flights[Path(c)] = {}
    /\ flights' = [flights EXCEPT ![Path(c)] = {c}]
    /\ pc' = [pc EXCEPT ![c] = "fetch"]
    /\ UNCHANGED <<now, githubVars, storeVars, request, since, meant, gone, local, answer>>

\* Whoever waits in a flight gets what the leader asked for, under the leader's repo_id.
Wait(c) ==
    /\ pc[c] = "missed"
    /\ \E leader \in flights[Path(c)] :
        /\ since' = [since EXCEPT ![c] = since[leader]]
        /\ meant' = [meant EXCEPT ![c] = meant[leader]]
    /\ local' = [local EXCEPT ![c] = NoLocal]
    /\ pc' = [pc EXCEPT ![c] = "waiting"]
    /\ UNCHANGED <<now, githubVars, storeVars, flights, request, gone, answer>>

GiveUp(c) ==
    /\ pc[c] = "waiting"
    /\ c \in gone
    /\ Answered(c, Plain("canceled"))
    /\ UNCHANGED <<now, githubVars, storeVars, flights, request, since, meant>>

------------------------------------------------------------------------------
(* refreshMetadata, run by the leader of the flight.                         *)

\* The function returns a to Group.Do, which hands it to everyone who waits.
Return(c, a) ==
    LET served == {c} \cup {d \in Clients : pc[d] = "waiting" /\ Path(d) = Path(c)}
    IN  /\ answer' = [d \in Clients |-> IF d \in served THEN a ELSE answer[d]]
        /\ pc' = [d \in Clients |-> IF d \in served THEN "reply" ELSE pc[d]]
        /\ gone' = gone \ served
        /\ local' = [local EXCEPT ![c] = NoLocal]
        /\ flights' = [flights EXCEPT ![Path(c)] = {}]

\* GitHub's description of repository r.
Description(r) ==
    [status |-> IF visible[r] THEN "public" ELSE "private",
     val    |-> {[repo |-> r, name |-> canonical[r], checked |-> now]}]

\* What GitHub says about path p now: a repository that is not public is missing to
\* tokens without access to it.
Upstream(p) ==
    LET r == resolves[p]
    IN  IF r # None /\ (visible[r] \/ r \in readable)
        THEN Description(r) ELSE Plain("missing")

\* GitHub fails: the row found before, however old.
Keep(c) ==
    Return(c, IF local[c].cached = {} THEN Plain("error")
              ELSE [status |-> "kept", val |-> local[c].cached])

FetchFails(c) ==
    /\ pc[c] = "fetch"
    /\ c \in gone \/ "github" \in Faults
    /\ Keep(c)
    /\ UNCHANGED <<now, githubVars, storeVars, request, since, meant>>

\* A repository with another id than the leader's request names, public or not, is
\* answered like a missing one and nothing is written.
Fetch(c) ==
    /\ pc[c] = "fetch"
    /\ c \notin gone
    /\ LET a == Upstream(Path(c))
       IN  \/ /\ \E v \in a.val : request[c].id \notin {None, v.repo}
              /\ Return(c, Plain("missing"))
           \/ /\ \A v \in a.val : request[c].id \in {None, v.repo}
              /\ local' = [local EXCEPT ![c] = [NoLocal EXCEPT !.fetched = a]]
              /\ pc' = [pc EXCEPT ![c] = IF a.status = "public" THEN "save" ELSE "record"]
              /\ UNCHANGED <<flights, gone, answer>>
    /\ UNCHANGED <<now, githubVars, storeVars, request, since, meant>>

\* recordNegativeMetadata: a failure to write is only logged.  A statement may have
\* been committed when the context of a client that goes away interrupts it; so in
\* Save and Clear.
Record(c) ==
    /\ pc[c] = "record"
    /\ \/ StoreFails(c) /\ UNCHANGED negative
       \/ negative' = [negative EXCEPT ![Path(c)] =
                         {[reason |-> local[c].fetched.status, checked |-> now]}]
    /\ Return(c, local[c].fetched)
    /\ UNCHANGED <<now, githubVars, rows, request, since, meant>>

\* Mutant: the row of the name is overwritten.
SavedByName(v) == {w \in rows : w.name # v.name} \cup {v}

\* Mutant: the row is dated when it is written, not when GitHub answered.
SavedNow(v) == {w \in rows : w.repo # v.repo} \cup {[v EXCEPT !.checked = now]}

\* The rows once v is saved: it overwrites the row of its repository's id.
Saved(v) == {w \in rows : w.repo # v.repo} \cup {v}

Save(c) ==
    /\ pc[c] = "save"
    /\ \E v \in local[c].fetched.val :
        \/ /\ StoreFails(c)
           /\ rows' = rows \/ (c \in gone /\ rows' = Saved(v))
           /\ Return(c, Plain("error"))
        \/ /\ c \notin gone
           /\ rows' = Saved(v)
           /\ pc' = [pc EXCEPT ![c] = "clear"]
           /\ UNCHANGED <<flights, gone, local, answer>>
    /\ UNCHANGED <<now, githubVars, negative, request, since, meant>>

\* clearNegativeMetadata: for the path that was asked, best effort.
Clear(c) ==
    /\ pc[c] = "clear"
    /\ \/ StoreFails(c) /\ UNCHANGED negative
       \/ negative' = [negative EXCEPT ![Path(c)] = {}]
    /\ Return(c, local[c].fetched)
    /\ UNCHANGED <<now, githubVars, rows, request, since, meant>>

\* requirePublicMetadata: "missing" becomes 404, metadata of another repository than
\* the request's a conflict, "private" 422; the rest goes out as it is.
Reply(c) ==
    /\ pc[c] = "reply"
    /\ pc' = [pc EXCEPT ![c] = "idle"]
    /\ request' = [request EXCEPT ![c] = None]
    /\ since' = [since EXCEPT ![c] = 0]
    /\ meant' = [meant EXCEPT ![c] = None]
    /\ answer' = [answer EXCEPT ![c] = Plain("none")]
    /\ UNCHANGED <<now, githubVars, storeVars, flights, gone, local>>

------------------------------------------------------------------------------
(* The environment.                                                          *)

\* The unit of time is long against what lies between GitHub's answer and the
\* date of the negative entry (at most the 8 s of the HTTP client).
Tick ==
    /\ now < MaxTime
    /\ \A c \in Clients : pc[c] # "record"
    /\ now' = now + 1
    /\ UNCHANGED <<githubVars, storeVars, flights, clientVars>>

GitHubChanges ==
    /\ changes < MaxChanges
    /\ changes' = changes + 1
    /\ UNCHANGED <<now, storeVars, flights, clientVars>>

Turn(r) ==
    /\ GitHubChanges
    /\ visible' = [visible EXCEPT ![r] = ~@]
    /\ turned' = [turned EXCEPT ![r] = now]
    /\ UNCHANGED <<resolves, moved, canonical, readable>>

\* Repository r is created at path p or renamed to it; its old path goes on
\* leading to it until another repository takes it.
Move(r, p) ==
    /\ GitHubChanges
    /\ \A s \in Repos : canonical[s] # p
    /\ canonical' = [canonical EXCEPT ![r] = p]
    /\ resolves' = [resolves EXCEPT ![p] = r]
    /\ moved' = [moved EXCEPT ![p] = now]
    /\ UNCHANGED <<visible, turned, readable>>

Disconnect(c) ==
    /\ "disconnect" \in Faults
    /\ pc[c] \notin {"idle", "reply"}
    /\ c \notin gone
    /\ gone' = gone \cup {c}
    /\ UNCHANGED <<now, githubVars, storeVars, flights, pc, request, since, meant, local, answer>>

\* Registry.ActivateSnapshot: the next store starts with empty tables.
SwitchStore ==
    /\ "switch" \in Faults
    /\ rows' = {}
    /\ negative' = [p \in Paths |-> {}]
    /\ UNCHANGED <<now, githubVars, flights, clientVars>>

------------------------------------------------------------------------------

Step(c) ==
    \/ Request(c) \/ LookupNegative(c) \/ Lead(c) \/ Wait(c) \/ GiveUp(c)
    \/ FetchFails(c) \/ Fetch(c) \/ Record(c) \/ Save(c) \/ Clear(c)
    \/ Reply(c)

Next ==
    \/ \E c \in Clients : Step(c) \/ Disconnect(c)
    \/ \E r \in Repos : Turn(r) \/ \E p \in Paths : Move(r, p)
    \/ Tick \/ SwitchStore

Spec == Init /\ [][Next]_vars

------------------------------------------------------------------------------
(* Properties.                                                               *)

Says(c, status) == pc[c] = "reply" /\ answer[c].status = status

\* README.md:137: a row stays fresh for METADATA_TTL_SECONDS.  What is answered
\* without falling back on an old row was public no longer ago than that, however
\* slowly a flight writes what it fetched, under whatever name it was asked for.
PublicIsRecent ==
    \A c \in Clients : Says(c, "public") =>
        \A v \in answer[c].val : visible[v.repo] \/ turned[v.repo] >= since[c] - TTL + 1

\* Since time t path p has led, or may have led, to a repository that was not public.
Hidden(p, t) ==
    \/ moved[p] >= t
    \/ resolves[p] # None /\ (~visible[resolves[p]] \/ turned[resolves[p]] >= t)

\* Since time t path p has led, or may have led, to no public repository.
Unavailable(p, t) == resolves[p] = None \/ Hidden(p, t)

\* When the oldest negative entry was written that may answer request c.
Oldest(c) == since[c] - NegativeTTL + 1

\* README.md:138: a repository is remembered as unavailable for
\* METADATA_NEGATIVE_CACHE_TTL_SECONDS.  "Private" is said of a path that led to a
\* repository that was not public that short a time ago; "not found" of one that led
\* to no public repository, or to another one than the request, or the leader of the
\* flight it joined, named.
UnavailableIsRecent ==
    \A c \in Clients :
        /\ Says(c, "private") => Hidden(Path(c), Oldest(c))
        /\ Says(c, "missing") =>
            Unavailable(Path(c), Oldest(c)) \/ meant[c] \notin {None, resolves[Path(c)]}

\* history.go:350: "Repository ID does not match the requested path": what is
\* answered is about the repository the requested path leads to, or led to when
\* the row was checked.
AnswerIsAboutThePath ==
    \A c \in Clients : Says(c, "public") =>
        \A v \in answer[c].val :
            \/ request[c].id \notin {None, v.repo}
            \/ resolves[Path(c)] = v.repo
            \/ moved[Path(c)] >= since[c] - TTL + 1
==============================================================================
