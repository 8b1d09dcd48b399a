------------------------- MODULE MetadataCache_proofs -------------------------
(***************************************************************************)
(* What MetadataCache promises, for any number of clients, paths and       *)
(* repositories and any two TTLs: that an answer without fallback was true *)
(* no longer ago than its TTL.                                             *)
(***************************************************************************)
EXTENDS MetadataCache, TLAPS

------------------------------------------------------------------------------
(* The inductive invariant.                                                  *)

\* GitHub has shown repository v.repo as public at some time since t.
Public(v, t) == visible[v.repo] \/ turned[v.repo] >= t

\* What a refusal for this reason says of path p was true at some time since t.
Withheld(reason, p, t) ==
    /\ reason = "private" => Hidden(p, t)
    /\ reason = "missing" => Unavailable(p, t)

\* Whatever a path leads to has a name.
NameInv == \A p \in Paths : resolves[p] # None => canonical[resolves[p]] \in Paths

\* Between the arrival of a request and its reply its parameters are there.
RequestInv ==
    \A c \in Clients :
        /\ pc[c] # "idle" => request[c] \in [path : Paths, id : Asked]
        /\ since[c] <= now
        /\ pc[c] \notin {"idle", "waiting", "reply"} => meant[c] = request[c].id

Refreshing == {"fetch", "record", "save", "clear"}

\* A flight has one leader; whoever waits in it counts from the leader's arrival and
\* means the leader's repo_id.
FlightInv ==
    /\ \A c \in Clients : pc[c] \in Refreshing => flights[Path(c)] = {c}
    /\ \A p \in Paths : \A c \in flights[p] : pc[c] \in Refreshing /\ Path(c) = p
    /\ \A d \in Clients : pc[d] = "waiting" =>
        \E c \in flights[Path(d)] : since[d] = since[c] /\ meant[d] = meant[c]

\* What a row or a negative entry says was true when it was written.
RowsInv == \A v \in rows : v.checked <= now /\ Public(v, v.checked)

NegativeInv ==
    \A p \in Paths : \A n \in negative[p] :
        n.checked <= now /\ Withheld(n.reason, p, n.checked)

\* What a request holds: the time of its lookup, and what GitHub told it since.
LocalOK(c) ==
    /\ pc[c] = "negative" => local[c].now = since[c]
    /\ pc[c] = "record" =>
        /\ local[c].fetched.status \in Reason
        /\ Withheld(local[c].fetched.status, Path(c), now)
    /\ pc[c] \in {"save", "clear"} =>
        /\ local[c].fetched.status = "public"
        /\ \A v \in local[c].fetched.val :
            since[c] <= v.checked /\ v.checked <= now /\ Public(v, v.checked)

LocalInv == \A c \in Clients : LocalOK(c)

\* An answer to a request for path p that counts from time s and means repo_id i.
Honest(a, p, s, i) ==
    /\ a.status = "public" => \A v \in a.val : Public(v, s - TTL + 1)
    /\ a.status = "private" => Hidden(p, s - NegativeTTL + 1)
    /\ a.status = "missing" =>
        Unavailable(p, s - NegativeTTL + 1) \/ i \notin {None, resolves[p]}

AnswerInv ==
    \A c \in Clients : pc[c] = "reply" => Honest(answer[c], Path(c), since[c], meant[c])

MetadataInv ==
    /\ TypeOK /\ NameInv /\ RequestInv /\ FlightInv
    /\ RowsInv /\ NegativeInv /\ LocalInv /\ AnswerInv

------------------------------------------------------------------------------
(* Lemmas.                                                                   *)

LEMMA Constants ==
    /\ TTL \in Nat \ {0} /\ NegativeTTL \in Nat \ {0} /\ None \notin Paths /\ None \notin Repos
BY MetadataAssumption

LEMMA AnswerTypes ==
    /\ \A s \in Status : Plain(s) \in Answer /\ Plain(s).status = s /\ Plain(s).val = {}
    /\ NoLocal \in Local
BY DEF Plain, Answer, Status, Local, NoLocal

\* Rows that a lookup finds.
LEMMA LookupType ==
    ASSUME NEW p, NEW id
    PROVE  Lookup(p, id) \subseteq rows
BY DEF Lookup, Named

\* An answer of a request that is not in a flight: c alone is concerned.
LEMMA AnsweredInv ==
    ASSUME MetadataInv, NEW c \in Clients, pc[c] \in {"idle", "negative", "waiting"},
           NEW a \in Answer, Answered(c, a),
           NEW q \in [path : Paths, id : Asked], request' = [request EXCEPT ![c] = q],
           NEW s \in Nat, since' = [since EXCEPT ![c] = s], s <= now,
           NEW i \in Asked \cup {None}, meant' = [meant EXCEPT ![c] = i],
           Honest(a, q.path, s, i),
           UNCHANGED <<now, githubVars, storeVars, flights>>
    PROVE  MetadataInv'
<1>1. /\ TypeOK /\ NameInv /\ RequestInv /\ FlightInv /\ RowsInv /\ NegativeInv /\ LocalInv
      /\ AnswerInv
  BY DEF MetadataInv
<1>2. /\ UNCHANGED <<now, resolves, moved, canonical, visible, turned, readable, changes>>
      /\ UNCHANGED <<rows, negative, flights>>
  BY DEF githubVars, storeVars
<1>3. /\ answer' = [answer EXCEPT ![c] = a] /\ gone' = gone \ {c}
      /\ pc' = [pc EXCEPT ![c] = "reply"] /\ local' = [local EXCEPT ![c] = NoLocal]
  BY DEF Answered
<1>4. TypeOK'
  BY <1>1, <1>2, <1>3, AnswerTypes DEF TypeOK, PC
<1>5. /\ pc'[c] = "reply" /\ request'[c] = q /\ since'[c] = s /\ answer'[c] = a /\ meant'[c] = i
      /\ \A d \in Clients \ {c} : /\ pc'[d] = pc[d] /\ request'[d] = request[d]
                                 /\ since'[d] = since[d] /\ local'[d] = local[d]
                                 /\ answer'[d] = answer[d] /\ meant'[d] = meant[d]
  BY <1>1, <1>3 DEF TypeOK
<1>6. RequestInv'
  BY <1>1, <1>2, <1>5 DEF RequestInv
<1>7. FlightInv'
  <2>1. \A p \in Paths : c \notin flights[p]
    BY <1>1 DEF FlightInv, Refreshing
  <2>2. \A d \in Clients \ {c} : pc[d] # "idle" => Path(d) \in Paths /\ Path(d)' = Path(d)
    BY <1>1, <1>5 DEF RequestInv, Path
  <2>3. \A d \in Clients : pc'[d] \in Refreshing => flights'[Path(d)'] = {d}
    BY <1>1, <1>2, <1>5, <2>2 DEF FlightInv, Refreshing
  <2>4. \A p \in Paths : \A d \in flights'[p] : pc'[d] \in Refreshing /\ Path(d)' = p
    BY <1>1, <1>2, <1>5, <2>1 DEF FlightInv, Path, TypeOK
  <2>5. ASSUME NEW d \in Clients, pc'[d] = "waiting"
        PROVE  \E l \in flights'[Path(d)'] : since'[d] = since'[l] /\ meant'[d] = meant'[l]
    <3>1. d # c /\ pc[d] = "waiting" /\ Path(d)' = Path(d) /\ Path(d) \in Paths
      BY <1>5, <2>2, <2>5
    <3>2. PICK l \in flights[Path(d)] : since[d] = since[l] /\ meant[d] = meant[l]
      BY <1>1, <3>1 DEF FlightInv
    <3>3. l \in Clients \ {c}
      BY <1>1, <2>1, <3>1, <3>2 DEF TypeOK
    <3> QED BY <1>2, <1>5, <3>1, <3>2, <3>3
  <2> QED BY <2>3, <2>4, <2>5 DEF FlightInv
<1>8. LocalInv'
  <2> SUFFICES ASSUME NEW d \in Clients PROVE LocalOK(d)'
    BY DEF LocalInv
  <2>1. CASE d = c
    BY <1>5, <2>1 DEF LocalOK
  <2>2. CASE d # c
    BY <1>1, <1>2, <1>5, <2>2 DEF LocalInv, LocalOK, Public, Unavailable, Hidden, Withheld, Path
  <2> QED BY <2>1, <2>2
<1>9. AnswerInv'
  <2> SUFFICES ASSUME NEW d \in Clients, pc'[d] = "reply"
               PROVE  Honest(answer[d], Path(d), since[d], meant[d])'
    BY DEF AnswerInv
  <2>1. CASE d = c
    BY <1>2, <1>5, <2>1 DEF Honest, Public, Unavailable, Hidden, Withheld, Path
  <2>2. CASE d # c
    BY <1>1, <1>2, <1>5, <2>2 DEF AnswerInv, Honest, Public, Unavailable, Hidden, Withheld, Path
  <2> QED BY <2>1, <2>2
<1>10. NameInv' /\ RowsInv' /\ NegativeInv'
  BY <1>1, <1>2 DEF NameInv, RowsInv, NegativeInv, Public, Unavailable, Hidden, Withheld
<1> QED BY <1>4, <1>6, <1>7, <1>8, <1>9, <1>10 DEF MetadataInv

\* The rows are one for each repository and say what was true at their dates.
RowsOK ==
    RowsInv /\ rows \in SUBSET Value /\ \A u, w \in rows : u.repo = w.repo => u = w

\* The end of a flight: everyone who waits in it gets the leader's answer, and counts
\* from the leader's arrival.
LEMMA ReturnInv ==
    ASSUME MetadataInv, NEW c \in Clients, pc[c] \in Refreshing,
           NEW a \in Answer, Return(c, a), Honest(a, Path(c), since[c], meant[c]),
           UNCHANGED <<now, githubVars, request, since, meant>>,
           rows' = rows \/ RowsOK', negative' \in [Paths -> SUBSET Entry], NegativeInv'
    PROVE  MetadataInv'
<1> DEFINE served == {c} \cup {d \in Clients : pc[d] = "waiting" /\ Path(d) = Path(c)}
<1>1. /\ TypeOK /\ NameInv /\ RequestInv /\ FlightInv /\ RowsInv /\ LocalInv /\ AnswerInv
  BY DEF MetadataInv
<1>2. /\ UNCHANGED <<now, resolves, moved, canonical, visible, turned, readable, changes>>
      /\ UNCHANGED <<request, since, meant>>
  BY DEF githubVars
<1>3. /\ answer' = [d \in Clients |-> IF d \in served THEN a ELSE answer[d]]
      /\ pc' = [d \in Clients |-> IF d \in served THEN "reply" ELSE pc[d]]
      /\ gone' = gone \ served
      /\ local' = [local EXCEPT ![c] = NoLocal]
      /\ flights' = [flights EXCEPT ![Path(c)] = {}]
  BY DEF Return
<1>4. Path(c) \in Paths /\ flights[Path(c)] = {c}
  BY <1>1 DEF RequestInv, FlightInv, Path, Refreshing
<1>5. \A d \in served : /\ d \in Clients /\ Path(d) = Path(c) /\ pc[d] # "idle"
                         /\ since[d] = since[c] /\ meant[d] = meant[c]
  BY <1>1, <1>4 DEF FlightInv, Refreshing
<1> HIDE DEF served
<1>r. RowsOK'
  BY <1>1, <1>2 DEF RowsOK, RowsInv, Public, TypeOK
<1>6. TypeOK'
  BY <1>1, <1>2, <1>3, <1>4, <1>r, AnswerTypes DEF TypeOK, RowsOK, PC
<1>7. RequestInv'
  BY <1>1, <1>2, <1>3, <1>5 DEF RequestInv
<1>8. c \in served
  BY DEF served
<1>9. FlightInv'
  <2>1. \A d \in Clients : Path(d)' = Path(d)
    BY <1>2 DEF Path
  <2>2. \A d \in Clients : pc'[d] \in Refreshing => pc[d] \in Refreshing /\ d # c
    BY <1>3, <1>8 DEF Refreshing
  <2>3. \A d \in Clients : pc'[d] \in Refreshing => flights'[Path(d)'] = {d}
    <3> SUFFICES ASSUME NEW d \in Clients, pc'[d] \in Refreshing
                 PROVE  flights'[Path(d)] = {d}
      BY <2>1
    <3>1. flights[Path(d)] = {d} /\ d # c
      BY <1>1, <2>2 DEF FlightInv
    <3>2. Path(d) # Path(c)
      BY <1>4, <3>1
    <3> QED BY <1>1, <1>3, <3>1, <3>2 DEF TypeOK
  <2>4. ASSUME NEW p \in Paths, NEW d \in flights'[p]
        PROVE  pc'[d] \in Refreshing /\ Path(d)' = p
    <3>1. p # Path(c) /\ d \in flights[p] /\ d \in Clients
      BY <1>1, <1>3, <1>4, <2>4 DEF TypeOK
    <3>2. pc[d] \in Refreshing /\ Path(d) = p
      BY <1>1, <3>1 DEF FlightInv
    <3>3. d \notin served
      BY <1>5, <3>1, <3>2
    <3> QED BY <1>3, <2>1, <3>1, <3>2, <3>3
  <2>5. ASSUME NEW d \in Clients, pc'[d] = "waiting"
        PROVE  \E l \in flights'[Path(d)'] : since'[d] = since'[l] /\ meant'[d] = meant'[l]
    <3>1. d \notin served /\ pc[d] = "waiting"
      BY <1>3, <2>5
    <3>2. Path(d) # Path(c)
      BY <3>1 DEF served
    <3>3. \E l \in flights[Path(d)] : since[d] = since[l] /\ meant[d] = meant[l]
      BY <1>1, <3>1 DEF FlightInv
    <3>4. flights'[Path(d)] = flights[Path(d)]
      BY <1>1, <1>3, <3>2 DEF TypeOK
    <3> QED BY <1>2, <2>1, <3>3, <3>4
  <2> QED BY <2>3, <2>4, <2>5 DEF FlightInv
<1>10. RowsInv' /\ NameInv'
  BY <1>1, <1>2, <1>r DEF RowsOK, NameInv
<1>11. LocalInv'
  <2> SUFFICES ASSUME NEW d \in Clients PROVE LocalOK(d)'
    BY DEF LocalInv
  <2>1. CASE d \in served
    BY <1>3, <2>1 DEF LocalOK
  <2>2. CASE d \notin served
    <3>1. pc'[d] = pc[d] /\ local'[d] = local[d] /\ LocalOK(d)
      BY <1>1, <1>3, <1>8, <2>2 DEF LocalInv, TypeOK
    <3> QED BY <1>2, <3>1 DEF LocalOK, Public, Unavailable, Hidden, Withheld, Path
  <2> QED BY <2>1, <2>2
<1>12. AnswerInv'
  <2> SUFFICES ASSUME NEW d \in Clients, pc'[d] = "reply"
               PROVE  Honest(answer[d], Path(d), since[d], meant[d])'
    BY DEF AnswerInv
  <2>1. CASE d \in served
    <3>1. answer'[d] = a /\ Path(d) = Path(c) /\ since[d] = since[c] /\ meant[d] = meant[c]
      BY <1>3, <1>5, <2>1
    <3> QED BY <1>2, <3>1 DEF Honest, Public, Unavailable, Hidden, Withheld, Path
  <2>2. CASE d \notin served
    <3>1. answer'[d] = answer[d] /\ Honest(answer[d], Path(d), since[d], meant[d])
      BY <1>1, <1>3, <2>2 DEF AnswerInv
    <3> QED BY <1>2, <3>1 DEF Honest, Public, Unavailable, Hidden, Withheld, Path
  <2> QED BY <2>1, <2>2
<1> QED BY <1>6, <1>7, <1>9, <1>10, <1>11, <1>12 DEF MetadataInv

\* A step of a request that goes on: nobody else is concerned.
LEMMA GoesOnInv ==
    ASSUME MetadataInv, NEW c \in Clients, pc[c] # "idle", NEW x \in PC \ {"idle", "reply"},
           pc' = [pc EXCEPT ![c] = x],
           UNCHANGED <<now, githubVars, request, answer>>,
           TypeOK', RowsInv', NegativeInv', FlightInv', LocalOK(c)', since'[c] <= now,
           x # "waiting" => meant'[c] = request[c].id,
           \A d \in Clients \ {c} :
               local'[d] = local[d] /\ since'[d] = since[d] /\ meant'[d] = meant[d]
    PROVE  MetadataInv'
<1>1. /\ TypeOK /\ NameInv /\ RequestInv /\ LocalInv /\ AnswerInv
  BY DEF MetadataInv
<1>2. UNCHANGED <<now, resolves, moved, canonical, visible, turned, readable, changes, request, answer>>
  BY DEF githubVars
<1>3. pc'[c] = x /\ \A d \in Clients \ {c} : pc'[d] = pc[d]
  BY <1>1 DEF TypeOK
<1>4. NameInv' /\ RequestInv'
  BY <1>1, <1>2, <1>3 DEF NameInv, RequestInv
<1>5. ASSUME NEW d \in Clients \ {c} PROVE LocalOK(d)'
  <2>1. pc'[d] = pc[d] /\ local'[d] = local[d] /\ since'[d] = since[d] /\ LocalOK(d)
    BY <1>1, <1>3 DEF LocalInv
  <2> QED BY <1>2, <2>1 DEF LocalOK, Public, Unavailable, Hidden, Withheld, Path
<1>6. ASSUME NEW d \in Clients, pc'[d] = "reply"
      PROVE  Honest(answer[d], Path(d), since[d], meant[d])'
  <2>1. d # c /\ since'[d] = since[d] /\ Honest(answer[d], Path(d), since[d], meant[d])
    BY <1>1, <1>3, <1>6 DEF AnswerInv
  <2> QED BY <1>2, <2>1 DEF Honest, Public, Unavailable, Hidden, Withheld, Path
<1> QED BY <1>4, <1>5, <1>6 DEF MetadataInv, LocalInv, AnswerInv

\* A flight goes on with the same leader and the same members.
LEMMA SameFlight ==
    ASSUME MetadataInv, NEW c \in Clients, pc[c] \in {"negative"} \cup Refreshing,
           NEW x \in PC, pc' = [pc EXCEPT ![c] = x],
           x # "waiting", x \in Refreshing <=> pc[c] \in Refreshing,
           UNCHANGED <<request, since, meant, flights>>
    PROVE  FlightInv'
<1>1. TypeOK /\ FlightInv
  BY DEF MetadataInv
<1>2. pc'[c] = x /\ \A d \in Clients \ {c} : pc'[d] = pc[d]
  BY <1>1 DEF TypeOK
<1>3. \A d \in Clients : Path(d)' = Path(d)
  BY DEF Path
<1>4. \A d \in Clients : /\ pc'[d] \in Refreshing <=> pc[d] \in Refreshing
                         /\ pc'[d] = "waiting" <=> pc[d] = "waiting"
  BY <1>2 DEF Refreshing
<1>5. \A p \in Paths : flights[p] \subseteq Clients
  BY <1>1 DEF TypeOK
<1> QED BY <1>1, <1>3, <1>4, <1>5 DEF FlightInv

------------------------------------------------------------------------------
(* Each action preserves the invariant.                                      *)

LEMMA RequestStep ==
    ASSUME MetadataInv, NEW c \in Clients, Request(c)
    PROVE  MetadataInv'
<1>1. /\ TypeOK /\ FlightInv /\ RowsInv /\ NegativeInv /\ RequestInv
  BY DEF MetadataInv
<1>2. /\ pc[c] = "idle" /\ since' = [since EXCEPT ![c] = now]
      /\ UNCHANGED <<now, githubVars, storeVars, flights>>
  BY DEF Request
<1>3. PICK p \in Paths, id \in Asked :
        /\ request' = [request EXCEPT ![c] = [path |-> p, id |-> id]]
        /\ meant' = [meant EXCEPT ![c] = id]
        /\ \/ Answered(c, Plain("error"))
           \/ \E v \in Lookup(p, id) :
              now - v.checked < TTL /\ Answered(c, [status |-> "public", val |-> {v}])
           \/ /\ local' = [local EXCEPT ![c].cached = Lookup(p, id), ![c].now = now]
              /\ pc' = [pc EXCEPT ![c] = "negative"]
              /\ UNCHANGED <<gone, answer>>
  BY DEF Request
<1> DEFINE q == [path |-> p, id |-> id]
<1>4. /\ now \in Nat /\ now <= now /\ q \in [path : Paths, id : Asked] /\ q.path = p
      /\ id \in Asked \cup {None}
  BY <1>1 DEF TypeOK
<1>5. CASE Answered(c, Plain("error"))
  <2>1. Plain("error") \in Answer /\ Honest(Plain("error"), p, now, id)
    BY AnswerTypes DEF Honest, Status
  <2> QED BY <1>2, <1>3, <1>4, <1>5, <2>1, AnsweredInv
<1>6. ASSUME NEW v \in Lookup(p, id), now - v.checked < TTL,
             Answered(c, [status |-> "public", val |-> {v}])
      PROVE  MetadataInv'
  <2> DEFINE a == [status |-> "public", val |-> {v}]
  <2>1. v \in rows /\ v \in Value
    BY <1>1, LookupType DEF TypeOK
  <2>2. a \in Answer
    BY <2>1 DEF Answer, Status
  <2>3. v.checked \in Nat /\ v.checked >= now - TTL + 1 /\ Public(v, v.checked)
    BY <1>1, <1>4, <1>6, <2>1, Constants DEF RowsInv, Value
  <2>4. turned[v.repo] \in Nat
    BY <1>1, <2>1 DEF TypeOK, Value
  <2>5. Public(v, now - TTL + 1)
    BY <1>4, <2>3, <2>4, Constants DEF Public
  <2>6. Honest(a, q.path, now, id)
    BY <2>5 DEF Honest
  <2>7. /\ Answered(c, a) /\ request' = [request EXCEPT ![c] = q]
        /\ meant' = [meant EXCEPT ![c] = id]
    BY <1>3, <1>6
  <2> HIDE DEF a, q
  <2> QED BY <1>2, <1>4, <2>2, <2>6, <2>7, AnsweredInv
<1>7. CASE /\ local' = [local EXCEPT ![c].cached = Lookup(p, id), ![c].now = now]
           /\ pc' = [pc EXCEPT ![c] = "negative"]
           /\ UNCHANGED <<gone, answer>>
  <2>1. /\ UNCHANGED <<now, resolves, moved, canonical, visible, turned, readable, changes>>
        /\ UNCHANGED <<rows, negative, flights, gone, answer>>
    BY <1>2, <1>7 DEF githubVars, storeVars
  <2> DEFINE l == [local[c] EXCEPT !.cached = Lookup(p, id), !.now = now]
  <2>2. l \in Local /\ l.now = now
    BY <1>1, <1>4, LookupType DEF TypeOK, Local
  <2>3. local' = [local EXCEPT ![c] = l]
    BY <1>7
  <2> HIDE DEF l, q
  <2>4. TypeOK'
    <3>1. pc' \in [Clients -> PC]
      BY <1>1, <1>7 DEF TypeOK, PC
    <3>2. /\ since' \in [Clients -> Nat] /\ local' \in [Clients -> Local]
          /\ meant' \in [Clients -> Asked \cup {None}]
      BY <1>1, <1>2, <1>3, <1>4, <2>2, <2>3 DEF TypeOK
    <3>3. request' \in [Clients -> [path : Paths, id : Asked] \cup {None}]
      BY <1>1, <1>3, <1>4 DEF TypeOK, q
    <3> QED BY <1>1, <2>1, <3>1, <3>2, <3>3 DEF TypeOK
  <2>5. /\ pc'[c] = "negative" /\ request'[c] = q /\ since'[c] = now /\ local'[c].now = now
        /\ meant'[c] = q.id
        /\ \A d \in Clients \ {c} : /\ pc'[d] = pc[d] /\ request'[d] = request[d]
                                   /\ meant'[d] = meant[d]
                                   /\ since'[d] = since[d] /\ local'[d] = local[d]
    BY <1>1, <1>2, <1>3, <1>7, <2>2, <2>3 DEF TypeOK, q
  <2>6. RequestInv'
    BY <1>1, <1>4, <2>1, <2>5 DEF RequestInv
  <2>7. FlightInv'
    <3>1. \A e \in Paths : c \notin flights[e] /\ flights[e] \subseteq Clients
      BY <1>1, <1>2 DEF FlightInv, Refreshing, TypeOK
    <3>2. \A d \in Clients \ {c} : pc[d] # "idle" => Path(d) \in Paths /\ Path(d)' = Path(d)
      BY <1>1, <2>5 DEF RequestInv, Path
    <3>3. \A d \in Clients : pc'[d] \in Refreshing => flights'[Path(d)'] = {d}
      BY <1>1, <2>1, <2>5, <3>2 DEF FlightInv, Refreshing
    <3>4. \A e \in Paths : \A d \in flights'[e] : pc'[d] \in Refreshing /\ Path(d)' = e
      BY <1>1, <2>1, <2>5, <3>1 DEF FlightInv, Path
    <3>5. ASSUME NEW d \in Clients, pc'[d] = "waiting"
          PROVE  \E k \in flights'[Path(d)'] : since'[d] = since'[k] /\ meant'[d] = meant'[k]
      <4>1. d # c /\ pc[d] = "waiting" /\ Path(d)' = Path(d) /\ Path(d) \in Paths
        BY <2>5, <3>2, <3>5
      <4>2. PICK k \in flights[Path(d)] : since[d] = since[k] /\ meant[d] = meant[k]
        BY <1>1, <4>1 DEF FlightInv
      <4>3. k \in Clients \ {c}
        BY <3>1, <4>1, <4>2
      <4> QED BY <2>1, <2>5, <4>1, <4>2, <4>3
    <3> QED BY <3>3, <3>4, <3>5 DEF FlightInv
  <2>8. NameInv' /\ RowsInv' /\ NegativeInv'
    BY <1>1, <2>1 DEF MetadataInv, NameInv, RowsInv, NegativeInv, Public, Unavailable, Hidden, Withheld
  <2>9. ASSUME NEW d \in Clients PROVE LocalOK(d)'
    <3>1. CASE d = c
      BY <2>5, <3>1 DEF LocalOK
    <3>2. CASE d # c
      BY <2>1, <2>5, <3>2 DEF MetadataInv, LocalInv, LocalOK, Public, Unavailable, Hidden, Withheld, Path
    <3> QED BY <3>1, <3>2
  <2>10. AnswerInv'
    BY <2>1, <2>5 DEF MetadataInv, AnswerInv, Honest, Public, Unavailable, Hidden, Withheld, Path
  <2> QED BY <2>4, <2>6, <2>7, <2>8, <2>9, <2>10 DEF MetadataInv, LocalInv
<1> QED BY <1>3, <1>5, <1>6, <1>7

\* What was true at some time since t was true at some time since any u before it.
LEMMA WithheldLonger ==
    ASSUME TypeOK, NEW reason, NEW p \in Paths, NEW t \in Nat, NEW u \in Int, u <= t,
           Withheld(reason, p, t)
    PROVE  Withheld(reason, p, u)
<1>1. moved[p] \in Nat /\ resolves[p] # None => turned[resolves[p]] \in Nat
  BY DEF TypeOK
<1>2. Hidden(p, t) => Hidden(p, u)
  BY <1>1 DEF Hidden, TypeOK
<1> QED BY <1>2 DEF Withheld, Unavailable

\* The negative entry that is looked up after the row still counts from the arrival.
LEMMA LookupNegativeStep ==
    ASSUME MetadataInv, NEW c \in Clients, LookupNegative(c)
    PROVE  MetadataInv'
<1>1. /\ TypeOK /\ FlightInv /\ RowsInv /\ NegativeInv /\ RequestInv /\ LocalOK(c)
      /\ pc[c] = "negative"
  BY DEF MetadataInv, LocalInv, LookupNegative
<1>2. UNCHANGED <<now, githubVars, storeVars, flights, request, since, meant>>
  BY DEF LookupNegative
<1>3. /\ request[c] \in [path : Paths, id : Asked] /\ since[c] \in Nat /\ since[c] <= now
      /\ local[c].now = since[c] /\ Path(c) \in Paths /\ request[c].path = Path(c)
      /\ meant[c] = request[c].id /\ meant[c] \in Asked \cup {None}
  BY <1>1 DEF RequestInv, LocalOK, TypeOK, Path
<1>4. /\ request' = [request EXCEPT ![c] = request[c]] /\ since' = [since EXCEPT ![c] = since[c]]
      /\ meant' = [meant EXCEPT ![c] = meant[c]]
  BY <1>1, <1>2 DEF TypeOK
<1>5. ASSUME NEW n \in Refused(c), Answered(c, Plain(n.reason))
      PROVE  MetadataInv'
  <2>1. /\ n \in negative[Path(c)] /\ n.checked \in Nat /\ n.reason \in Reason
        /\ since[c] - n.checked < NegativeTTL
    BY <1>1, <1>3, <1>5 DEF Refused, TypeOK, Entry
  <2>2. Withheld(n.reason, Path(c), n.checked) /\ n.checked >= since[c] - NegativeTTL + 1
    BY <1>1, <1>3, <2>1, Constants DEF NegativeInv
  <2>3. Withheld(n.reason, Path(c), since[c] - NegativeTTL + 1)
    <3>1. since[c] - NegativeTTL + 1 \in Int
      BY <1>3, Constants
    <3> QED BY <1>1, <1>3, <2>1, <2>2, <3>1, WithheldLonger
  <2>4. /\ Plain(n.reason) \in Answer /\ Plain(n.reason).status = n.reason
        /\ n.reason # "public"
    BY <2>1, AnswerTypes DEF Status, Reason
  <2>5. Honest(Plain(n.reason), request[c].path, since[c], meant[c])
    BY <1>3, <2>3, <2>4 DEF Honest, Withheld
  <2> QED BY <1>1, <1>2, <1>3, <1>4, <1>5, <2>4, <2>5, AnsweredInv
<1>6. CASE pc' = [pc EXCEPT ![c] = "missed"] /\ UNCHANGED <<gone, local, answer>>
  <2>1. FlightInv'
    BY <1>1, <1>2, <1>6, SameFlight DEF PC, Refreshing
  <2>2. TypeOK'
    BY <1>1, <1>2, <1>6 DEF TypeOK, PC, githubVars, storeVars
  <2>3. RowsInv' /\ NegativeInv'
    BY <1>1, <1>2 DEF RowsInv, NegativeInv, githubVars, storeVars, Public, Unavailable, Hidden, Withheld
  <2>4. LocalOK(c)'
    BY <1>1, <1>6 DEF LocalOK, TypeOK
  <2> QED BY <1>1, <1>2, <1>3, <1>6, <2>1, <2>2, <2>3, <2>4, GoesOnInv DEF PC
<1> QED BY <1>5, <1>6 DEF LookupNegative

LEMMA LeadStep ==
    ASSUME MetadataInv, NEW c \in Clients, Lead(c)
    PROVE  MetadataInv'
<1>1. /\ TypeOK /\ FlightInv /\ RowsInv /\ NegativeInv /\ RequestInv
      /\ pc[c] = "missed" /\ flights[Path(c)] = {}
      /\ flights' = [flights EXCEPT ![Path(c)] = {c}] /\ pc' = [pc EXCEPT ![c] = "fetch"]
  BY DEF MetadataInv, Lead
<1>2. UNCHANGED <<now, githubVars, storeVars, request, since, meant, gone, local, answer>>
  BY DEF Lead
<1>3. /\ Path(c) \in Paths /\ since[c] <= now /\ \A d \in Clients : Path(d)' = Path(d)
      /\ meant[c] = request[c].id
  BY <1>1, <1>2 DEF RequestInv, Path
<1>4. pc'[c] = "fetch" /\ \A d \in Clients \ {c} : pc'[d] = pc[d]
  BY <1>1 DEF TypeOK
<1>5. /\ flights'[Path(c)] = {c}
      /\ \A p \in Paths \ {Path(c)} : flights'[p] = flights[p]
  BY <1>1, <1>3 DEF TypeOK
<1>6. \A d \in Clients : pc[d] # "idle" => Path(d) \in Paths
  BY <1>1 DEF RequestInv, Path
<1>7. FlightInv'
  <2>1. \A d \in Clients : pc'[d] \in Refreshing => flights'[Path(d)'] = {d}
    <3> SUFFICES ASSUME NEW d \in Clients \ {c}, pc[d] \in Refreshing
                 PROVE  flights'[Path(d)] = {d}
      BY <1>3, <1>4, <1>5
    <3>1. flights[Path(d)] = {d} /\ Path(d) \in Paths
      BY <1>1, <1>6 DEF FlightInv, Refreshing
    <3>2. Path(d) # Path(c)
      BY <1>1, <3>1
    <3> QED BY <1>5, <3>1, <3>2
  <2>2. \A p \in Paths : \A d \in flights'[p] : pc'[d] \in Refreshing /\ Path(d)' = p
    <3> SUFFICES ASSUME NEW p \in Paths, NEW d \in flights'[p]
                 PROVE  pc'[d] \in Refreshing /\ Path(d)' = p
      OBVIOUS
    <3>1. CASE p = Path(c)
      BY <1>3, <1>4, <1>5, <3>1 DEF Refreshing
    <3>2. CASE p # Path(c)
      <4>1. d \in flights[p] /\ d \in Clients
        BY <1>1, <1>5, <3>2 DEF TypeOK
      <4>2. pc[d] \in Refreshing /\ Path(d) = p
        BY <1>1, <4>1 DEF FlightInv
      <4> QED BY <1>1, <1>3, <1>4, <4>1, <4>2 DEF Refreshing
    <3> QED BY <3>1, <3>2
  <2>3. ASSUME NEW d \in Clients, pc'[d] = "waiting"
        PROVE  \E k \in flights'[Path(d)'] : since'[d] = since'[k] /\ meant'[d] = meant'[k]
    <3>1. pc[d] = "waiting" /\ Path(d) \in Paths
      BY <1>4, <1>6, <2>3
    <3>2. PICK k \in flights[Path(d)] : since[d] = since[k] /\ meant[d] = meant[k]
      BY <1>1, <3>1 DEF FlightInv
    <3>3. Path(d) # Path(c)
      BY <1>1, <3>2
    <3> QED BY <1>2, <1>3, <1>5, <3>1, <3>2, <3>3
  <2> QED BY <2>1, <2>2, <2>3 DEF FlightInv
<1>8. TypeOK'
  BY <1>1, <1>2, <1>3 DEF TypeOK, PC, githubVars, storeVars
<1>9. RowsInv' /\ NegativeInv' /\ LocalOK(c)'
  BY <1>1, <1>2, <1>4 DEF RowsInv, NegativeInv, githubVars, storeVars, Public, Unavailable, Hidden, Withheld, LocalOK
<1> QED BY <1>1, <1>2, <1>3, <1>7, <1>8, <1>9, GoesOnInv DEF PC

LEMMA WaitStep ==
    ASSUME MetadataInv, NEW c \in Clients, Wait(c)
    PROVE  MetadataInv'
<1>1. /\ TypeOK /\ FlightInv /\ RowsInv /\ NegativeInv /\ RequestInv
      /\ pc[c] = "missed" /\ pc' = [pc EXCEPT ![c] = "waiting"]
      /\ local' = [local EXCEPT ![c] = NoLocal]
  BY DEF MetadataInv, Wait
<1>2. UNCHANGED <<now, githubVars, storeVars, flights, request, gone, answer>>
  BY DEF Wait
<1>3. PICK leader \in flights[Path(c)] :
        /\ since' = [since EXCEPT ![c] = since[leader]]
        /\ meant' = [meant EXCEPT ![c] = meant[leader]]
  BY DEF Wait
<1>4. /\ Path(c) \in Paths /\ \A d \in Clients : Path(d)' = Path(d)
      /\ \A d \in Clients : pc[d] # "idle" => Path(d) \in Paths
  BY <1>1, <1>2 DEF RequestInv, Path
<1>5. /\ leader \in Clients /\ leader # c /\ since[leader] \in Nat /\ since[leader] <= now
      /\ meant[leader] \in Asked \cup {None}
  BY <1>1, <1>3, <1>4 DEF TypeOK, FlightInv, Refreshing, RequestInv
<1>6. /\ pc'[c] = "waiting" /\ \A d \in Clients \ {c} : pc'[d] = pc[d]
      /\ since'[c] = since[leader] /\ \A d \in Clients \ {c} : since'[d] = since[d]
      /\ meant'[c] = meant[leader] /\ \A d \in Clients \ {c} : meant'[d] = meant[d]
      /\ \A d \in Clients \ {c} : local'[d] = local[d]
  BY <1>1, <1>3 DEF TypeOK
<1>7. FlightInv'
  <2>1. \A p \in Paths : flights[p] \subseteq Clients \ {c}
    BY <1>1 DEF TypeOK, FlightInv, Refreshing
  <2>2. \A d \in Clients : pc'[d] \in Refreshing => flights'[Path(d)'] = {d}
    BY <1>1, <1>2, <1>4, <1>6 DEF FlightInv, Refreshing
  <2>3. \A p \in Paths : \A d \in flights'[p] : pc'[d] \in Refreshing /\ Path(d)' = p
    BY <1>1, <1>2, <1>4, <1>6, <2>1 DEF FlightInv
  <2>4. ASSUME NEW d \in Clients, pc'[d] = "waiting"
        PROVE  \E k \in flights'[Path(d)'] : since'[d] = since'[k] /\ meant'[d] = meant'[k]
    <3>1. CASE d = c
      BY <1>2, <1>3, <1>4, <1>5, <1>6, <3>1
    <3>2. CASE d # c
      <4>1. pc[d] = "waiting" /\ Path(d) \in Paths
        BY <1>4, <1>6, <2>4, <3>2
      <4>2. PICK k \in flights[Path(d)] : since[d] = since[k] /\ meant[d] = meant[k]
        BY <1>1, <4>1 DEF FlightInv
      <4> QED BY <1>2, <1>4, <1>6, <2>1, <3>2, <4>1, <4>2
    <3> QED BY <3>1, <3>2
  <2> QED BY <2>2, <2>3, <2>4 DEF FlightInv
<1>8. TypeOK'
  BY <1>1, <1>2, <1>3, <1>5, AnswerTypes DEF TypeOK, PC, githubVars, storeVars
<1>9. RowsInv' /\ NegativeInv' /\ LocalOK(c)'
  BY <1>1, <1>2, <1>6 DEF RowsInv, NegativeInv, githubVars, storeVars, Public, Unavailable, Hidden, Withheld, LocalOK
<1> QED BY <1>1, <1>2, <1>5, <1>6, <1>7, <1>8, <1>9, GoesOnInv DEF PC

LEMMA GiveUpStep ==
    ASSUME MetadataInv, NEW c \in Clients, GiveUp(c)
    PROVE  MetadataInv'
<1>1. /\ TypeOK /\ RequestInv /\ pc[c] = "waiting" /\ Answered(c, Plain("canceled"))
      /\ UNCHANGED <<now, githubVars, storeVars, flights, request, since, meant>>
  BY DEF MetadataInv, GiveUp
<1>2. /\ request[c] \in [path : Paths, id : Asked] /\ since[c] \in Nat /\ since[c] <= now
      /\ meant[c] \in Asked \cup {None}
  BY <1>1 DEF RequestInv, TypeOK
<1>3. /\ request' = [request EXCEPT ![c] = request[c]] /\ since' = [since EXCEPT ![c] = since[c]]
      /\ meant' = [meant EXCEPT ![c] = meant[c]]
  BY <1>1 DEF TypeOK
<1>4. /\ Plain("canceled") \in Answer
      /\ Honest(Plain("canceled"), request[c].path, since[c], meant[c])
  BY AnswerTypes DEF Honest, Status
<1> QED BY <1>1, <1>2, <1>3, <1>4, AnsweredInv

\* What GitHub says is true now; what it says of a repository is about the one the
\* path leads to.
LEMMA UpstreamIsTrue ==
    ASSUME TypeOK, NameInv, NEW p \in Paths, NEW a, a = Upstream(p)
    PROVE  /\ a \in Answer
           /\ \A v \in a.val : v.repo = resolves[p]
           /\ \/ /\ a.status = "public"
                 /\ \A v \in a.val : v.checked = now /\ visible[v.repo]
              \/ a.status \in Reason /\ Withheld(a.status, p, now)
<1>1. CASE a = Plain("missing") /\ (resolves[p] = None \/ ~visible[resolves[p]])
  <2>1. a \in Answer /\ a.status = "missing" /\ a.val = {}
    BY <1>1, AnswerTypes DEF Status
  <2> QED BY <1>1, <2>1 DEF Withheld, Unavailable, Hidden, Reason
<1>2. CASE resolves[p] # None /\ a = Description(resolves[p])
  <2> DEFINE r == resolves[p]
             v == [repo |-> r, name |-> canonical[r], checked |-> now]
             st == IF visible[r] THEN "public" ELSE "private"
  <2>1. r \in Repos /\ canonical[r] \in Paths /\ now \in Nat
    BY <1>2 DEF TypeOK, NameInv
  <2>2. v \in Value /\ v.repo = r /\ v.checked = now
    BY <2>1 DEF Value
  <2>3. a = [status |-> st, val |-> {v}]
    BY <1>2 DEF Description
  <2>4. st \in {"public", "private"} /\ (st = "public" <=> visible[r])
    BY <2>1
  <2> HIDE DEF v, st
  <2>5. a \in Answer /\ a.status = st /\ a.val = {v}
    BY <2>2, <2>3, <2>4 DEF Answer, Status
  <2>6. st = "private" => Hidden(p, now)
    BY <1>2, <2>4 DEF Hidden
  <2> QED BY <2>2, <2>4, <2>5, <2>6 DEF Withheld, Reason
<1> QED BY <1>1, <1>2 DEF Upstream

\* An answer that says nothing about GitHub.
LEMMA SaysNothing ==
    ASSUME NEW a, a.status \notin {"public", "private", "missing"}
    PROVE  \A p, t, i : Honest(a, p, t, i)
BY DEF Honest

LEMMA FetchFailsStep ==
    ASSUME MetadataInv, NEW c \in Clients, FetchFails(c)
    PROVE  MetadataInv'
<1> DEFINE a == IF local[c].cached = {} THEN Plain("error")
                ELSE [status |-> "kept", val |-> local[c].cached]
<1>1. /\ TypeOK /\ NegativeInv /\ pc[c] = "fetch" /\ Return(c, a)
  BY DEF MetadataInv, FetchFails, Keep
<1>2. UNCHANGED <<now, githubVars, rows, negative, request, since, meant>>
  BY DEF FetchFails, storeVars
<1>3. a \in Answer /\ a.status \notin {"public", "private", "missing"}
  <2>1. local[c].cached \in SUBSET Value
    BY <1>1 DEF TypeOK, Local
  <2>2. /\ Plain("error") \in Answer /\ Plain("error").status = "error"
        /\ [status |-> "kept", val |-> local[c].cached] \in Answer
    BY <2>1, AnswerTypes DEF Answer, Status
  <2> QED BY <2>2
<1> HIDE DEF a
<1>4. Honest(a, Path(c), since[c], meant[c])
  BY <1>3, SaysNothing
<1>5. NegativeInv' /\ negative' \in [Paths -> SUBSET Entry]
  BY <1>1, <1>2 DEF NegativeInv, TypeOK, Unavailable, Hidden, Withheld, githubVars
<1> QED BY <1>1, <1>2, <1>3, <1>4, <1>5, ReturnInv DEF Refreshing

LEMMA FetchStep ==
    ASSUME MetadataInv, NEW c \in Clients, Fetch(c)
    PROVE  MetadataInv'
<1>1. /\ TypeOK /\ NameInv /\ RequestInv /\ FlightInv /\ RowsInv /\ NegativeInv
      /\ pc[c] = "fetch"
  BY DEF MetadataInv, Fetch
<1>2. UNCHANGED <<now, githubVars, rows, negative, request, since, meant>>
  BY DEF Fetch, storeVars
<1>3. Path(c) \in Paths /\ since[c] <= now /\ meant[c] = request[c].id
  BY <1>1 DEF RequestInv, Path
<1>4. RowsInv' /\ NegativeInv' /\ negative' \in [Paths -> SUBSET Entry]
  BY <1>1, <1>2 DEF RowsInv, NegativeInv, TypeOK, Public, Unavailable, Hidden, Withheld, githubVars
<1> DEFINE a == Upstream(Path(c))
<1>a. \/ /\ \E v \in a.val : request[c].id \notin {None, v.repo}
         /\ Return(c, Plain("missing"))
      \/ /\ local' = [local EXCEPT ![c] = [NoLocal EXCEPT !.fetched = a]]
         /\ pc' = [pc EXCEPT ![c] = IF a.status = "public" THEN "save" ELSE "record"]
         /\ UNCHANGED <<flights, gone, answer>>
  BY DEF Fetch
<1>u. /\ a \in Answer
      /\ \A v \in a.val : v.repo = resolves[Path(c)]
      /\ \/ /\ a.status = "public"
            /\ \A v \in a.val : v.checked = now /\ visible[v.repo]
         \/ a.status \in Reason /\ Withheld(a.status, Path(c), now)
  BY <1>1, <1>3, UpstreamIsTrue
<1> HIDE DEF a
<1>5. CASE /\ \E v \in a.val : request[c].id \notin {None, v.repo}
           /\ Return(c, Plain("missing"))
  <2>1. meant[c] \notin {None, resolves[Path(c)]}
    BY <1>3, <1>5, <1>u
  <2>2. Plain("missing") \in Answer /\ Plain("missing").status = "missing"
    BY AnswerTypes DEF Status
  <2>3. Honest(Plain("missing"), Path(c), since[c], meant[c])
    BY <2>1, <2>2 DEF Honest
  <2> QED BY <1>1, <1>2, <1>4, <1>5, <2>2, <2>3, ReturnInv DEF Refreshing
<1>6. CASE /\ local' = [local EXCEPT ![c] = [NoLocal EXCEPT !.fetched = a]]
           /\ pc' = [pc EXCEPT ![c] = IF a.status = "public" THEN "save" ELSE "record"]
           /\ UNCHANGED <<flights, gone, answer>>
  <2>2. PICK x \in {"save", "record"} :
            /\ pc' = [pc EXCEPT ![c] = x]
            /\ x = "save" <=> a.status = "public"
    BY <1>6
  <2> DEFINE l == [NoLocal EXCEPT !.fetched = a]
  <2>3. l \in Local /\ l.fetched = a
    BY <1>u, AnswerTypes DEF Local
  <2>4. local' = [local EXCEPT ![c] = l]
    BY <1>6
  <2> HIDE DEF l
  <2>5. /\ pc'[c] = x /\ local'[c].fetched = a /\ \A d \in Clients \ {c} : local'[d] = local[d]
    BY <1>1, <2>2, <2>3, <2>4 DEF TypeOK
  <2>6. TypeOK'
    <3>1. pc' \in [Clients -> PC] /\ local' \in [Clients -> Local]
      BY <1>1, <2>2, <2>3, <2>4 DEF TypeOK, PC
    <3> QED BY <1>1, <1>2, <1>6, <3>1 DEF TypeOK, githubVars
  <2>7. LocalOK(c)'
    <3>1. CASE x = "save"
      <4>1. a.status = "public" /\ \A v \in a.val : v.checked = now /\ visible[v.repo]
        BY <1>u, <2>2, <3>1 DEF Reason
      <4>2. since'[c] <= now' /\ now' = now /\ visible' = visible /\ now <= now
        BY <1>1, <1>2, <1>3 DEF githubVars, TypeOK
      <4> QED BY <2>5, <3>1, <4>1, <4>2 DEF LocalOK, Public
    <3>2. CASE x = "record"
      <4>1. a.status \in Reason /\ Withheld(a.status, Path(c), now)
        BY <1>u, <2>2, <3>2
      <4> QED BY <1>2, <2>5, <3>2, <4>1 DEF LocalOK, Unavailable, Hidden, Withheld, Path, githubVars
    <3> QED BY <3>1, <3>2
  <2>8. FlightInv'
    BY <1>1, <1>2, <1>6, <2>2, SameFlight DEF PC, Refreshing
  <2> QED BY <1>1, <1>2, <1>3, <1>4, <1>6, <2>2, <2>5, <2>6, <2>7, <2>8, GoesOnInv DEF PC
<1> QED BY <1>a, <1>5, <1>6

\* The entry is dated before the clock moves on.
LEMMA RecordStep ==
    ASSUME MetadataInv, NEW c \in Clients, Record(c)
    PROVE  MetadataInv'
<1>1. /\ TypeOK /\ RequestInv /\ NegativeInv /\ LocalOK(c) /\ pc[c] = "record"
      /\ Return(c, local[c].fetched)
  BY DEF MetadataInv, LocalInv, Record
<1>2. UNCHANGED <<now, githubVars, rows, request, since, meant>>
  BY DEF Record
<1> DEFINE n == [reason |-> local[c].fetched.status, checked |-> now]
<1>3. negative' = negative \/ negative' = [negative EXCEPT ![Path(c)] = {n}]
  BY DEF Record
<1>4. /\ Path(c) \in Paths /\ since[c] <= now /\ since[c] \in Nat /\ now \in Nat
  BY <1>1 DEF RequestInv, Path, TypeOK
<1>5. /\ local[c].fetched \in Answer /\ local[c].fetched.status \in Reason
      /\ Withheld(local[c].fetched.status, Path(c), now)
  BY <1>1 DEF LocalOK, TypeOK, Local
<1>n. /\ n \in Entry /\ n.checked = now /\ n.reason = local[c].fetched.status
      /\ n.checked <= now
  BY <1>4, <1>5 DEF Entry
<1> HIDE DEF n
<1>6. NegativeInv' /\ negative' \in [Paths -> SUBSET Entry]
  <2>1. \A p \in Paths : \A e \in negative'[p] : e.checked <= now /\ Withheld(e.reason, p, e.checked)
    BY <1>1, <1>3, <1>4, <1>5, <1>n DEF TypeOK, NegativeInv
  <2>2. negative' \in [Paths -> SUBSET Entry]
    BY <1>1, <1>3, <1>4, <1>n DEF TypeOK
  <2> QED BY <1>2, <2>1, <2>2 DEF NegativeInv, Unavailable, Hidden, Withheld, githubVars
<1>7. Withheld(local[c].fetched.status, Path(c), since[c] - NegativeTTL + 1)
  <2>1. since[c] - NegativeTTL + 1 \in Int /\ since[c] - NegativeTTL + 1 <= now
    BY <1>4, Constants
  <2> QED BY <1>1, <1>4, <1>5, <2>1, WithheldLonger
<1>8. Honest(local[c].fetched, Path(c), since[c], meant[c])
  BY <1>5, <1>7 DEF Honest, Withheld, Reason
<1> QED BY <1>1, <1>2, <1>5, <1>6, <1>8, ReturnInv DEF Refreshing

LEMMA SaveStep ==
    ASSUME MetadataInv, NEW c \in Clients, Save(c)
    PROVE  MetadataInv'
<1>1. /\ TypeOK /\ RequestInv /\ FlightInv /\ RowsInv /\ NegativeInv /\ LocalOK(c)
      /\ pc[c] = "save"
  BY DEF MetadataInv, LocalInv, Save
<1>2. UNCHANGED <<now, githubVars, negative, request, since, meant>>
  BY DEF Save
<1>3. NegativeInv' /\ negative' \in [Paths -> SUBSET Entry]
  BY <1>1, <1>2 DEF NegativeInv, TypeOK, Unavailable, Hidden, Withheld, githubVars
<1>v. PICK v \in local[c].fetched.val :
        \/ /\ rows' = rows \/ rows' = Saved(v)
           /\ Return(c, Plain("error"))
        \/ /\ rows' = Saved(v)
           /\ pc' = [pc EXCEPT ![c] = "clear"]
           /\ UNCHANGED <<flights, gone, local, answer>>
  BY DEF Save
<1>r. RowsOK'
  <2>1. v \in Value
    BY <1>1 DEF TypeOK, Local, Answer
  <2>2. v.checked <= now /\ Public(v, v.checked)
    BY <1>1 DEF LocalOK
  <2>3. rows' = rows \/ rows' = {w \in rows : w.repo # v.repo} \cup {v}
    BY <1>v DEF Saved
  <2>4. RowsInv'
    BY <1>1, <1>2, <2>2, <2>3 DEF RowsInv, Public, githubVars
  <2>5. rows' \in SUBSET Value /\ \A u, w \in rows' : u.repo = w.repo => u = w
    BY <1>1, <2>1, <2>3 DEF TypeOK
  <2> QED BY <2>4, <2>5 DEF RowsOK
<1>4. CASE Return(c, Plain("error"))
  <2>1. Plain("error") \in Answer /\ Honest(Plain("error"), Path(c), since[c], meant[c])
    BY AnswerTypes, SaysNothing DEF Status
  <2> QED BY <1>1, <1>2, <1>3, <1>4, <1>r, <2>1, ReturnInv DEF Refreshing
<1>5. ASSUME pc' = [pc EXCEPT ![c] = "clear"],
             UNCHANGED <<flights, gone, local, answer>>
      PROVE  MetadataInv'
  <2>3. RowsInv'
    BY <1>r DEF RowsOK
  <2>4. TypeOK'
    <3>1. pc' \in [Clients -> PC]
      BY <1>1, <1>5 DEF TypeOK, PC
    <3> QED BY <1>1, <1>2, <1>5, <1>r, <3>1 DEF TypeOK, RowsOK, githubVars
  <2>5. LocalOK(c)'
    BY <1>1, <1>2, <1>5 DEF LocalOK, TypeOK, Public, githubVars
  <2>6. FlightInv'
    BY <1>1, <1>2, <1>5, SameFlight DEF PC, Refreshing
  <2>7. since'[c] <= now /\ meant'[c] = request[c].id
    BY <1>1, <1>2 DEF RequestInv
  <2> QED BY <1>1, <1>2, <1>3, <1>5, <2>3, <2>4, <2>5, <2>6, <2>7, GoesOnInv DEF PC
<1> QED BY <1>4, <1>5, <1>v

LEMMA ClearStep ==
    ASSUME MetadataInv, NEW c \in Clients, Clear(c)
    PROVE  MetadataInv'
<1>1. /\ TypeOK /\ RequestInv /\ NegativeInv /\ LocalOK(c) /\ pc[c] = "clear"
      /\ Return(c, local[c].fetched)
  BY DEF MetadataInv, LocalInv, Clear
<1>2. UNCHANGED <<now, githubVars, rows, request, since, meant>>
  BY DEF Clear
<1>3. negative' = negative \/ negative' = [negative EXCEPT ![Path(c)] = {}]
  BY DEF Clear
<1>4. NegativeInv' /\ negative' \in [Paths -> SUBSET Entry]
  <2>1. negative' \in [Paths -> SUBSET Entry] /\ \A p \in Paths : negative'[p] \subseteq negative[p]
    BY <1>1, <1>3 DEF TypeOK
  <2> QED BY <1>1, <1>2, <2>1 DEF NegativeInv, Unavailable, Hidden, Withheld, githubVars
<1>5. local[c].fetched \in Answer /\ local[c].fetched.status = "public"
  BY <1>1 DEF LocalOK, TypeOK, Local
<1>6. ASSUME NEW v \in local[c].fetched.val
      PROVE  Public(v, since[c] - TTL + 1)
  <2>1. v \in Value /\ turned[v.repo] \in Nat /\ v.checked \in Nat /\ since[c] \in Nat
    BY <1>1 DEF TypeOK, Local, Answer, Value
  <2>2. since[c] <= v.checked /\ Public(v, v.checked)
    BY <1>1 DEF LocalOK
  <2> QED BY <2>1, <2>2, Constants DEF Public
<1>7. Honest(local[c].fetched, Path(c), since[c], meant[c])
  BY <1>5, <1>6 DEF Honest
<1> QED BY <1>1, <1>2, <1>4, <1>5, <1>7, ReturnInv DEF Refreshing

LEMMA ReplyStep ==
    ASSUME MetadataInv, NEW c \in Clients, Reply(c)
    PROVE  MetadataInv'
<1>1. /\ TypeOK /\ NameInv /\ RequestInv /\ FlightInv /\ RowsInv /\ NegativeInv /\ LocalInv
      /\ AnswerInv /\ pc[c] = "reply"
  BY DEF MetadataInv, Reply
<1>2. /\ UNCHANGED <<now, resolves, moved, canonical, visible, turned, readable, changes>>
      /\ UNCHANGED <<rows, negative, flights, gone, local>>
  BY DEF Reply, githubVars, storeVars
<1>3. /\ pc' = [pc EXCEPT ![c] = "idle"] /\ request' = [request EXCEPT ![c] = None]
      /\ since' = [since EXCEPT ![c] = 0] /\ answer' = [answer EXCEPT ![c] = Plain("none")]
      /\ meant' = [meant EXCEPT ![c] = None]
  BY DEF Reply
<1>4. TypeOK'
  <2>1. Plain("none") \in Answer
    BY AnswerTypes DEF Status
  <2> QED BY <1>1, <1>2, <1>3, <2>1 DEF TypeOK, PC
<1>5. /\ pc'[c] = "idle" /\ since'[c] = 0
      /\ \A d \in Clients \ {c} : /\ pc'[d] = pc[d] /\ request'[d] = request[d]
                                 /\ since'[d] = since[d] /\ answer'[d] = answer[d]
                                 /\ meant'[d] = meant[d]
  BY <1>1, <1>3 DEF TypeOK
<1>6. RequestInv'
  BY <1>1, <1>2, <1>5 DEF RequestInv, TypeOK
<1>7. FlightInv'
  <2>1. \A p \in Paths : flights[p] \subseteq Clients \ {c}
    BY <1>1 DEF TypeOK, FlightInv, Refreshing
  <2>2. \A d \in Clients \ {c} : pc[d] # "idle" => Path(d) \in Paths /\ Path(d)' = Path(d)
    BY <1>1, <1>5 DEF RequestInv, Path
  <2>3. \A d \in Clients : pc'[d] \in Refreshing => flights'[Path(d)'] = {d}
    BY <1>1, <1>2, <1>5, <2>2 DEF FlightInv, Refreshing
  <2>4. \A p \in Paths : \A d \in flights'[p] : pc'[d] \in Refreshing /\ Path(d)' = p
    BY <1>1, <1>2, <1>5, <2>1 DEF FlightInv, Path
  <2>5. ASSUME NEW d \in Clients, pc'[d] = "waiting"
        PROVE  \E k \in flights'[Path(d)'] : since'[d] = since'[k] /\ meant'[d] = meant'[k]
    <3>1. d # c /\ pc[d] = "waiting" /\ Path(d)' = Path(d) /\ Path(d) \in Paths
      BY <1>5, <2>2, <2>5
    <3>2. PICK k \in flights[Path(d)] : since[d] = since[k] /\ meant[d] = meant[k]
      BY <1>1, <3>1 DEF FlightInv
    <3> QED BY <1>2, <1>5, <2>1, <3>1, <3>2
  <2> QED BY <2>3, <2>4, <2>5 DEF FlightInv
<1>8. NameInv' /\ RowsInv' /\ NegativeInv'
  BY <1>1, <1>2 DEF NameInv, RowsInv, NegativeInv, Public, Unavailable, Hidden, Withheld
<1>9. ASSUME NEW d \in Clients PROVE LocalOK(d)'
  <2>1. CASE d = c
    BY <1>5, <2>1 DEF LocalOK
  <2>2. CASE d # c
    BY <1>1, <1>2, <1>5, <2>2 DEF LocalInv, LocalOK, Public, Unavailable, Hidden, Withheld, Path
  <2> QED BY <2>1, <2>2
<1>10. AnswerInv'
  BY <1>1, <1>2, <1>5 DEF AnswerInv, Honest, Public, Unavailable, Hidden, Withheld, Path
<1> QED BY <1>4, <1>6, <1>7, <1>8, <1>9, <1>10 DEF MetadataInv, LocalInv

\* The clock does not move between GitHub's answer and its negative entry.
LEMMA TickStep ==
    ASSUME MetadataInv, Tick
    PROVE  MetadataInv'
<1>1. /\ TypeOK /\ NameInv /\ RequestInv /\ FlightInv /\ RowsInv /\ NegativeInv /\ LocalInv
      /\ AnswerInv /\ now \in Nat /\ now' = now + 1 /\ \A c \in Clients : pc[c] # "record"
  BY DEF MetadataInv, TypeOK, Tick
<1>2. /\ UNCHANGED <<resolves, moved, canonical, visible, turned, readable, changes>>
      /\ UNCHANGED <<rows, negative, flights, pc, request, since, meant, gone, local, answer>>
  BY DEF Tick, githubVars, storeVars, clientVars
<1>3. TypeOK' /\ NameInv'
  BY <1>1, <1>2 DEF TypeOK, NameInv
<1>4. RequestInv'
  BY <1>1, <1>2 DEF RequestInv, TypeOK
<1>5. FlightInv' /\ AnswerInv'
  BY <1>1, <1>2 DEF FlightInv, AnswerInv, Honest, Public, Unavailable, Hidden, Withheld, Path
<1>6. \A t \in Nat : t <= now => t <= now'
  BY <1>1
<1>7. RowsInv'
  BY <1>1, <1>2, <1>6 DEF RowsInv, TypeOK, Value, Public
<1>8. NegativeInv'
  BY <1>1, <1>2, <1>6 DEF NegativeInv, TypeOK, Entry, Unavailable, Hidden, Withheld
<1>9. ASSUME NEW c \in Clients PROVE LocalOK(c)'
  <2>1. LocalOK(c) /\ \A v \in local[c].fetched.val : v.checked \in Nat
    BY <1>1 DEF LocalInv, TypeOK, Local, Answer, Value
  <2> QED BY <1>1, <1>2, <1>6, <2>1 DEF LocalOK, Public
<1> QED BY <1>3, <1>4, <1>5, <1>7, <1>8, <1>9 DEF MetadataInv, LocalInv

\* A change of GitHub takes nothing back that was said of the time before.
LEMMA GitHubStep ==
    ASSUME MetadataInv, NEW r \in Repos, Turn(r) \/ \E p \in Paths : Move(r, p)
    PROVE  MetadataInv'
<1>1. /\ TypeOK /\ NameInv /\ RequestInv /\ FlightInv /\ RowsInv /\ NegativeInv /\ LocalInv
      /\ AnswerInv /\ now \in Nat
  BY DEF MetadataInv, TypeOK
<1>2. /\ UNCHANGED <<now, rows, negative, flights, pc, request, since, meant, gone, local, answer>>
  BY DEF Turn, Move, GitHubChanges, storeVars, clientVars
<1>3. TypeOK' /\ NameInv'
  <2>1. CASE Turn(r)
    BY <1>1, <1>2, <2>1 DEF Turn, GitHubChanges, TypeOK, NameInv
  <2>2. ASSUME NEW p \in Paths, Move(r, p) PROVE TypeOK' /\ NameInv'
    <3>1. TypeOK'
      BY <1>1, <1>2, <2>2 DEF Move, GitHubChanges, TypeOK
    <3>2. NameInv'
      BY <1>1, <2>2, Constants DEF Move, TypeOK, NameInv
    <3> QED BY <3>1, <3>2
  <2> QED BY <2>1, <2>2
<1>4. ASSUME NEW v, v.repo \in Repos, NEW t \in Int, t <= now, Public(v, t) PROVE Public(v, t)'
  <2>1. CASE Turn(r)
    BY <1>1, <1>4, <2>1 DEF Turn, Public, TypeOK
  <2>2. CASE \E p \in Paths : Move(r, p)
    BY <1>4, <2>2 DEF Move, Public
  <2> QED BY <2>1, <2>2
<1>5. ASSUME NEW p \in Paths, NEW t \in Int, t <= now, Hidden(p, t) PROVE Hidden(p, t)'
  <2>1. CASE Turn(r)
    BY <1>1, <1>5, <2>1 DEF Turn, Hidden, TypeOK
  <2>2. CASE \E q \in Paths : Move(r, q)
    BY <1>1, <1>5, <2>2 DEF Move, Hidden, TypeOK
  <2> QED BY <2>1, <2>2
<1>p. ASSUME NEW p \in Paths, NEW t \in Int, t <= now, resolves'[p] # resolves[p]
      PROVE  Hidden(p, t)'
  <2>1. PICK q \in Paths : Move(r, q)
    BY <1>p DEF Turn
  <2> QED BY <1>1, <1>p, <2>1 DEF Move, Hidden, TypeOK
<1>w. ASSUME NEW reason, NEW p \in Paths, NEW t \in Int, t <= now, Withheld(reason, p, t)
      PROVE  Withheld(reason, p, t)'
  <2>1. Hidden(p, t) => Hidden(p, t)'
    BY <1>5, <1>w
  <2>2. resolves[p] = None => Unavailable(p, t)'
    BY <1>p, <1>w DEF Unavailable
  <2> QED BY <1>w, <2>1, <2>2 DEF Withheld, Unavailable
<1>6. RequestInv' /\ FlightInv'
  BY <1>1, <1>2 DEF RequestInv, FlightInv, Path
<1>7. RowsInv'
  BY <1>1, <1>2, <1>4 DEF RowsInv, TypeOK, Value
<1>8. NegativeInv'
  <2>1. \A p \in Paths : \A n \in negative[p] : n.checked \in Int
    BY <1>1 DEF TypeOK, Entry
  <2>2. ASSUME NEW p \in Paths, NEW n \in negative[p]
        PROVE  n.checked <= now /\ Withheld(n.reason, p, n.checked)'
    <3> DEFINE t == n.checked
               e == n.reason
    <3>1. t \in Int /\ t <= now /\ Withheld(e, p, t)
      BY <1>1, <2>1 DEF NegativeInv
    <3> HIDE DEF t, e
    <3>2. Withheld(e, p, t)'
      BY <1>w, <3>1
    <3> QED BY <3>1, <3>2 DEF t, e, Withheld, Unavailable, Hidden
  <2> QED BY <1>2, <2>2 DEF NegativeInv
<1>9. ASSUME NEW c \in Clients, pc[c] # "idle"
      PROVE  since[c] \in Nat /\ since[c] <= now /\ Path(c) \in Paths /\ Path(c)' = Path(c)
  BY <1>1, <1>2, <1>9 DEF RequestInv, TypeOK, Path
<1>10. ASSUME NEW c \in Clients PROVE LocalOK(c)'
  <2>1. LocalOK(c)
    BY <1>1 DEF LocalInv
  <2>2. CASE pc[c] = "record"
    <3>1. now <= now /\ now \in Int
      BY <1>1
    <3>2. PICK e \in Reason, p \in Paths, t \in Int :
            e = local[c].fetched.status /\ p = Path(c) /\ t = now
      BY <1>9, <2>1, <2>2, <3>1 DEF LocalOK
    <3>3. Withheld(e, p, t)
      BY <2>1, <2>2, <3>2 DEF LocalOK
    <3>4. Withheld(e, p, t)'
      BY <1>w, <3>1, <3>2, <3>3
    <3>5. e = local'[c].fetched.status /\ p = Path(c)' /\ t = now' /\ pc'[c] = "record"
      BY <1>2, <1>9, <2>2, <3>2
    <3> QED BY <3>2, <3>4, <3>5 DEF LocalOK, Withheld, Unavailable, Hidden
  <2>3. CASE pc[c] \in {"save", "clear"}
    <3>1. \A v \in local[c].fetched.val : v.repo \in Repos /\ v.checked \in Nat
      BY <1>1 DEF TypeOK, Local, Answer, Value
    <3>2. ASSUME NEW v \in local[c].fetched.val PROVE Public(v, v.checked)'
      BY <1>4, <2>1, <2>3, <3>1 DEF LocalOK
    <3> QED BY <1>2, <2>1, <2>3, <3>2 DEF LocalOK
  <2>4. CASE pc[c] \notin {"record", "save", "clear"}
    BY <1>2, <2>1, <2>4 DEF LocalOK
  <2> QED BY <2>2, <2>3, <2>4
<1>11. ASSUME NEW c \in Clients, pc[c] = "reply"
       PROVE  Honest(answer[c], Path(c), since[c], meant[c])'
  <2>1. Honest(answer[c], Path(c), since[c], meant[c])
    BY <1>1, <1>11 DEF AnswerInv
  <2>2. /\ since[c] - TTL + 1 \in Int /\ since[c] - TTL + 1 <= now
        /\ since[c] - NegativeTTL + 1 \in Int /\ since[c] - NegativeTTL + 1 <= now
    BY <1>1, <1>9, <1>11, Constants
  <2>3. \A v \in answer[c].val : v.repo \in Repos
    BY <1>1 DEF TypeOK, Answer, Value
  <2>4. ASSUME NEW v \in answer[c].val, answer[c].status = "public"
        PROVE  Public(v, since[c] - TTL + 1)'
    <3>1. Public(v, since[c] - TTL + 1)
      BY <2>1, <2>4 DEF Honest
    <3> DEFINE t == since[c] - TTL + 1
    <3>2. t' = t
      BY <1>2
    <3>3. Public(v, t) /\ t \in Int /\ t <= now
      BY <2>2, <3>1
    <3> QED BY <1>2, <1>4, <2>3, <3>3 DEF Public
  <2> DEFINE p == Path(c)
             u == since[c] - NegativeTTL + 1
  <2>p. p \in Paths /\ u \in Int /\ u <= now /\ p' = p /\ u' = u
    BY <1>2, <1>9, <1>11, <2>2
  <2>q. /\ answer[c].status = "private" => Hidden(p, u)
        /\ answer[c].status = "missing" => Unavailable(p, u) \/ meant[c] \notin {None, resolves[p]}
    BY <2>1 DEF Honest
  <2> HIDE DEF p, u
  <2>5. answer[c].status = "private" => Hidden(p, u)'
    BY <1>5, <2>p, <2>q
  <2>6. ASSUME answer[c].status = "missing"
        PROVE  Unavailable(p, u)' \/ meant[c] \notin {None, resolves'[p]}
    <3>1. CASE resolves'[p] # resolves[p]
      BY <1>p, <2>p, <3>1 DEF Unavailable
    <3>2. CASE resolves'[p] = resolves[p] /\ Unavailable(p, u)
      BY <1>5, <2>p, <3>2 DEF Unavailable
    <3>3. CASE resolves'[p] = resolves[p] /\ ~Unavailable(p, u)
      BY <2>q, <2>6, <3>3
    <3> QED BY <3>1, <3>2, <3>3
  <2> QED BY <1>2, <2>p, <2>4, <2>5, <2>6 DEF Honest, Hidden, Unavailable, p, u
<1>12. AnswerInv'
  BY <1>2, <1>11 DEF AnswerInv
<1> QED BY <1>3, <1>6, <1>7, <1>8, <1>10, <1>12 DEF MetadataInv, LocalInv

LEMMA SwitchStoreStep ==
    ASSUME MetadataInv, SwitchStore
    PROVE  MetadataInv'
<1>1. /\ rows' = {} /\ negative' = [p \in Paths |-> {}]
      /\ UNCHANGED <<now, resolves, moved, canonical, visible, turned, readable, changes>>
      /\ UNCHANGED <<flights, pc, request, since, meant, gone, local, answer>>
  BY DEF SwitchStore, githubVars, clientVars
<1>2. TypeOK' /\ NameInv' /\ RequestInv' /\ FlightInv'
  BY <1>1 DEF MetadataInv, TypeOK, NameInv, RequestInv, FlightInv, Path
<1>3. RowsInv' /\ NegativeInv'
  BY <1>1 DEF RowsInv, NegativeInv
<1>4. LocalInv' /\ AnswerInv'
  BY <1>1 DEF MetadataInv, LocalInv, LocalOK, AnswerInv, Honest, Public, Unavailable, Hidden, Withheld, Path
<1> QED BY <1>2, <1>3, <1>4 DEF MetadataInv

LEMMA QuietStep ==
    ASSUME MetadataInv, UNCHANGED vars \/ \E c \in Clients : Disconnect(c)
    PROVE  MetadataInv'
<1>1. /\ UNCHANGED <<now, resolves, moved, canonical, visible, turned, readable, changes>>
      /\ UNCHANGED <<rows, negative, flights, pc, request, since, meant, local, answer>>
      /\ gone' \in SUBSET Clients
  BY DEF vars, Disconnect, githubVars, storeVars, clientVars, MetadataInv, TypeOK
<1>2. TypeOK' /\ NameInv' /\ RequestInv' /\ FlightInv'
  BY <1>1 DEF MetadataInv, TypeOK, NameInv, RequestInv, FlightInv, Path
<1>3. RowsInv' /\ NegativeInv'
  BY <1>1 DEF MetadataInv, RowsInv, NegativeInv, Public, Unavailable, Hidden, Withheld
<1>4. LocalInv' /\ AnswerInv'
  BY <1>1 DEF MetadataInv, LocalInv, LocalOK, AnswerInv, Honest, Public, Unavailable, Hidden, Withheld, Path
<1> QED BY <1>2, <1>3, <1>4 DEF MetadataInv

------------------------------------------------------------------------------
(* Theorems.                                                                 *)

LEMMA InitInv == Init => MetadataInv
<1> SUFFICES ASSUME Init PROVE MetadataInv
  OBVIOUS
<1>1. Plain("none") \in Answer
  BY AnswerTypes DEF Status
<1>2. TypeOK
  BY <1>1, MetadataAssumption, AnswerTypes DEF Init, TypeOK, PC
<1>3. NameInv
  BY MetadataAssumption DEF Init, NameInv
<1>4. RequestInv /\ FlightInv /\ RowsInv /\ NegativeInv /\ LocalInv /\ AnswerInv
  BY DEF Init, RequestInv, FlightInv, RowsInv, NegativeInv, LocalInv, LocalOK, AnswerInv, Refreshing
<1> QED BY <1>2, <1>3, <1>4 DEF MetadataInv

LEMMA Inductive == MetadataInv /\ [Next]_vars => MetadataInv'
<1> SUFFICES ASSUME MetadataInv, [Next]_vars PROVE MetadataInv'
  OBVIOUS
<1>1. ASSUME NEW c \in Clients, Step(c) PROVE MetadataInv'
  BY <1>1, RequestStep, LookupNegativeStep, LeadStep, WaitStep, GiveUpStep, FetchFailsStep,
     FetchStep, RecordStep, SaveStep, ClearStep, ReplyStep
     DEF Step
<1>2. CASE UNCHANGED vars \/ \E c \in Clients : Disconnect(c)
  BY <1>2, QuietStep
<1>3. CASE \E r \in Repos : Turn(r) \/ \E p \in Paths : Move(r, p)
  BY <1>3, GitHubStep
<1>4. CASE Tick \/ SwitchStore
  BY <1>4, TickStep, SwitchStoreStep
<1> QED BY <1>1, <1>2, <1>3, <1>4 DEF Next

THEOREM MetadataInvariant == Spec => []MetadataInv
BY InitInv, Inductive, PTL DEF Spec

\* history.go, resolveMetadataCached: every variable has its type, and there is one row
\* for each repository id, for any clients and repositories.
THEOREM TypeCorrect == Spec => []TypeOK
<1>1. MetadataInv => TypeOK
  BY DEF MetadataInv
<1> QED BY <1>1, MetadataInvariant, PTL

\* README.md:137: an answer that is not an old row was public no longer than
\* METADATA_TTL_SECONDS before the request, or the flight it joined, arrived.
THEOREM PublicStaysRecent == Spec => []PublicIsRecent
<1>1. MetadataInv => PublicIsRecent
  BY DEF MetadataInv, AnswerInv, Honest, Public, PublicIsRecent, Says
<1> QED BY <1>1, MetadataInvariant, PTL

\* README.md:138: nobody is told "private" or "not found" of a path that has led to a
\* public repository for METADATA_NEGATIVE_CACHE_TTL_SECONDS, but for the requests that
\* name another repository and those that wait for such a request.
THEOREM UnavailableStaysRecent == Spec => []UnavailableIsRecent
<1>1. MetadataInv => UnavailableIsRecent
  BY DEF MetadataInv, AnswerInv, Honest, UnavailableIsRecent, Says, Oldest
<1> QED BY <1>1, MetadataInvariant, PTL

\* history.go:337: a request that leads its flight, or is answered without one, is told
\* "not found" on its own account only; whoever waits may be told so on its leader's.
THEOREM LeadersAnswerThemselves ==
    Spec => [](\A c \in Clients :
                  Says(c, "missing") /\ meant[c] = request[c].id =>
                      \/ Unavailable(Path(c), Oldest(c))
                      \/ request[c].id \notin {None, resolves[Path(c)]})
<1>1. MetadataInv => UnavailableIsRecent
  BY DEF MetadataInv, AnswerInv, Honest, UnavailableIsRecent, Says, Oldest
<1>2. UnavailableIsRecent =>
        \A c \in Clients :
            Says(c, "missing") /\ meant[c] = request[c].id =>
                \/ Unavailable(Path(c), Oldest(c))
                \/ request[c].id \notin {None, resolves[Path(c)]}
  BY DEF UnavailableIsRecent
<1> QED BY <1>1, <1>2, MetadataInvariant, PTL

==============================================================================
