--------------------------- MODULE GitHubCalls_proofs ---------------------------
(***************************************************************************)
(* What GitHubCalls promises about the limiter and about the error of a    *)
(* failed read, for any number of reads, lookups, slots and pages.         *)
(***************************************************************************)
EXTENDS GitHubCalls, FiniteSetTheorems, TLAPS

In(S, f, H) == {d \in S : f[d] \in H}

H == {"http", "httpAvatar"}

K == {"acquireAvatar", "queuedAvatar", "httpAvatar", "release"}

One(v, Z) == IF v \in Z THEN 1 ELSE 0

\* Calls and lookups are finitely many.
LEMMA CallsAreFinite == IsFiniteSet(Calls) /\ IsFiniteSet(Lookups)
<1>1. IsFiniteSet(Readers) /\ IsFiniteSet(Lookups) /\ IsFiniteSet(Pages)
  BY CallsAssumption, FS_Interval DEF Pages
<1>2. IsFiniteSet(Readers \X Pages)
  BY <1>1, FS_Product
<1> QED BY <1>1, <1>2, FS_Union DEF Calls

\* A page's call is not a lookup's.
LEMMA PagesAreCalls ==
    ASSUME NEW r \in Readers, NEW k \in Pages
    PROVE  <<r, k>> \in Calls /\ <<r, k>> \notin Lookups
BY CallsAssumption DEF Calls, Pages

\* How much a set of calls grows when one call moves from one state to another.
LEMMA OneMoves ==
    ASSUME NEW S, IsFiniteSet(S), NEW Z, NEW f, NEW g, NEW c \in S,
           \A d \in S \ {c} : g[d] = f[d]
    PROVE  Cardinality(In(S, g, Z)) + One(f[c], Z) = Cardinality(In(S, f, Z)) + One(g[c], Z)
<1> DEFINE R == {d \in S \ {c} : f[d] \in Z}
<1>1. IsFiniteSet(R)
  BY FS_Subset
<1>2. Cardinality(R \cup {c}) = Cardinality(R) + 1 /\ Cardinality(R) \in Nat
  BY <1>1, FS_AddElement, FS_CardinalityType
<1>3. In(S, f, Z) = IF f[c] \in Z THEN R \cup {c} ELSE R
  BY DEF In
<1>4. In(S, g, Z) = IF g[c] \in Z THEN R \cup {c} ELSE R
  BY DEF In
<1>5. Cardinality(In(S, f, Z)) = Cardinality(R) + One(f[c], Z)
  BY <1>2, <1>3 DEF One
<1>6. Cardinality(In(S, g, Z)) = Cardinality(R) + One(g[c], Z)
  BY <1>2, <1>4 DEF One
<1> QED BY <1>2, <1>5, <1>6 DEF One

\* How many slots call c holds in state v.
Held(c, v) == One(v, H) + IF c \in Lookups THEN One(v, K) ELSE 0

PCType(f) ==
    /\ f \in [Calls -> PagePC \cup LookupPC]
    /\ \A c \in Calls : f[c] \in IF c \in Lookups THEN LookupPC ELSE PagePC

\* One call moves to v, and the limiter counts what it holds more or less then.
MovesTo(c, v) ==
    /\ pc' = [pc EXCEPT ![c] = v]
    /\ slots' = slots + Held(c, v) - Held(c, pc[c])

\* The count in terms of the two sets.
LEMMA Slots ==
    /\ SlotsAreReturned <=> slots = Cardinality(In(Calls, pc, H)) + Cardinality(In(Lookups, pc, K))
    /\ SlotsAreReturned' <=> slots' = Cardinality(In(Calls, pc', H)) + Cardinality(In(Lookups, pc', K))
    /\ \A f : Cardinality(In(Calls, f, H)) \in Nat /\ Cardinality(In(Lookups, f, K)) \in Nat
<1>1. \A f : Cardinality(In(Calls, f, H)) \in Nat /\ Cardinality(In(Lookups, f, K)) \in Nat
  BY CallsAreFinite, FS_Subset, FS_CardinalityType DEF In
<1> QED BY <1>1 DEF SlotsAreReturned, In, H, K

\* The count stays right when one call moves.
LEMMA SlotsMove ==
    ASSUME TypeOK, SlotsAreReturned, NEW c \in Calls, NEW v, MovesTo(c, v)
    PROVE  SlotsAreReturned' /\ slots' \in Nat
<1>1. pc'[c] = v /\ \A d \in Calls \ {c} : pc'[d] = pc[d]
  BY DEF TypeOK, MovesTo
<1>2. PICK x \in Nat, y \in Nat, x1 \in Nat, y1 \in Nat :
        /\ x = Cardinality(In(Calls, pc, H)) /\ y = Cardinality(In(Lookups, pc, K))
        /\ x1 = Cardinality(In(Calls, pc', H)) /\ y1 = Cardinality(In(Lookups, pc', K))
  BY Slots
<1>3. PICK h \in Nat, h1 \in Nat, k \in Nat, k1 \in Nat :
        /\ h = One(pc[c], H) /\ h1 = One(v, H)
        /\ k = One(pc[c], K) /\ k1 = One(v, K)
  BY DEF One
<1>4. slots = x + y
  BY <1>2, Slots
<1>5. x1 + h = x + h1
  BY <1>1, <1>2, <1>3, CallsAreFinite, OneMoves
<1>6. CASE c \in Lookups
  <2>1. \A d \in Lookups \ {c} : pc'[d] = pc[d]
    BY <1>1 DEF Calls
  <2>2. y1 + k = y + k1
    <3>1. IsFiniteSet(Lookups)
      BY CallsAreFinite
    <3>2. Cardinality(In(Lookups, pc', K)) + One(pc[c], K)
            = Cardinality(In(Lookups, pc, K)) + One(pc'[c], K)
      BY <3>1, <2>1, <1>6, OneMoves
    <3> QED BY <3>2, <1>1, <1>2, <1>3
  <2>3. slots' = slots + (h1 + k1) - (h + k)
    BY <1>3, <1>6 DEF MovesTo, Held
  <2>4. slots' = x1 + y1
    BY <1>4, <1>5, <2>2, <2>3
  <2> QED BY <1>2, <2>4, Slots
<1>7. CASE c \notin Lookups
  <2>1. y1 = y
    BY <1>1, <1>2, <1>7 DEF Calls, In
  <2>2. slots' = slots + h1 - h
    BY <1>3, <1>7 DEF MovesTo, Held
  <2>3. slots' = x1 + y1
    BY <1>4, <1>5, <2>1, <2>2
  <2> QED BY <1>2, <2>3, Slots
<1> QED BY <1>6, <1>7

\* Who holds a slot does not change when calls move between states without one.
LEMMA SlotsRest ==
    ASSUME TypeOK, SlotsAreReturned, slots' = slots,
           \A c \in Calls : pc'[c] = pc[c] \/ (c \notin Lookups /\ {pc[c], pc'[c]} \subseteq {"none", "slot", "done"})
    PROVE  SlotsAreReturned'
<1>1. {d \in Calls : pc'[d] \in {"http", "httpAvatar"}} = {d \in Calls : pc[d] \in {"http", "httpAvatar"}}
  OBVIOUS
<1>2. {l \in Lookups : pc'[l] \in {"acquireAvatar", "queuedAvatar", "httpAvatar", "release"}}
        = {l \in Lookups : pc[l] \in {"acquireAvatar", "queuedAvatar", "httpAvatar", "release"}}
  BY DEF Calls
<1> QED BY <1>1, <1>2 DEF SlotsAreReturned

------------------------------------------------------------------------------

\* A read that reports a cancellation was cancelled by its client.
CauseInv == \A r \in Readers : cause[r] = "canceled" => r \in gone

CallInv == TypeOK /\ SlotsAreReturned /\ CauseInv

LEMMA InitInv == Init => CallInv
<1> SUFFICES ASSUME Init PROVE CallInv
  OBVIOUS
<1>1. TypeOK
  BY CallsAssumption DEF Init, TypeOK, PagePC, LookupPC, Stage, Error, Calls, Pages
<1>2. SlotsAreReturned
  <2>1. {d \in Calls : pc[d] \in {"http", "httpAvatar"}} = {}
    BY DEF Init, Calls
  <2>2. {l \in Lookups : pc[l] \in {"acquireAvatar", "queuedAvatar", "httpAvatar", "release"}} = {}
    BY DEF Init, Calls
  <2>3. slots = 0 /\ In(Calls, pc, H) = {} /\ In(Lookups, pc, K) = {}
    BY <2>1, <2>2 DEF Init, In, H, K
  <2>4. slots = Cardinality(In(Calls, pc, H)) + Cardinality(In(Lookups, pc, K))
    BY <2>3, FS_EmptySet
  <2> QED BY <2>4, Slots
<1>3. CauseInv
  BY DEF CauseInv, Init
<1> QED BY <1>1, <1>2, <1>3 DEF CallInv

\* A page that GitHub answers has weeks of the history only.
LEMMA PageType == ASSUME TypeOK, NEW k PROVE Page(k) \subseteq 1..MaxWeeks
BY CallsAssumption DEF Page, TypeOK

LEMMA LastPageType == ASSUME TypeOK PROVE LastPage \in 0..MaxWeeks
<1>1. latest \in Nat /\ latest <= MaxWeeks /\ PerPage \in Nat /\ PerPage >= 1 /\ MaxWeeks \in Nat
  BY CallsAssumption DEF TypeOK
<1> QED BY <1>1 DEF LastPage

\* The state a call moves to is one of its own.
LEMMA PCMoves ==
    ASSUME TypeOK, NEW c \in Calls, NEW v \in IF c \in Lookups THEN LookupPC ELSE PagePC,
           pc' = [pc EXCEPT ![c] = v]
    PROVE  PCType(pc')
BY DEF TypeOK, PCType

\* A step in which one call moves and nothing else changes.
LEMMA CallMoves ==
    ASSUME CallInv, NEW c \in Calls, NEW v \in IF c \in Lookups THEN LookupPC ELSE PagePC,
           MovesTo(c, v), slots' <= Limit, UNCHANGED <<latest, readVars, gone>>
    PROVE  CallInv'
<1>1. SlotsAreReturned' /\ slots' \in Nat
  BY SlotsMove DEF CallInv
<1>2. PCType(pc')
  BY PCMoves DEF CallInv, MovesTo
<1>3. TypeOK'
  BY <1>1, <1>2, CallsAssumption DEF CallInv, TypeOK, PCType, readVars
<1>4. CauseInv'
  BY DEF CallInv, CauseInv, readVars
<1> QED BY <1>1, <1>3, <1>4 DEF CallInv

\* A page that comes back with an error.
LEMMA FailMoves ==
    ASSUME CallInv, NEW r \in Readers, NEW k \in Pages, NEW e \in Error,
           Fail(r, k, e), e = "canceled" => Cancelled(r),
           slots' = slots - Held(<<r, k>>, pc[<<r, k>>])
    PROVE  CallInv'
<1>1. <<r, k>> \in Calls /\ <<r, k>> \notin Lookups
  BY PagesAreCalls
<1>2. slots \in Nat /\ slots <= Limit
  BY CallsAssumption DEF CallInv, TypeOK
<1>3. PICK h \in Nat : h = Held(<<r, k>>, pc[<<r, k>>])
  BY <1>1 DEF Held, One
<1>4. Held(<<r, k>>, "done") = 0
  BY <1>1 DEF Held, One, H
<1>5. MovesTo(<<r, k>>, "done") /\ slots' <= Limit
  BY <1>2, <1>3, <1>4, CallsAssumption DEF MovesTo, Fail, Goes
<1>6. SlotsAreReturned' /\ slots' \in Nat
  BY <1>1, <1>5, SlotsMove DEF CallInv
<1>7. PCType(pc')
  BY <1>1, PCMoves DEF CallInv, Fail, Goes, PagePC
<1>8. cause' \in [Readers -> Error \cup {"none"}]
  BY DEF CallInv, TypeOK, Fail
<1>9. TypeOK'
  BY <1>5, <1>6, <1>7, <1>8, CallsAssumption DEF CallInv, TypeOK, PCType, Fail
<1>10. CauseInv'
  BY DEF CallInv, CauseInv, Fail, Cancelled, TypeOK
<1> QED BY <1>6, <1>9, <1>10 DEF CallInv

\* What a call holds in each of its states.
LEMMA Holds ==
    /\ \A c \in Calls : \A v \in {"none", "slot", "acquire", "queued", "done", "idle"} : Held(c, v) = 0
    /\ \A c \in Calls : Held(c, "http") = 1
    /\ \A l \in Lookups : Held(l, "httpAvatar") = 2
    /\ \A l \in Lookups : \A v \in {"acquireAvatar", "queuedAvatar", "release"} : Held(l, v) = 1
BY DEF Held, One, H, K

------------------------------------------------------------------------------
\* The limiter's steps.
LEMMA AcquireInv == ASSUME CallInv, NEW c \in Calls, Acquire(c) PROVE CallInv'
<1>1. slots \in Nat /\ slots < Limit /\ Limit \in Nat
  BY CallsAssumption DEF CallInv, TypeOK, Acquire
<1>2. CASE pc[c] \in {"acquire", "queued"}
  <2>1. pc' = [pc EXCEPT ![c] = "http"] /\ slots' = slots + 1
    <3>1. Granted["acquire"] = "http" /\ Granted["queued"] = "http"
      BY DEF Granted
    <3> QED BY <1>2, <3>1 DEF Acquire, Goes
  <2>2. Held(c, pc[c]) = 0 /\ Held(c, "http") = 1
    BY <1>2, Holds
  <2>3. MovesTo(c, "http") /\ slots' <= Limit
    BY <1>1, <2>1, <2>2 DEF MovesTo
  <2> QED BY <2>3, CallMoves DEF Acquire, LookupPC, PagePC
<1>3. CASE pc[c] \in {"acquireAvatar", "queuedAvatar"}
  <2>1. c \in Lookups
    BY <1>3 DEF CallInv, TypeOK, PagePC
  <2>2. pc' = [pc EXCEPT ![c] = "httpAvatar"] /\ slots' = slots + 1
    <3>1. Granted["acquireAvatar"] = "httpAvatar" /\ Granted["queuedAvatar"] = "httpAvatar"
      BY DEF Granted
    <3> QED BY <1>3, <3>1 DEF Acquire, Goes
  <2>3. Held(c, pc[c]) = 1 /\ Held(c, "httpAvatar") = 2
    BY <1>3, <2>1, Holds
  <2>4. MovesTo(c, "httpAvatar") /\ slots' <= Limit
    BY <1>1, <2>2, <2>3 DEF MovesTo
  <2> QED BY <2>1, <2>4, CallMoves DEF Acquire, LookupPC
<1> QED BY <1>2, <1>3 DEF Acquire, Granted

LEMMA QueueInv == ASSUME CallInv, NEW c \in Calls, Queue(c) PROVE CallInv'
<1>1. slots \in Nat /\ slots <= Limit /\ Limit \in Nat
  BY CallsAssumption DEF CallInv, TypeOK
<1>2. CASE pc[c] = "acquire"
  <2>1. pc' = [pc EXCEPT ![c] = "queued"] /\ slots' = slots
    BY <1>2 DEF Queue, Goes, Queueing
  <2>2. MovesTo(c, "queued") /\ slots' <= Limit
    BY <1>1, <1>2, <2>1, Holds DEF MovesTo
  <2> QED BY <2>2, CallMoves DEF Queue, LookupPC, PagePC
<1>3. CASE pc[c] = "acquireAvatar"
  <2>1. c \in Lookups
    BY <1>3 DEF CallInv, TypeOK, PagePC
  <2>2. pc' = [pc EXCEPT ![c] = "queuedAvatar"] /\ slots' = slots
    BY <1>3 DEF Queue, Goes, Queueing
  <2>3. MovesTo(c, "queuedAvatar") /\ slots' <= Limit
    BY <1>1, <1>3, <2>1, <2>2, Holds DEF MovesTo
  <2> QED BY <2>1, <2>3, CallMoves DEF Queue, LookupPC
<1> QED BY <1>2, <1>3 DEF Queue, Queueing

------------------------------------------------------------------------------
\* The steps of a page.
LEMMA PageInv ==
    ASSUME CallInv, NEW r \in Readers, NEW k \in Pages, PageStep(r, k)
    PROVE  CallInv'
<1> DEFINE c == <<r, k>>
<1>1. c \in Calls /\ c \notin Lookups
  BY PagesAreCalls
<1>2. slots \in Nat /\ slots <= Limit /\ Limit \in Nat
  BY CallsAssumption DEF CallInv, TypeOK
<1>3. CASE TakeTurn(r, k)
  <2>1. MovesTo(c, "acquire") /\ slots' <= Limit
    BY <1>1, <1>2, <1>3, Holds DEF TakeTurn, MovesTo, Goes
  <2> QED BY <1>1, <1>3, <2>1, CallMoves DEF TakeTurn, PagePC
<1>4. CASE Skip(r, k)
  <2>1. MovesTo(c, "done") /\ slots' <= Limit
    BY <1>1, <1>2, <1>4, Holds DEF Skip, MovesTo, Goes
  <2> QED BY <1>1, <1>4, <2>1, CallMoves DEF Skip, PagePC
<1>5. CASE PageRefused(r, k)
  <2>1. slots' = slots - Held(c, pc[c])
    BY <1>1, <1>2, <1>5, Holds DEF PageRefused
  <2> QED BY <1>5, <2>1, FailMoves DEF PageRefused, Error
<1>6. CASE Acquire(c)
  BY <1>1, <1>6, AcquireInv
<1>7. CASE Queue(c)
  BY <1>1, <1>7, QueueInv
<1>8. CASE PageGivesUp(r, k)
  <2>1. slots' = slots - Held(c, pc[c])
    BY <1>1, <1>2, <1>8, Holds DEF PageGivesUp
  <2> QED BY <1>8, <2>1, FailMoves DEF PageGivesUp, Error
<1>9. CASE PageFails(r, k)
  <2>1. slots' = slots - Held(c, pc[c])
    BY <1>1, <1>2, <1>9, Holds DEF PageFails
  <2> QED BY <1>9, <2>1, FailMoves DEF PageFails, Error
<1>10. CASE PageAnswered(r, k)
  <2>1. MovesTo(c, "done") /\ slots' <= Limit
    BY <1>1, <1>2, <1>10, Holds DEF PageAnswered, MovesTo, Goes
  <2>2. SlotsAreReturned' /\ slots' \in Nat
    BY <1>1, <2>1, SlotsMove DEF CallInv
  <2>3. PCType(pc')
    BY <1>1, <2>1, PCMoves DEF CallInv, MovesTo, PagePC
  <2>4. got' \in [Readers -> [Pages -> SUBSET (1..MaxWeeks)]]
    BY <1>10, PageType DEF CallInv, TypeOK, PageAnswered
  <2>5. last' \in [Readers -> 0..MaxWeeks]
    BY <1>10, LastPageType, CallsAssumption DEF CallInv, TypeOK, PageAnswered
  <2>6. TypeOK'
    BY <1>10, <2>1, <2>2, <2>3, <2>4, <2>5, CallsAssumption DEF CallInv, TypeOK, PCType, PageAnswered
  <2>7. CauseInv'
    BY <1>10 DEF CallInv, CauseInv, PageAnswered
  <2> QED BY <2>2, <2>6, <2>7 DEF CallInv
<1> QED BY <1>3, <1>4, <1>5, <1>6, <1>7, <1>8, <1>9, <1>10 DEF PageStep

\* The steps of a lookup.
LEMMA LookupInv == ASSUME CallInv, NEW l \in Lookups, Look(l) \/ LookupStep(l) PROVE CallInv'
<1>1. l \in Calls
  BY DEF Calls
<1>2. slots \in Nat /\ slots <= Limit /\ Limit \in Nat
  BY CallsAssumption DEF CallInv, TypeOK
<1>3. CASE Look(l)
  <2>1. MovesTo(l, "acquire") /\ slots' <= Limit
    BY <1>1, <1>2, <1>3, Holds DEF Look, MovesTo, Goes
  <2> QED BY <1>1, <1>3, <2>1, CallMoves DEF Look, LookupPC
<1>4. CASE Acquire(l)
  BY <1>1, <1>4, AcquireInv
<1>5. CASE Queue(l)
  BY <1>1, <1>5, QueueInv
<1>6. CASE LookupGivesUp(l)
  <2>1. MovesTo(l, "idle") /\ slots' <= Limit
    BY <1>1, <1>2, <1>6, Holds DEF LookupGivesUp, MovesTo, Goes
  <2> QED BY <1>1, <1>6, <2>1, CallMoves DEF LookupGivesUp, LookupPC
<1>7. CASE MetadataAnswered(l)
  <2>1. PICK v \in {"release", "acquireAvatar"} : Goes(l, v)
    BY <1>7 DEF MetadataAnswered
  <2>2. MovesTo(l, v) /\ slots' <= Limit
    BY <1>1, <1>2, <1>7, <2>1, Holds DEF MetadataAnswered, MovesTo, Goes
  <2> QED BY <1>1, <1>7, <2>2, CallMoves DEF MetadataAnswered, LookupPC
<1>8. CASE AvatarGivesUp(l)
  <2>1. MovesTo(l, "release") /\ slots' <= Limit
    BY <1>1, <1>2, <1>8, Holds DEF AvatarGivesUp, MovesTo, Goes
  <2> QED BY <1>1, <1>8, <2>1, CallMoves DEF AvatarGivesUp, LookupPC
<1>9. CASE AvatarAnswered(l)
  <2>1. MovesTo(l, "release") /\ slots' <= Limit
    BY <1>1, <1>2, <1>9, Holds DEF AvatarAnswered, MovesTo, Goes
  <2> QED BY <1>1, <1>9, <2>1, CallMoves DEF AvatarAnswered, LookupPC
<1>10. CASE Release(l)
  <2>1. MovesTo(l, "idle") /\ slots' <= Limit
    BY <1>1, <1>2, <1>10, Holds DEF Release, MovesTo, Goes
  <2> QED BY <1>1, <1>10, <2>1, CallMoves DEF Release, LookupPC
<1> QED BY <1>3, <1>4, <1>5, <1>6, <1>7, <1>8, <1>9, <1>10 DEF LookupStep

------------------------------------------------------------------------------
(* The read: its pages have settled whenever the next stage begins, so that  *)
(* End forgets no call that still holds a slot.                              *)

Settled(r, k) == pc[<<r, k>>] \in {"none", "done"}

\* Page k has not been asked for before the read has come so far.
PagesInv ==
    \A r \in Readers : \A k \in Pages :
        /\ stage[r] = "idle" => pc[<<r, k>>] = "none"
        /\ stage[r] = "first" /\ k # 1 => pc[<<r, k>>] = "none"
        /\ stage[r] = "serial" /\ pc[<<r, k>>] # "none" =>
              \A j \in Pages : j < k => pc[<<r, j>>] = "done"
        /\ stage[r] \in {"save", "ok", "failed"} => Settled(r, k)

IInv == CallInv /\ PagesInv

\* A call that is under way may go on or end.
LEMMA UnderWay ==
    ASSUME TypeOK, PagesInv, stage' = stage, NEW c \in Calls, NEW v,
           pc' = [pc EXCEPT ![c] = v],
           c \in Lookups \/ (pc[c] \notin {"none", "done"} /\ v # "none")
    PROVE  PagesInv'
<1> SUFFICES ASSUME NEW r \in Readers, NEW k \in Pages
             PROVE  /\ stage[r] = "idle" => pc'[<<r, k>>] = "none"
                    /\ stage[r] = "first" /\ k # 1 => pc'[<<r, k>>] = "none"
                    /\ stage[r] = "serial" /\ pc'[<<r, k>>] # "none" =>
                          \A j \in Pages : j < k => pc'[<<r, j>>] = "done"
                    /\ stage[r] \in {"save", "ok", "failed"} => pc'[<<r, k>>] \in {"none", "done"}
  BY DEF PagesInv, Settled
<1>1. \A d \in Calls : pc'[d] = IF d = c THEN v ELSE pc[d]
  BY DEF TypeOK
<1>2. \A j \in Pages : /\ <<r, j>> \in Calls
                       /\ pc[<<r, j>>] \in {"none", "done"} => pc'[<<r, j>>] = pc[<<r, j>>]
                       /\ pc'[<<r, j>>] = "none" <=> pc[<<r, j>>] = "none"
  BY <1>1, PagesAreCalls
<1> QED BY <1>2 DEF PagesInv, Settled

LEMMA PageSettles ==
    ASSUME TypeOK, PagesInv, NEW r \in Readers, NEW k \in Pages, PageStep(r, k)
    PROVE  PagesInv'
<1>1. <<r, k>> \in Calls
  BY PagesAreCalls
<1>2. stage' = stage /\ pc[<<r, k>>] \notin {"none", "done"}
  BY DEF PageStep, TakeTurn, Skip, PageRefused, Acquire, Granted, Queue, Queueing, PageGivesUp,
         PageFails, PageAnswered, Fail, readVars
<1>3. PICK v \in {"acquire", "queued", "http", "httpAvatar", "queuedAvatar", "done"} :
          pc' = [pc EXCEPT ![<<r, k>>] = v]
  BY DEF PageStep, TakeTurn, Skip, PageRefused, Acquire, Granted, Queue, Queueing, PageGivesUp,
         PageFails, PageAnswered, Fail, Goes
<1> QED BY <1>1, <1>2, <1>3, UnderWay

LEMMA LookupSettles ==
    ASSUME TypeOK, PagesInv, NEW l \in Lookups, Look(l) \/ LookupStep(l)
    PROVE  PagesInv'
<1>1. l \in Calls /\ stage' = stage
  BY DEF Calls, Look, LookupStep, Acquire, Queue, LookupGivesUp, MetadataAnswered,
         AvatarGivesUp, AvatarAnswered, Release, readVars
<1>2. \E v : pc' = [pc EXCEPT ![l] = v]
  BY DEF Look, LookupStep, Acquire, Queue, LookupGivesUp, MetadataAnswered,
         AvatarGivesUp, AvatarAnswered, Release, Goes
<1> QED BY <1>1, <1>2, UnderWay

\* A step of a read that moves no call.
LEMMA ReadMoves ==
    ASSUME IInv, NEW r \in Readers, NEW s \in Stage, To(r, s), UNCHANGED <<slots, pc>>,
           stage[r] \notin {"idle"} /\ s \in {"save", "ok", "failed"},
           \A k \in Pages : Settled(r, k),
           NEW e \in Error \cup {"none"}, cause' = [cause EXCEPT ![r] = e],
           e = "canceled" => r \in gone,
           UNCHANGED <<latest, last, got, began, gone>>
    PROVE  IInv'
<1>1. TypeOK'
  BY DEF IInv, CallInv, TypeOK, To
<1>2. SlotsAreReturned'
  BY SlotsRest DEF IInv, CallInv
<1>3. CauseInv'
  BY DEF IInv, CallInv, CauseInv, TypeOK
<1>4. PagesInv'
  <2> SUFFICES ASSUME NEW q \in Readers, NEW k \in Pages
               PROVE  /\ stage'[q] = "idle" => pc'[<<q, k>>] = "none"
                      /\ stage'[q] = "first" /\ k # 1 => pc'[<<q, k>>] = "none"
                      /\ stage'[q] = "serial" /\ pc'[<<q, k>>] # "none" =>
                            \A j \in Pages : j < k => pc'[<<q, j>>] = "done"
                      /\ stage'[q] \in {"save", "ok", "failed"} => pc'[<<q, k>>] \in {"none", "done"}
    BY DEF PagesInv, Settled
  <2>1. stage'[q] = IF q = r THEN s ELSE stage[q]
    BY DEF IInv, CallInv, TypeOK, To
  <2>2. CASE q = r
    BY <2>1, <2>2 DEF Settled
  <2>3. CASE q # r
    BY <2>1, <2>3 DEF IInv, PagesInv, Settled
  <2> QED BY <2>2, <2>3
<1> QED BY <1>1, <1>2, <1>3, <1>4 DEF IInv, CallInv

\* A read asks for its first or its next page.
LEMMA BeginInv == ASSUME IInv, NEW r \in Readers, Begin(r) PROVE IInv'
<1> DEFINE c == <<r, 1>>
<1>1. 1 \in Pages /\ c \in Calls /\ c \notin Lookups
  BY CallsAssumption, PagesAreCalls DEF Pages
<1>2. pc[c] = "none"
  BY <1>1 DEF IInv, PagesInv, Begin
<1>3. MovesTo(c, "acquire")
  BY <1>1, <1>2, Holds DEF Begin, MovesTo, Goes, IInv, CallInv, TypeOK
<1>4. SlotsAreReturned'
  BY <1>1, <1>3, SlotsMove DEF IInv, CallInv
<1>5. PCType(pc')
  BY <1>1, <1>3, PCMoves DEF IInv, CallInv, MovesTo, PagePC
<1>6. TypeOK'
  BY <1>5 DEF IInv, CallInv, TypeOK, PCType, Begin, To, Stage
<1>7. CauseInv'
  BY DEF IInv, CallInv, CauseInv, Begin
<1>8. PagesInv'
  <2> SUFFICES ASSUME NEW q \in Readers, NEW k \in Pages
               PROVE  /\ stage'[q] = "idle" => pc'[<<q, k>>] = "none"
                      /\ stage'[q] = "first" /\ k # 1 => pc'[<<q, k>>] = "none"
                      /\ stage'[q] = "serial" /\ pc'[<<q, k>>] # "none" =>
                            \A j \in Pages : j < k => pc'[<<q, j>>] = "done"
                      /\ stage'[q] \in {"save", "ok", "failed"} => pc'[<<q, k>>] \in {"none", "done"}
    BY DEF PagesInv, Settled
  <2>1. \A j \in Pages : pc'[<<q, j>>] = IF q = r /\ j = 1 THEN "acquire" ELSE pc[<<q, j>>]
    BY PagesAreCalls DEF Begin, Goes, IInv, CallInv, TypeOK
  <2>2. stage'[q] = IF q = r THEN "first" ELSE stage[q]
    BY DEF Begin, To, IInv, CallInv, TypeOK
  <2> QED BY <2>1, <2>2 DEF IInv, PagesInv, Settled, Begin
<1> QED BY <1>4, <1>6, <1>7, <1>8 DEF IInv, CallInv

LEMMA NextPageInv ==
    ASSUME IInv, NEW r \in Readers, NEW k \in Pages, k + 1 \in Pages,
           (stage[r] = "first" /\ k = 1) \/ stage[r] = "serial",
           pc[<<r, k>>] = "done", \A j \in Pages : j > k => pc[<<r, j>>] = "none",
           To(r, "serial"), Goes(<<r, k + 1>>, "acquire"),
           UNCHANGED <<latest, slots, last, got, cause, began, gone>>
    PROVE  IInv'
<1> DEFINE c == <<r, k + 1>>
<1>1. c \in Calls /\ c \notin Lookups /\ pc[c] = "none"
  BY PagesAreCalls DEF Pages
<1>2. MovesTo(c, "acquire")
  BY <1>1, Holds DEF MovesTo, Goes, IInv, CallInv, TypeOK
<1>3. SlotsAreReturned'
  BY <1>1, <1>2, SlotsMove DEF IInv, CallInv
<1>4. PCType(pc')
  BY <1>1, <1>2, PCMoves DEF IInv, CallInv, MovesTo, PagePC
<1>5. TypeOK'
  BY <1>4 DEF IInv, CallInv, TypeOK, PCType, To, Stage
<1>6. CauseInv'
  BY DEF IInv, CallInv, CauseInv
<1>7. PagesInv'
  <2> SUFFICES ASSUME NEW q \in Readers, NEW n \in Pages
               PROVE  /\ stage'[q] = "idle" => pc'[<<q, n>>] = "none"
                      /\ stage'[q] = "first" /\ n # 1 => pc'[<<q, n>>] = "none"
                      /\ stage'[q] = "serial" /\ pc'[<<q, n>>] # "none" =>
                            \A j \in Pages : j < n => pc'[<<q, j>>] = "done"
                      /\ stage'[q] \in {"save", "ok", "failed"} => pc'[<<q, n>>] \in {"none", "done"}
    BY DEF PagesInv, Settled
  <2>1. \A j \in Pages : pc'[<<q, j>>] = IF q = r /\ j = k + 1 THEN "acquire" ELSE pc[<<q, j>>]
    BY PagesAreCalls DEF Goes, IInv, CallInv, TypeOK
  <2>2. stage'[q] = IF q = r THEN "serial" ELSE stage[q]
    BY DEF To, IInv, CallInv, TypeOK
  <2>3. \A j \in Pages : j < k => stage[r] = "serial" /\ pc[<<r, j>>] = "done"
    BY DEF IInv, PagesInv, Pages
  <2>4. CASE q = r
    <3>1. \A j \in Pages : j <= k => pc'[<<q, j>>] = "done"
      BY <2>1, <2>3, <2>4 DEF Pages
    <3>2. \A j \in Pages : j > k + 1 => pc'[<<q, j>>] = "none"
      BY <2>1, <2>4 DEF Pages
    <3> QED BY <2>2, <2>4, <3>1, <3>2 DEF Pages
  <2>5. CASE q # r
    BY <2>1, <2>2, <2>5 DEF IInv, PagesInv, Settled
  <2> QED BY <2>4, <2>5
<1> QED BY <1>3, <1>5, <1>6, <1>7 DEF IInv, CallInv

LEMMA AfterFirstInv == ASSUME IInv, NEW r \in Readers, AfterFirst(r) PROVE IInv'
<1>1. 1 \in Pages /\ 2 \in Pages /\ 1 + 1 = 2 /\ \A k \in Pages : k # 1 => pc[<<r, k>>] = "none"
  BY CallsAssumption DEF Pages, IInv, PagesInv, AfterFirst
<1>2. \A k \in Pages : Settled(r, k)
  BY <1>1 DEF AfterFirst, Settled
<1>3. cause[r] \in Error \cup {"none"} /\ cause = [cause EXCEPT ![r] = cause[r]]
      /\ (cause[r] = "canceled" => r \in gone)
  BY DEF IInv, CallInv, TypeOK, CauseInv
<1>4. CASE Return(r)
  BY <1>2, <1>3, <1>4, ReadMoves DEF Return, AfterFirst, Stage
<1>5. CASE /\ cause' = [cause EXCEPT ![r] = "notFound"]
           /\ To(r, "failed")
           /\ UNCHANGED <<latest, slots, pc, last, got, began, gone>>
  BY <1>2, <1>5, ReadMoves DEF AfterFirst, Stage, Error
<1>6. CASE /\ To(r, "serial") /\ Goes(<<r, 2>>, "acquire")
           /\ UNCHANGED <<latest, slots, last, got, cause, began, gone>>
  <2>1. \A j \in Pages : j > 1 => pc[<<r, j>>] = "none"
    BY <1>1
  <2> QED BY <1>1, <1>6, <2>1, NextPageInv DEF AfterFirst
<1>7. CASE To(r, "save") /\ UNCHANGED <<latest, slots, pc, last, got, cause, began, gone>>
  BY <1>2, <1>3, <1>7, ReadMoves DEF AfterFirst, Stage
<1>8. CASE /\ To(r, "parallel")
           /\ pc' = [c \in Calls |-> IF c \in {r} \X (2..last[r]) THEN "slot" ELSE pc[c]]
           /\ UNCHANGED <<latest, slots, last, got, cause, began, gone>>
  <2>1. \A c \in Calls : c \in {r} \X (2..last[r]) => c \notin Lookups /\ pc[c] = "none"
    <3> SUFFICES ASSUME NEW c \in Calls, c \in {r} \X (2..last[r])
                 PROVE  c \notin Lookups /\ pc[c] = "none"
      OBVIOUS
    <3>1. PICK k \in 2..last[r] : c = <<r, k>>
      OBVIOUS
    <3>2. last[r] \in Nat /\ k # 1
      BY CallsAssumption DEF IInv, CallInv, TypeOK
    <3>3. k \in Pages
      <4>1. <<r, k>> \notin Lookups
        BY <3>2, CallsAssumption
      <4> QED BY <3>1, <4>1 DEF Calls
    <3> QED BY <1>1, <3>1, <3>2, <3>3, PagesAreCalls
  <2>2. SlotsAreReturned'
    BY <1>8, <2>1, SlotsRest DEF IInv, CallInv
  <2>3. PCType(pc')
    BY <1>8, <2>1 DEF PCType, IInv, CallInv, TypeOK, PagePC
  <2>4. TypeOK'
    BY <1>8, <2>3 DEF IInv, CallInv, TypeOK, PCType, To, Stage
  <2>5. CauseInv'
    BY <1>8 DEF IInv, CallInv, CauseInv
  <2>6. PagesInv'
    <3> SUFFICES ASSUME NEW q \in Readers, NEW k \in Pages
                 PROVE  /\ stage'[q] = "idle" => pc'[<<q, k>>] = "none"
                        /\ stage'[q] = "first" /\ k # 1 => pc'[<<q, k>>] = "none"
                        /\ stage'[q] = "serial" /\ pc'[<<q, k>>] # "none" =>
                              \A j \in Pages : j < k => pc'[<<q, j>>] = "done"
                        /\ stage'[q] \in {"save", "ok", "failed"} => pc'[<<q, k>>] \in {"none", "done"}
      BY DEF PagesInv, Settled
    <3>1. stage'[q] = IF q = r THEN "parallel" ELSE stage[q]
      BY <1>8 DEF IInv, CallInv, TypeOK, To
    <3>2. q # r => \A j \in Pages : pc'[<<q, j>>] = pc[<<q, j>>]
      BY <1>8, PagesAreCalls
    <3>3. CASE q = r
      BY <3>1, <3>2, <3>3
    <3>4. CASE q # r
      BY <3>1, <3>2, <3>4 DEF IInv, PagesInv, Settled
    <3> QED BY <3>3, <3>4
  <2> QED BY <2>2, <2>4, <2>5, <2>6 DEF IInv, CallInv
<1> QED BY <1>4, <1>5, <1>6, <1>7, <1>8 DEF AfterFirst

LEMMA AfterNextInv == ASSUME IInv, NEW r \in Readers, AfterNext(r) PROVE IInv'
<1>1. PICK k \in Pages :
        /\ pc[<<r, k>>] = "done"
        /\ \A j \in Pages : j > k => pc[<<r, j>>] = "none"
        /\ \/ Return(r)
           \/ /\ IF got[r][k] = {} \/ k = MaxPages
                 THEN To(r, "save") /\ UNCHANGED pc
                 ELSE UNCHANGED stage /\ Goes(<<r, k + 1>>, "acquire")
              /\ UNCHANGED <<latest, slots, last, got, cause, began, gone>>
  BY DEF AfterNext
<1>2. \A j \in Pages : Settled(r, j)
  BY <1>1 DEF Settled, IInv, PagesInv, AfterNext, Pages
<1>3. cause[r] \in Error \cup {"none"} /\ cause = [cause EXCEPT ![r] = cause[r]]
      /\ (cause[r] = "canceled" => r \in gone)
  BY DEF IInv, CallInv, TypeOK, CauseInv
<1>4. CASE Return(r)
  BY <1>2, <1>3, <1>4, ReadMoves DEF Return, AfterNext, Stage
<1>5. CASE To(r, "save") /\ UNCHANGED <<latest, slots, pc, last, got, cause, began, gone>>
  BY <1>2, <1>3, <1>5, ReadMoves DEF AfterNext, Stage
<1>6. CASE /\ k # MaxPages /\ UNCHANGED stage /\ Goes(<<r, k + 1>>, "acquire")
           /\ UNCHANGED <<latest, slots, last, got, cause, began, gone>>
  <2>1. k + 1 \in Pages
    BY <1>6, CallsAssumption DEF Pages
  <2>2. To(r, "serial")
    BY <1>6 DEF AfterNext, To, IInv, CallInv, TypeOK
  <2> QED BY <1>1, <1>6, <2>1, <2>2, NextPageInv DEF AfterNext
<1> QED BY <1>1, <1>4, <1>5, <1>6

LEMMA JoinInv == ASSUME IInv, NEW r \in Readers, Join(r) PROVE IInv'
<1>1. \A k \in Pages : Settled(r, k)
  BY DEF Join, Settled
<1>2. cause[r] \in Error \cup {"none"} /\ cause = [cause EXCEPT ![r] = cause[r]]
      /\ (cause[r] = "canceled" => r \in gone)
  BY DEF IInv, CallInv, TypeOK, CauseInv
<1>3. PICK s \in {"save", "failed"} : To(r, s)
  BY DEF Join
<1> QED BY <1>1, <1>2, <1>3, ReadMoves DEF Join, Stage

LEMMA SaveInv == ASSUME IInv, NEW r \in Readers, Save(r) PROVE IInv'
<1>1. \A k \in Pages : Settled(r, k)
  BY DEF Save, IInv, PagesInv
<1>2. cause[r] \in Error \cup {"none"} /\ cause = [cause EXCEPT ![r] = cause[r]]
      /\ (cause[r] = "canceled" => r \in gone)
  BY DEF IInv, CallInv, TypeOK, CauseInv
<1>3. CASE To(r, "ok") /\ UNCHANGED cause
  BY <1>1, <1>2, <1>3, ReadMoves DEF Save, Stage
<1>4. CASE /\ To(r, "failed")
           /\ \E e \in {"error"} \cup (IF r \in gone THEN {"canceled"} ELSE {}) :
                 cause' = [cause EXCEPT ![r] = e]
  <2>1. PICK e \in Error : cause' = [cause EXCEPT ![r] = e] /\ (e = "canceled" => r \in gone)
    BY <1>4 DEF Error
  <2> QED BY <1>1, <1>4, <2>1, ReadMoves DEF Save, Stage
<1> QED BY <1>3, <1>4 DEF Save

LEMMA EndInv == ASSUME IInv, NEW r \in Readers, End(r) PROVE IInv'
<1>1. \A c \in Calls : c \in {r} \X Pages => c \notin Lookups /\ pc[c] \in {"none", "done"}
  BY PagesAreCalls DEF IInv, PagesInv, Settled, End
<1>2. SlotsAreReturned'
  BY <1>1, SlotsRest DEF IInv, CallInv, End
<1>3. PCType(pc')
  BY <1>1 DEF PCType, IInv, CallInv, TypeOK, End, PagePC
<1>4. 0 \in 0..MaxWeeks
  BY CallsAssumption
<1>5. TypeOK'
  BY <1>3, <1>4 DEF IInv, CallInv, TypeOK, PCType, End, To, Stage
<1>6. CauseInv'
  BY DEF IInv, CallInv, TypeOK, CauseInv, End
<1>7. PagesInv'
  <2> SUFFICES ASSUME NEW q \in Readers, NEW k \in Pages
               PROVE  /\ stage'[q] = "idle" => pc'[<<q, k>>] = "none"
                      /\ stage'[q] = "first" /\ k # 1 => pc'[<<q, k>>] = "none"
                      /\ stage'[q] = "serial" /\ pc'[<<q, k>>] # "none" =>
                            \A j \in Pages : j < k => pc'[<<q, j>>] = "done"
                      /\ stage'[q] \in {"save", "ok", "failed"} => pc'[<<q, k>>] \in {"none", "done"}
    BY DEF PagesInv, Settled
  <2>1. stage'[q] = IF q = r THEN "idle" ELSE stage[q]
    BY DEF IInv, CallInv, TypeOK, End, To
  <2>2. \A j \in Pages : pc'[<<q, j>>] = IF q = r THEN "none" ELSE pc[<<q, j>>]
    BY PagesAreCalls DEF End
  <2>3. CASE q = r
    BY <2>1, <2>2, <2>3
  <2>4. CASE q # r
    BY <2>1, <2>2, <2>4 DEF IInv, PagesInv, Settled
  <2> QED BY <2>3, <2>4
<1> QED BY <1>2, <1>5, <1>6, <1>7 DEF IInv, CallInv

------------------------------------------------------------------------------

\* Neither a client that goes away nor a week that begins moves a call.
LEMMA RestInv ==
    ASSUME IInv, UNCHANGED <<slots, pc, readVars>>,
           latest' \in 0..MaxWeeks, gone \subseteq gone' /\ gone' \subseteq Readers
    PROVE  IInv'
<1>1. TypeOK'
  BY DEF IInv, CallInv, TypeOK, readVars
<1>2. SlotsAreReturned'
  BY DEF IInv, CallInv, SlotsAreReturned
<1>3. CauseInv'
  BY DEF IInv, CallInv, CauseInv, readVars
<1>4. PagesInv'
  BY DEF IInv, PagesInv, Settled, readVars
<1> QED BY <1>1, <1>2, <1>3, <1>4 DEF IInv, CallInv

LEMMA InitPages == Init => PagesInv
BY PagesAreCalls DEF Init, PagesInv, Settled

LEMMA Inductive == IInv /\ [Next]_vars => IInv'
<1> SUFFICES ASSUME IInv, [Next]_vars PROVE IInv'
  OBVIOUS
<1>1. latest \in 0..MaxWeeks /\ gone \subseteq Readers
  BY DEF IInv, CallInv, TypeOK
<1>2. ASSUME NEW r \in Readers, Begin(r) PROVE IInv'
  BY <1>2, BeginInv
<1>3. ASSUME NEW r \in Readers, ReadStep(r) PROVE IInv'
  BY <1>3, AfterFirstInv, AfterNextInv, JoinInv, SaveInv, EndInv DEF ReadStep
<1>4. ASSUME NEW r \in Readers, Disconnect(r) PROVE IInv'
  BY <1>1, <1>4, RestInv DEF Disconnect
<1>5. ASSUME NEW r \in Readers, NEW k \in Pages, PageStep(r, k) PROVE IInv'
  BY <1>5, PageInv, PageSettles DEF IInv, CallInv
<1>6. ASSUME NEW l \in Lookups, Look(l) \/ LookupStep(l) PROVE IInv'
  BY <1>6, LookupInv, LookupSettles DEF IInv, CallInv
<1>7. CASE Grow
  <2>1. latest' \in 0..MaxWeeks
    BY <1>1, <1>7, CallsAssumption DEF Grow
  <2> QED BY <1>1, <1>7, <2>1, RestInv DEF Grow
<1>8. CASE UNCHANGED vars
  BY <1>1, <1>8, RestInv DEF vars
<1> QED BY <1>2, <1>3, <1>4, <1>5, <1>6, <1>7, <1>8 DEF Next

LEMMA Invariant == Spec => []IInv
<1>1. Init => IInv
  BY InitInv, InitPages DEF IInv
<1> QED BY <1>1, Inductive, PTL DEF Spec

------------------------------------------------------------------------------

\* Every variable keeps its type: the limiter's count never leaves 0..Limit, for
\* any number of reads, lookups and pages.
THEOREM TypeCorrect == Spec => []TypeOK
<1>1. IInv => TypeOK
  BY DEF IInv, CallInv
<1> QED BY <1>1, Invariant, PTL

\* limiter.go:52: every slot that is taken belongs to a call that gives it back.
THEOREM SlotsStayCounted == Spec => []SlotsAreReturned
<1>1. IInv => SlotsAreReturned
  BY DEF IInv, CallInv
<1> QED BY <1>1, Invariant, PTL

\* limiter.go:23: no more than Limit calls are on the way to GitHub.
THEOREM CallsStayLimited == Spec => []CallsAreLimited
<1>1. IInv => CallsAreLimited
  <2> SUFFICES ASSUME IInv PROVE CallsAreLimited
    OBVIOUS
  <2>1. PICK x \in Nat, y \in Nat :
          x = Cardinality(In(Calls, pc, H)) /\ y = Cardinality(In(Lookups, pc, K))
    BY Slots
  <2>2. slots = x + y
    BY <2>1, Slots DEF IInv, CallInv
  <2>3. slots \in Nat /\ slots <= Limit /\ Limit \in Nat
    BY CallsAssumption DEF IInv, CallInv, TypeOK
  <2>4. x <= Limit
    BY <2>2, <2>3
  <2> QED BY <2>1, <2>4 DEF CallsAreLimited, In, H
<1> QED BY <1>1, Invariant, PTL

\* official_history.go:389: a read whose client is still there never reports the
\* cancellation that the failure of one page caused in the others.
THEOREM CauseStays == Spec => []CauseIsKept
<1>1. IInv => CauseIsKept
  BY DEF IInv, CallInv, CauseInv, CauseIsKept
<1> QED BY <1>1, Invariant, PTL

------------------------------------------------------------------------------
(* The pages of a history.                                                   *)

LEMMA Division ==
    ASSUME NEW a \in Nat, NEW p \in Nat \ {0}
    PROVE  /\ a \div p \in Nat
           /\ \A q \in Nat : a \div p = q <=> (q * p <= a /\ a < (q + 1) * p)
OBVIOUS

\* What the assumption says of the bounds.
LEMMA Bounds ==
    /\ PerPage \in Nat \ {0} /\ MaxPages \in Nat /\ MaxPages > 1
    /\ MaxWeeks \in Nat /\ MaxWeeks <= MaxPages * PerPage
    /\ \A k \in Pages : k \in Nat /\ k >= 1 /\ k <= MaxPages /\ k - 1 \in Nat
BY CallsAssumption DEF Pages

\* Page k holds the weeks that are k - 1 to k pages away from the newest one.
LEMMA PageHolds ==
    ASSUME TypeOK, NEW k \in Pages
    PROVE  /\ \A w \in 1..latest :
                w \in Page(k) <=> ((k - 1) * PerPage <= latest - w /\ latest - w < k * PerPage)
           /\ Page(k) = {} => latest <= (k - 1) * PerPage
<1>1. k - 1 \in Nat /\ k \in Nat /\ PerPage \in Nat \ {0} /\ latest \in Nat
  BY Bounds DEF TypeOK
<1>2. ASSUME NEW w \in 1..latest
      PROVE  w \in Page(k) <=> ((k - 1) * PerPage <= latest - w /\ latest - w < k * PerPage)
  <2>1. latest - w \in Nat
    BY <1>1
  <2>2. (latest - w) \div PerPage = k - 1
          <=> ((k - 1) * PerPage <= latest - w /\ latest - w < ((k - 1) + 1) * PerPage)
    BY <1>1, <2>1, Division
  <2>3. (k - 1) + 1 = k
    BY <1>1
  <2> QED BY <2>2, <2>3 DEF Page
<1>3. ASSUME latest > (k - 1) * PerPage PROVE Page(k) # {}
  <2> DEFINE m == (k - 1) * PerPage
  <2>1. m \in Nat /\ k * PerPage = m + PerPage
    BY <1>1
  <2>2. m < latest
    BY <1>3
  <2>3. m <= m /\ m < k * PerPage
    BY <1>1, <2>1
  <2>4. (k - 1) * PerPage = m
    OBVIOUS
  <2> HIDE DEF m
  <2>5. latest - m \in 1..latest /\ latest - (latest - m) = m
    BY <1>1, <2>1, <2>2
  <2> QED BY <1>2, <2>3, <2>4, <2>5
<1>4. (k - 1) * PerPage \in Nat
  BY <1>1
<1> QED BY <1>1, <1>2, <1>3, <1>4

\* Every week is on a page, and no page is behind the last one.
LEMMA EveryWeekHasAPage ==
    ASSUME TypeOK, NEW w \in 1..latest
    PROVE  \E k \in Pages : k <= LastPage /\ w \in Page(k)
<1>1. /\ PerPage \in Nat \ {0} /\ latest \in Nat /\ latest - w \in Nat
      /\ MaxPages \in Nat /\ latest <= MaxPages * PerPage
  BY Bounds DEF TypeOK
<1> DEFINE q == (latest - w) \div PerPage
           k == q + 1
<1>2. q \in Nat /\ q * PerPage <= latest - w /\ latest - w < (q + 1) * PerPage
  BY <1>1, Division
<1>3. w \in Page(k)
  <2>1. k - 1 = q
    BY <1>2
  <2> QED BY <2>1 DEF Page
<1> HIDE DEF q
<1>4. k \in Pages
  <2>1. q * PerPage < MaxPages * PerPage
    BY <1>1, <1>2
  <2>2. q < MaxPages
    BY <1>1, <1>2, <2>1
  <2> QED BY <1>1, <1>2, <2>2 DEF Pages
<1>5. k <= LastPage
  <2> DEFINE n == LastPage
  <2>1. /\ latest + PerPage - 1 \in Nat
        /\ n = (latest + PerPage - 1) \div PerPage
    BY <1>1 DEF LastPage
  <2>2. n \in Nat /\ latest + PerPage - 1 < (n + 1) * PerPage
    BY <1>1, <2>1, Division
  <2> HIDE DEF n
  <2>3. q * PerPage + PerPage < (n + 1) * PerPage
    <3>1. q * PerPage \in Nat /\ (n + 1) * PerPage \in Nat
      BY <1>1, <1>2, <2>2
    <3> QED BY <1>1, <1>2, <2>2, <3>1
  <2>4. (q + 1) * PerPage < (n + 1) * PerPage
    BY <1>1, <1>2, <2>2, <2>3
  <2>5. q + 1 < n + 1
    BY <1>1, <1>2, <2>2, <2>4
  <2>6. q + 1 <= n
    BY <1>2, <2>2, <2>5
  <2> QED BY <2>6 DEF n
<1> QED BY <1>3, <1>4, <1>5

------------------------------------------------------------------------------
(* What a read has so far.                                                   *)

Whole(r) == 1..began[r] \subseteq Weeks(r)

\* The newest k pages of the history as it was when the read began.
Front(r, k) == {w \in 1..began[r] : latest - w < k * PerPage} \subseteq Weeks(r)

\* Weeks and the last page's number come only with the page.
Asked(r) ==
    \A k \in Pages :
        /\ pc[<<r, k>>] # "done" => got[r][k] = {}
        /\ pc[<<r, k>>] = "slot" => stage[r] = "parallel"
        /\ k = 1 /\ pc[<<r, k>>] # "done" => last[r] = 0
        /\ k = 1 /\ stage[r] \in {"serial", "parallel"} => pc[<<r, k>>] = "done"

\* Pages that are asked one after another leave no gap: a week that moves meanwhile
\* moves to a page that is still to come.
OneByOne(r) ==
    stage[r] \in {"first", "serial"} /\ cause[r] = "none" =>
        \A k \in Pages : pc[<<r, k>>] = "done" => Front(r, k) /\ (got[r][k] = {} => Whole(r))

\* As long as no week begins, every page that is done is GitHub's.
Exact(r) ==
    cause[r] = "none" /\ r \notin gone /\ latest = began[r] =>
        /\ last[r] \in {0, LastPage}
        /\ \A k \in Pages : pc[<<r, k>>] = "done" => got[r][k] = Page(k)

\* Nothing is saved before all pages are done.
Complete(r) ==
    /\ stage[r] = "serial" => last[r] = 0
    /\ stage[r] = "parallel" =>
          last[r] > 1 /\ \A k \in Pages : k <= last[r] => pc[<<r, k>>] # "none"
    /\ stage[r] \in {"save", "ok"} =>
          /\ cause[r] = "none"
          /\ last[r] = 0 => Whole(r)
          /\ last[r] # 0 => \A k \in Pages : k <= last[r] => pc[<<r, k>>] = "done"
    /\ stage[r] = "ok" => r \notin gone

ReadOK(r) ==
    /\ stage[r] # "idle" => began[r] <= latest
    /\ Asked(r) /\ OneByOne(r) /\ Exact(r) /\ Complete(r)

ReadInv == \A r \in Readers : ReadOK(r)

LEMMA ReadType ==
    ASSUME TypeOK, NEW r \in Readers
    PROVE  /\ latest \in Nat /\ began[r] \in Nat /\ last[r] \in Nat
           /\ stage[r] \in Stage /\ cause[r] \in Error \cup {"none"}
           /\ \A k \in Pages : got[r][k] \subseteq 1..MaxWeeks
BY Bounds DEF TypeOK

\* A read is as it was when nothing of it moves, though its client may go away.
LEMMA ReadRests ==
    ASSUME TypeOK, NEW r \in Readers, ReadOK(r), latest' = latest,
           stage'[r] = stage[r], last'[r] = last[r], got'[r] = got[r],
           cause'[r] = cause[r], began'[r] = began[r],
           r \in gone => r \in gone', r \in gone' => r \in gone \/ stage[r] # "ok",
           \A k \in Pages : pc'[<<r, k>>] = pc[<<r, k>>]
    PROVE  ReadOK(r)'
<1>1. Weeks(r)' = Weeks(r) /\ LastPage' = LastPage /\ \A k : Page(k)' = Page(k)
  BY DEF Weeks, LastPage, Page
<1>2. Whole(r)' <=> Whole(r)
  BY <1>1 DEF Whole
<1>3. \A k : Front(r, k)' <=> Front(r, k)
  BY <1>1 DEF Front
<1>4. Asked(r)'
  BY DEF ReadOK, Asked
<1>5. OneByOne(r)'
  BY <1>2, <1>3 DEF ReadOK, OneByOne
<1>6. Exact(r)'
  BY <1>1 DEF ReadOK, Exact
<1>7. Complete(r)'
  BY <1>2 DEF ReadOK, Complete
<1> QED BY <1>4, <1>5, <1>6, <1>7 DEF ReadOK

\* A week that begins pushes others out of the front, never into it.
LEMMA ReadGrows ==
    ASSUME TypeOK, NEW r \in Readers, ReadOK(r), latest' = latest + 1,
           UNCHANGED <<pc, stage, last, got, cause, began, gone>>,
           stage[r] = "idle" => \A k \in Pages : pc[<<r, k>>] = "none"
    PROVE  ReadOK(r)'
<1>1. Weeks(r)' = Weeks(r) /\ (Whole(r)' <=> Whole(r))
  BY DEF Weeks, Whole
<1>2. ASSUME NEW k \in Pages, Front(r, k) PROVE Front(r, k)'
  <2>1. /\ k * PerPage \in Nat /\ latest \in Nat /\ began[r] \in Nat
        /\ latest' = latest + 1 /\ began'[r] = began[r]
    BY Bounds, ReadType DEF Pages
  <2>2. \A w \in 1..began[r] : latest' - w < k * PerPage => latest - w < k * PerPage
    BY <2>1
  <2> QED BY <1>1, <1>2, <2>1, <2>2 DEF Front
<1>3. Asked(r)'
  BY DEF ReadOK, Asked
<1>4. OneByOne(r)'
  BY <1>1, <1>2 DEF ReadOK, OneByOne
<1>5. Exact(r)'
  <2>1. CASE stage[r] = "idle"
    <3>1. 1 \in Pages
      BY Bounds DEF Pages
    <3>2. last[r] = 0
      BY <2>1, <3>1 DEF ReadOK, Asked
    <3>3. \A k \in Pages : pc[<<r, k>>] # "done"
      BY <2>1
    <3> QED BY <3>2, <3>3 DEF Exact
  <2>2. CASE stage[r] # "idle"
    BY <2>2, ReadType DEF ReadOK, Exact
  <2> QED BY <2>1, <2>2
<1>6. Complete(r)'
  BY <1>1 DEF ReadOK, Complete
<1>7. stage[r] # "idle" => began[r] <= latest + 1
  BY ReadType DEF ReadOK
<1> QED BY <1>3, <1>4, <1>5, <1>6, <1>7 DEF ReadOK

\* A page that goes on brings nothing yet.
LEMMA PageGoesOn ==
    ASSUME TypeOK, NEW r \in Readers, ReadOK(r), NEW k \in Pages,
           pc[<<r, k>>] \notin {"none", "done"}, pc'[<<r, k>>] \notin {"none", "done", "slot"},
           \A j \in Pages \ {k} : pc'[<<r, j>>] = pc[<<r, j>>],
           UNCHANGED <<latest, stage, last, got, cause, began, gone>>
    PROVE  ReadOK(r)'
<1>1. Weeks(r)' = Weeks(r) /\ LastPage' = LastPage /\ \A j : Page(j)' = Page(j)
  BY DEF Weeks, LastPage, Page
<1>2. (Whole(r)' <=> Whole(r)) /\ \A j : Front(r, j)' <=> Front(r, j)
  BY <1>1 DEF Whole, Front
<1>3. \A j \in Pages : /\ pc'[<<r, j>>] = "done" <=> pc[<<r, j>>] = "done"
                       /\ pc'[<<r, j>>] = "none" <=> pc[<<r, j>>] = "none"
                       /\ pc'[<<r, j>>] = "slot" => pc[<<r, j>>] = "slot"
  OBVIOUS
<1>4. Asked(r)'
  BY <1>3 DEF ReadOK, Asked
<1>5. OneByOne(r)'
  BY <1>2, <1>3 DEF ReadOK, OneByOne
<1>6. Exact(r)'
  BY <1>1, <1>3 DEF ReadOK, Exact
<1>7. Complete(r)'
  BY <1>2, <1>3 DEF ReadOK, Complete
<1> QED BY <1>4, <1>5, <1>6, <1>7 DEF ReadOK

\* A page that comes back without weeks: the read has failed or its client is gone.
LEMMA PageComesEmpty ==
    ASSUME TypeOK, NEW r \in Readers, ReadOK(r), NEW k \in Pages,
           stage[r] \in {"first", "serial", "parallel"},
           pc[<<r, k>>] \notin {"none", "done"}, pc'[<<r, k>>] = "done",
           \A j \in Pages \ {k} : pc'[<<r, j>>] = pc[<<r, j>>],
           \/ cause'[r] # "none"
           \/ stage[r] = "parallel" /\ r \in gone /\ cause'[r] = cause[r],
           UNCHANGED <<latest, stage, last, got, began, gone>>
    PROVE  ReadOK(r)'
<1>1. Asked(r)'
  BY DEF ReadOK, Asked
<1>2. OneByOne(r)' /\ Exact(r)'
  BY DEF OneByOne, Exact
<1>3. Complete(r)'
  BY DEF ReadOK, Complete
<1> QED BY <1>1, <1>2, <1>3 DEF ReadOK

\* A page that GitHub answers closes the gap to the page before it.
LEMMA PageComes ==
    ASSUME TypeOK, PagesInv, NEW r \in Readers, ReadOK(r), NEW k \in Pages, PageAnswered(r, k)
    PROVE  ReadOK(r)'
<1>1. /\ stage[r] \in {"first", "serial", "parallel"}
      /\ stage[r] = "first" => k = 1
      /\ stage[r] = "serial" => \A j \in Pages : j < k => pc[<<r, j>>] = "done"
      /\ k = 1 => stage[r] = "first"
  BY DEF PagesInv, Settled, TypeOK, Stage, PageAnswered, ReadOK, Asked
<1>2. /\ got'[r][k] = Page(k) /\ got[r][k] = {}
      /\ \A j \in Pages \ {k} : got'[r][j] = got[r][j]
      /\ pc'[<<r, k>>] = "done" /\ \A j \in Pages \ {k} : pc'[<<r, j>>] = pc[<<r, j>>]
      /\ UNCHANGED <<latest, stage, cause, began, gone>>
  BY PagesAreCalls DEF PageAnswered, Goes, TypeOK, ReadOK, Asked
<1>3. /\ k = 1 => last'[r] \in {0, LastPage}
      /\ k # 1 => last'[r] = last[r]
  BY DEF PageAnswered, TypeOK
<1>4. Weeks(r) \subseteq Weeks(r)' /\ Page(k) \subseteq Weeks(r)'
  BY <1>2 DEF Weeks
<1>5. LastPage' = LastPage /\ \A j : Page(j)' = Page(j)
  BY <1>2 DEF LastPage, Page
<1>6. Whole(r) => Whole(r)'
  BY <1>2, <1>4 DEF Whole
<1>7. \A j : Front(r, j) => Front(r, j)'
  BY <1>2, <1>4 DEF Front
<1>8. Asked(r)'
  BY <1>1, <1>2, <1>3 DEF ReadOK, Asked
<1>9. OneByOne(r)'
  <2> SUFFICES ASSUME stage[r] \in {"first", "serial"}, cause[r] = "none"
               PROVE  Front(r, k)' /\ (Page(k) = {} => Whole(r)')
    BY <1>2, <1>6, <1>7 DEF ReadOK, OneByOne
  <2>1. /\ k \in Nat /\ k >= 1 /\ k - 1 \in Nat /\ PerPage \in Nat \ {0}
        /\ MaxPages \in Nat /\ k <= MaxPages
        /\ latest \in Nat /\ began[r] \in Nat /\ began[r] <= latest
    BY <1>1, Bounds, ReadType DEF ReadOK, Pages
  <2>2. \A w \in 1..began[r] : latest - w < (k - 1) * PerPage => w \in Weeks(r)
    <3>1. CASE k = 1
      BY <2>1, <3>1
    <3>2. CASE k # 1
      <4>1. k - 1 \in Pages /\ k - 1 < k
        BY <2>1, <3>2 DEF Pages
      <4>2. Front(r, k - 1)
        BY <1>1, <3>2, <4>1 DEF ReadOK, OneByOne
      <4> QED BY <4>2 DEF Front
    <3> QED BY <3>1, <3>2
  <2>3. Front(r, k)'
    <3> SUFFICES ASSUME NEW w \in 1..began[r], latest - w < k * PerPage
                 PROVE  w \in Weeks(r)'
      BY <1>2 DEF Front
    <3>1. w \in 1..latest /\ latest - w \in Nat /\ (k - 1) * PerPage \in Nat
      BY <2>1
    <3>2. CASE latest - w < (k - 1) * PerPage
      BY <1>4, <2>2, <3>2
    <3>3. CASE (k - 1) * PerPage <= latest - w
      BY <1>4, <3>1, <3>3, PageHolds
    <3> QED BY <3>1, <3>2, <3>3
  <2>4. ASSUME Page(k) = {} PROVE Whole(r)'
    <3> SUFFICES ASSUME NEW w \in 1..began[r] PROVE w \in Weeks(r)'
      BY <1>2 DEF Whole
    <3>1. latest <= (k - 1) * PerPage /\ (k - 1) * PerPage \in Nat
      BY <2>1, <2>4, PageHolds
    <3>2. latest - w < (k - 1) * PerPage
      BY <2>1, <3>1
    <3> QED BY <1>4, <2>2, <3>2
  <2> QED BY <2>3, <2>4
<1>10. Exact(r)'
  BY <1>1, <1>2, <1>3, <1>5 DEF ReadOK, Exact
<1>11. Complete(r)'
  BY <1>1, <1>2, <1>3 DEF ReadOK, Complete
<1> QED BY <1>2, <1>8, <1>9, <1>10, <1>11 DEF ReadOK

LEMMA ReadPages ==
    ASSUME TypeOK, PagesInv, NEW r \in Readers, ReadOK(r), NEW k \in Pages, PageStep(r, k)
    PROVE  ReadOK(r)'
<1>1. \A v : pc' = [pc EXCEPT ![<<r, k>>] = v] =>
          pc'[<<r, k>>] = v /\ \A j \in Pages \ {k} : pc'[<<r, j>>] = pc[<<r, j>>]
  BY PagesAreCalls DEF TypeOK
<1>2. pc[<<r, k>>] \notin {"none", "done"} => stage[r] \in {"first", "serial", "parallel"}
  BY DEF PagesInv, Settled, TypeOK, Stage
<1>3. CASE TakeTurn(r, k)
  BY <1>1, <1>3, PageGoesOn DEF TakeTurn, Goes, readVars
<1>4. CASE Skip(r, k)
  <2>1. stage[r] = "parallel"
    BY <1>4 DEF Skip, ReadOK, Asked
  <2>2. CASE cause[r] # "none"
    BY <1>1, <1>2, <1>4, <2>2, PageComesEmpty DEF Skip, Goes, readVars
  <2>3. CASE cause[r] = "none"
    BY <1>1, <1>2, <1>4, <2>1, <2>3, PageComesEmpty DEF Skip, Cancelled, Goes, readVars
  <2> QED BY <2>2, <2>3
<1>5. ASSUME NEW e \in Error, Fail(r, k, e), pc[<<r, k>>] \notin {"none", "done"}
      PROVE  ReadOK(r)'
  <2>1. cause'[r] # "none"
    BY <1>5 DEF Fail, TypeOK, Error
  <2> QED BY <1>1, <1>2, <1>5, <2>1, PageComesEmpty DEF Fail, Goes
<1>6. CASE PageRefused(r, k) \/ PageGivesUp(r, k) \/ PageFails(r, k)
  BY <1>5, <1>6 DEF PageRefused, PageGivesUp, PageFails, Error
<1>7. CASE Acquire(<<r, k>>)
  <2>1. /\ pc[<<r, k>>] \notin {"none", "done"}
        /\ Granted[pc[<<r, k>>]] \notin {"none", "done", "slot"}
    BY <1>7 DEF Acquire, Granted
  <2> QED BY <1>1, <1>7, <2>1, PageGoesOn DEF Acquire, Goes, readVars
<1>8. CASE Queue(<<r, k>>)
  <2>1. /\ pc[<<r, k>>] \notin {"none", "done"}
        /\ Queueing[pc[<<r, k>>]] \notin {"none", "done", "slot"}
    BY <1>8 DEF Queue, Queueing
  <2> QED BY <1>1, <1>8, <2>1, PageGoesOn DEF Queue, Goes, readVars
<1>9. CASE PageAnswered(r, k)
  BY <1>9, PageComes
<1> QED BY <1>3, <1>4, <1>6, <1>7, <1>8, <1>9 DEF PageStep

\* Before a read begins and after it has ended there is nothing to keep.
LEMMA ReadStartsOver ==
    ASSUME TypeOK, PagesInv, NEW r \in Readers, ReadOK(r), Begin(r) \/ End(r)
    PROVE  ReadOK(r)'
<1>1. 1 \in Pages
  BY Bounds DEF Pages
<1>2. /\ \A k \in Pages : pc'[<<r, k>>] \in {"none", "acquire"} /\ got'[r][k] = {}
      /\ last'[r] = 0
  <2>1. CASE Begin(r)
    BY <1>1, <2>1, PagesAreCalls DEF Begin, Goes, TypeOK, PagesInv, ReadOK, Asked
  <2>2. CASE End(r)
    BY <2>2, PagesAreCalls DEF End, TypeOK
  <2> QED BY <2>1, <2>2
<1>3. /\ stage'[r] \in {"idle", "first"} /\ latest' = latest
      /\ stage'[r] = "first" => began'[r] = latest
  BY DEF Begin, End, To, TypeOK
<1>4. Asked(r)' /\ OneByOne(r)' /\ Exact(r)' /\ Complete(r)'
  BY <1>2, <1>3 DEF Asked, OneByOne, Exact, Complete
<1>5. stage'[r] # "idle" => began'[r] <= latest'
  BY <1>3, ReadType
<1> QED BY <1>4, <1>5 DEF ReadOK

\* A read that fails keeps no promise but that it is over.
LEMMA ReadFails ==
    ASSUME TypeOK, NEW r \in Readers, ReadOK(r), stage[r] # "idle", stage'[r] = "failed",
           \A k \in Pages : pc[<<r, k>>] # "slot", cause'[r] = cause[r] \/ cause'[r] # "none",
           UNCHANGED <<latest, pc, last, got, began, gone>>
    PROVE  ReadOK(r)'
<1>1. LastPage' = LastPage /\ \A k : Page(k)' = Page(k)
  BY DEF LastPage, Page
<1>2. Asked(r)' /\ OneByOne(r)' /\ Complete(r)'
  BY DEF ReadOK, Asked, OneByOne, Complete
<1>3. Exact(r)'
  BY <1>1 DEF ReadOK, Exact
<1> QED BY <1>2, <1>3 DEF ReadOK

\* A read is saved when its pages are there.
LEMMA ReadIsSaved ==
    ASSUME TypeOK, NEW r \in Readers, ReadOK(r), stage[r] # "idle", cause[r] = "none",
           \A k \in Pages : pc[<<r, k>>] # "slot",
           stage'[r] = "save" \/ (stage'[r] = "ok" /\ r \notin gone),
           last[r] = 0 => Whole(r),
           last[r] # 0 => \A k \in Pages : k <= last[r] => pc[<<r, k>>] = "done",
           UNCHANGED <<latest, pc, last, got, cause, began, gone>>
    PROVE  ReadOK(r)'
<1>1. /\ LastPage' = LastPage /\ \A k : Page(k)' = Page(k)
      /\ Whole(r)' <=> Whole(r)
  BY DEF LastPage, Page, Whole, Weeks
<1>2. Asked(r)' /\ OneByOne(r)'
  BY DEF ReadOK, Asked, OneByOne
<1>3. Exact(r)' /\ Complete(r)'
  BY <1>1 DEF ReadOK, Exact, Complete
<1> QED BY <1>2, <1>3 DEF ReadOK

LEMMA ReadJoins ==
    ASSUME TypeOK, NEW r \in Readers, ReadOK(r), Join(r)
    PROVE  ReadOK(r)'
<1>1. /\ stage[r] = "parallel"
      /\ stage'[r] = IF cause[r] = "none" THEN "save" ELSE "failed"
      /\ \A k \in Pages : pc[<<r, k>>] \in {"none", "done"}
      /\ UNCHANGED <<latest, pc, last, got, cause, began, gone>>
  BY DEF Join, To, TypeOK
<1>2. last[r] # 0 /\ \A k \in Pages : k <= last[r] => pc[<<r, k>>] = "done"
  BY <1>1, ReadType DEF ReadOK, Complete
<1> QED BY <1>1, <1>2, ReadFails, ReadIsSaved

LEMMA ReadSaves ==
    ASSUME TypeOK, PagesInv, NEW r \in Readers, ReadOK(r), Save(r)
    PROVE  ReadOK(r)'
<1>1. /\ stage[r] = "save" /\ \A k \in Pages : pc[<<r, k>>] # "slot"
      /\ UNCHANGED <<latest, pc, last, got, began, gone>>
  BY DEF Save, PagesInv, Settled
<1>2. CASE r \notin gone /\ To(r, "ok") /\ UNCHANGED cause
  <2>1. stage'[r] = "ok" /\ cause' = cause
    BY <1>2 DEF To, TypeOK
  <2> QED BY <1>1, <1>2, <2>1, ReadIsSaved DEF ReadOK, Complete
<1>3. CASE To(r, "failed") /\ \E e \in {"error", "canceled"} : cause' = [cause EXCEPT ![r] = e]
  <2>1. stage'[r] = "failed" /\ cause'[r] # "none"
    BY <1>3 DEF To, TypeOK
  <2> QED BY <1>1, <2>1, ReadFails
<1> QED BY <1>2, <1>3 DEF Save

\* The next page is asked for while all that is done stays.
LEMMA ReadAsks ==
    ASSUME TypeOK, NEW r \in Readers, ReadOK(r), stage[r] \in {"first", "serial"},
           pc[<<r, 1>>] = "done", stage'[r] \in {"serial", "parallel"},
           \A k \in Pages : \/ pc'[<<r, k>>] = pc[<<r, k>>]
                          \/ /\ pc[<<r, k>>] = "none"
                             /\ pc'[<<r, k>>] = IF stage'[r] = "parallel" THEN "slot" ELSE "acquire",
           stage'[r] = "serial" => last[r] = 0,
           stage'[r] = "parallel" =>
              last[r] > 1 /\ \A k \in Pages : k <= last[r] => pc'[<<r, k>>] # "none",
           UNCHANGED <<latest, last, got, cause, began, gone>>
    PROVE  ReadOK(r)'
<1>1. /\ LastPage' = LastPage /\ \A k : Page(k)' = Page(k)
      /\ Whole(r)' <=> Whole(r)
      /\ \A k : Front(r, k)' <=> Front(r, k)
  BY DEF LastPage, Page, Whole, Front, Weeks
<1>2. \A k \in Pages : pc'[<<r, k>>] = "done" <=> pc[<<r, k>>] = "done"
  OBVIOUS
<1>3. Asked(r)'
  BY <1>2 DEF ReadOK, Asked
<1>4. OneByOne(r)'
  <2>1. cause[r] = "none" =>
          \A k \in Pages : pc[<<r, k>>] = "done" => Front(r, k) /\ (got[r][k] = {} => Whole(r))
    BY DEF ReadOK, OneByOne
  <2>2. cause'[r] = cause[r] /\ \A k \in Pages : got'[r][k] = got[r][k]
    OBVIOUS
  <2> QED BY <1>1, <1>2, <2>1, <2>2 DEF OneByOne
<1>5. Exact(r)' /\ Complete(r)'
  BY <1>1, <1>2 DEF ReadOK, Exact, Complete
<1> QED BY <1>3, <1>4, <1>5 DEF ReadOK

LEMMA ReadGoesOn ==
    ASSUME TypeOK, PagesInv, NEW r \in Readers, ReadOK(r), AfterFirst(r)
    PROVE  ReadOK(r)'
<1>1. 1 \in Pages /\ 2 \in Pages
  BY CallsAssumption DEF Pages
<1>2. /\ stage[r] = "first" /\ pc[<<r, 1>>] = "done" /\ latest' = latest
      /\ \A k \in Pages : k # 1 => pc[<<r, k>>] = "none"
  BY DEF AfterFirst, Return, PagesInv
<1>3. CASE cause[r] # "none" /\ Return(r)
  <2>1. stage'[r] = "failed"
    BY <1>3 DEF Return, To, TypeOK
  <2> QED BY <1>2, <1>3, <2>1, ReadFails DEF Return
<1>4. CASE cause' = [cause EXCEPT ![r] = "notFound"] /\ To(r, "failed")
           /\ UNCHANGED <<latest, slots, pc, last, got, began, gone>>
  <2>1. stage'[r] = "failed" /\ cause'[r] # "none"
    BY <1>4 DEF To, TypeOK
  <2> QED BY <1>2, <1>4, <2>1, ReadFails
<1>5. ASSUME cause[r] = "none", UNCHANGED <<latest, slots, last, got, cause, began, gone>>
      PROVE  /\ last[r] = 0 /\ To(r, "serial") /\ Goes(<<r, 2>>, "acquire") => ReadOK(r)'
             /\ last[r] = 1 /\ To(r, "save") /\ UNCHANGED pc => ReadOK(r)'
             /\ last[r] > 1 /\ To(r, "parallel")
                /\ pc' = [c \in Calls |-> IF c \in {r} \X (2..last[r]) THEN "slot" ELSE pc[c]]
                => ReadOK(r)'
  <2>1. ASSUME last[r] = 0, To(r, "serial"), Goes(<<r, 2>>, "acquire") PROVE ReadOK(r)'
    <3>1. stage'[r] = "serial"
      BY <2>1 DEF To, TypeOK
    <3>2. \A k \in Pages : pc'[<<r, k>>] = IF k = 2 THEN "acquire" ELSE pc[<<r, k>>]
      BY <2>1, PagesAreCalls DEF Goes, TypeOK
    <3> QED BY <1>2, <1>5, <2>1, <3>1, <3>2, ReadAsks
  <2>2. ASSUME last[r] = 1, To(r, "save"), UNCHANGED pc PROVE ReadOK(r)'
    <3>1. stage'[r] = "save"
      BY <2>2 DEF To, TypeOK
    <3>2. \A k \in Pages : k <= last[r] => pc[<<r, k>>] = "done"
      BY <1>2, <2>2 DEF Pages
    <3> QED BY <1>2, <1>5, <2>2, <3>1, <3>2, ReadIsSaved
  <2>3. ASSUME last[r] > 1, To(r, "parallel"),
               pc' = [c \in Calls |-> IF c \in {r} \X (2..last[r]) THEN "slot" ELSE pc[c]]
        PROVE  ReadOK(r)'
    <3>1. stage'[r] = "parallel"
      BY <2>3 DEF To, TypeOK
    <3>2. \A k \in Pages : pc'[<<r, k>>] = IF k \in 2..last[r] THEN "slot" ELSE pc[<<r, k>>]
      BY <2>3, PagesAreCalls
    <3>3. \A k \in Pages : k # 1 /\ k <= last[r] => k \in 2..last[r]
      BY ReadType DEF Pages
    <3>4. 1 \notin 2..last[r]
      OBVIOUS
    <3>5. \A k \in Pages : k <= last[r] => pc'[<<r, k>>] # "none"
      BY <1>2, <3>2, <3>3
    <3>6. \A k \in Pages : \/ pc'[<<r, k>>] = pc[<<r, k>>]
                           \/ pc[<<r, k>>] = "none" /\ pc'[<<r, k>>] = "slot"
      BY <1>2, <3>2, <3>4
    <3> QED BY <1>2, <1>5, <2>3, <3>1, <3>5, <3>6, ReadAsks
  <2> QED BY <2>1, <2>2, <2>3
<1> QED BY <1>3, <1>4, <1>5 DEF AfterFirst

\* The last page of all holds the oldest week GitHub can have.
LEMMA ReadTurnsPage ==
    ASSUME TypeOK, PagesInv, NEW r \in Readers, ReadOK(r), AfterNext(r)
    PROVE  ReadOK(r)'
<1>1. /\ stage[r] = "serial" /\ last[r] = 0 /\ \A k \in Pages : pc[<<r, k>>] # "slot"
  BY DEF AfterNext, ReadOK, Complete, Asked
<1>2. 1 \in Pages
  BY Bounds DEF Pages
<1>3. PICK k \in Pages :
        /\ pc[<<r, k>>] = "done"
        /\ \A j \in Pages : j > k => pc[<<r, j>>] = "none"
        /\ \/ cause[r] # "none" /\ Return(r)
           \/ /\ cause[r] = "none"
              /\ IF got[r][k] = {} \/ k = MaxPages
                 THEN To(r, "save") /\ UNCHANGED pc
                 ELSE UNCHANGED stage /\ Goes(<<r, k + 1>>, "acquire")
              /\ UNCHANGED <<latest, slots, last, got, cause, began, gone>>
  BY DEF AfterNext
<1>4. CASE Return(r)
  <2>1. stage'[r] = "failed"
    BY <1>4 DEF Return, To, TypeOK
  <2> QED BY <1>1, <1>4, <2>1, ReadFails DEF Return
<1>5. ASSUME cause[r] = "none", UNCHANGED <<latest, slots, last, got, cause, began, gone>>,
             got[r][k] = {} \/ k = MaxPages, To(r, "save"), UNCHANGED pc
      PROVE  ReadOK(r)'
  <2>1. stage'[r] = "save"
    BY <1>5 DEF To, TypeOK
  <2>2. Front(r, k) /\ (got[r][k] = {} => Whole(r))
    BY <1>1, <1>3, <1>5 DEF ReadOK, OneByOne
  <2>3. ASSUME k = MaxPages PROVE Whole(r)
    <3>1. /\ latest \in Nat /\ began[r] \in Nat /\ began[r] <= latest
          /\ k * PerPage \in Nat /\ latest <= k * PerPage
      BY <1>1, <2>3, Bounds, ReadType DEF ReadOK, TypeOK
    <3>2. \A w \in 1..began[r] : latest - w < k * PerPage
      BY <3>1
    <3> QED BY <2>2, <3>2 DEF Front, Whole
  <2> QED BY <1>1, <1>5, <2>1, <2>2, <2>3, ReadIsSaved
<1>6. ASSUME cause[r] = "none", UNCHANGED <<latest, slots, last, got, cause, began, gone>>,
             k # MaxPages, UNCHANGED stage, Goes(<<r, k + 1>>, "acquire")
      PROVE  ReadOK(r)'
  <2>1. k + 1 \in Pages /\ k + 1 > k
    BY <1>6, Bounds DEF Pages
  <2>2. pc[<<r, k + 1>>] = "none"
    BY <1>3, <2>1
  <2>3. \A j \in Pages : pc'[<<r, j>>] = IF j = k + 1 THEN "acquire" ELSE pc[<<r, j>>]
    BY <1>6, <2>1, PagesAreCalls DEF Goes, TypeOK
  <2>4. pc[<<r, 1>>] = "done"
    BY <1>1, <1>2 DEF ReadOK, Asked
  <2> QED BY <1>1, <1>6, <2>2, <2>3, <2>4, ReadAsks
<1> QED BY <1>3, <1>4, <1>5, <1>6

\* A read is not disturbed by the others, by the lookups or by a client that leaves.
LEMMA OthersRest ==
    ASSUME TypeOK, PagesInv, NEW q \in Readers, ReadOK(q), NEW r \in Readers, r # q,
           Begin(r) \/ ReadStep(r) \/ \E k \in Pages : PageStep(r, k)
    PROVE  ReadOK(q)'
<1>1. \A k \in Pages : <<q, k>> \in Calls /\ \A j : <<q, k>> # <<r, j>>
  BY PagesAreCalls
<1>2. CASE Begin(r)
  BY <1>1, <1>2, ReadRests DEF Begin, To, Goes, TypeOK
<1>3. CASE AfterFirst(r)
  BY <1>1, <1>3, ReadRests DEF AfterFirst, Return, To, Goes, TypeOK
<1>4. CASE AfterNext(r)
  BY <1>1, <1>4, ReadRests DEF AfterNext, Return, To, Goes, TypeOK
<1>5. CASE Join(r)
  BY <1>1, <1>5, ReadRests DEF Join, To, TypeOK
<1>6. CASE Save(r)
  BY <1>1, <1>6, ReadRests DEF Save, To, TypeOK
<1>7. CASE End(r)
  BY <1>1, <1>7, ReadRests DEF End, To, TypeOK
<1>8. ASSUME NEW k \in Pages, PageStep(r, k) PROVE ReadOK(q)'
  <2>1. \E v : pc' = [pc EXCEPT ![<<r, k>>] = v]
    BY <1>8 DEF PageStep, TakeTurn, Skip, PageRefused, Acquire, Queue, PageGivesUp, PageFails,
                PageAnswered, Fail, Goes
  <2>2. \A j \in Pages : pc'[<<q, j>>] = pc[<<q, j>>]
    BY <1>1, <2>1 DEF TypeOK
  <2>3. /\ cause'[q] = cause[q] /\ got'[q] = got[q] /\ last'[q] = last[q]
        /\ UNCHANGED <<latest, stage, began, gone>>
    BY <1>8 DEF PageStep, TakeTurn, Skip, PageRefused, Acquire, Queue, PageGivesUp, PageFails,
                PageAnswered, Fail, TypeOK, readVars
  <2> QED BY <2>2, <2>3, ReadRests
<1> QED BY <1>2, <1>3, <1>4, <1>5, <1>6, <1>7, <1>8 DEF ReadStep

LEMMA ReadInductive == IInv /\ ReadInv /\ [Next]_vars => ReadInv'
<1> SUFFICES ASSUME IInv, ReadInv, [Next]_vars, NEW q \in Readers PROVE ReadOK(q)'
  BY DEF ReadInv
<1>1. TypeOK /\ PagesInv /\ ReadOK(q)
  BY DEF IInv, CallInv, ReadInv
<1>2. ASSUME NEW r \in Readers, Begin(r) PROVE ReadOK(q)'
  BY <1>1, <1>2, ReadStartsOver, OthersRest
<1>3. ASSUME NEW r \in Readers, ReadStep(r) PROVE ReadOK(q)'
  BY <1>1, <1>3, ReadGoesOn, ReadTurnsPage, ReadJoins, ReadSaves, ReadStartsOver, OthersRest
     DEF ReadStep
<1>4. ASSUME NEW r \in Readers, Disconnect(r) PROVE ReadOK(q)'
  BY <1>1, <1>4, ReadRests DEF Disconnect, readVars
<1>5. ASSUME NEW r \in Readers, NEW k \in Pages, PageStep(r, k) PROVE ReadOK(q)'
  BY <1>1, <1>5, ReadPages, OthersRest
<1>6. ASSUME NEW l \in Lookups, Look(l) \/ LookupStep(l) PROVE ReadOK(q)'
  <2>1. \E v : pc' = [pc EXCEPT ![l] = v]
    BY <1>6 DEF Look, LookupStep, Acquire, Queue, LookupGivesUp, MetadataAnswered,
                AvatarGivesUp, AvatarAnswered, Release, Goes
  <2>2. \A k \in Pages : pc'[<<q, k>>] = pc[<<q, k>>]
    BY <1>1, <2>1, PagesAreCalls DEF TypeOK
  <2>3. UNCHANGED <<latest, readVars, gone>>
    BY <1>6 DEF Look, LookupStep, Acquire, Queue, LookupGivesUp, MetadataAnswered,
                AvatarGivesUp, AvatarAnswered, Release
  <2> QED BY <1>1, <2>2, <2>3, ReadRests DEF readVars
<1>7. CASE Grow
  BY <1>1, <1>7, ReadGrows DEF Grow, readVars, PagesInv
<1>8. CASE UNCHANGED vars
  BY <1>1, <1>8, ReadRests DEF vars, readVars
<1> QED BY <1>2, <1>3, <1>4, <1>5, <1>6, <1>7, <1>8 DEF Next

LEMMA ReadInvariant == Spec => [](IInv /\ ReadInv)
<1>1. Init => IInv /\ ReadInv
  <2>1. Init => ReadInv
    BY PagesAreCalls DEF Init, ReadInv, ReadOK, Asked, OneByOne, Exact, Complete
  <2> QED BY <2>1, InitInv, InitPages DEF IInv
<1>2. (IInv /\ ReadInv) /\ [Next]_vars => (IInv /\ ReadInv)'
  BY Inductive, ReadInductive
<1> QED BY <1>1, <1>2, PTL DEF Spec

\* official_history.go:361: for any number of pages and weeks, a history that was
\* saved has all of its weeks when its pages were asked one after the other, and
\* otherwise when no week began while they were fetched.
THEOREM SavedHistoriesAreWhole == Spec => []SavedIsWhole
<1>1. ASSUME IInv, ReadInv PROVE SavedIsWhole
  <2> SUFFICES ASSUME NEW r \in Readers, stage[r] = "ok", last[r] = 0 \/ latest = began[r],
                      NEW w \in 1..began[r]
               PROVE  w \in Weeks(r)
    BY DEF SavedIsWhole
  <2>1. TypeOK /\ ReadOK(r)
    BY <1>1 DEF IInv, CallInv, ReadInv
  <2>2. CASE last[r] = 0
    BY <2>1, <2>2 DEF ReadOK, Complete, Whole
  <2>3. CASE last[r] # 0
    <3>1. PICK k \in Pages : k <= LastPage /\ w \in Page(k)
      BY <2>1, <2>3, EveryWeekHasAPage
    <3>2. last[r] = LastPage
      BY <2>1, <2>3 DEF ReadOK, Complete, Exact
    <3>3. pc[<<r, k>>] = "done"
      BY <2>1, <2>3, <3>1, <3>2 DEF ReadOK, Complete
    <3>4. got[r][k] = Page(k)
      BY <2>1, <2>3, <3>3 DEF ReadOK, Complete, Exact
    <3> QED BY <3>1, <3>4 DEF Weeks
  <2> QED BY <2>2, <2>3
<1> QED BY <1>1, ReadInvariant, PTL

===============================================================================
