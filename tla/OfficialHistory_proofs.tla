------------------------ MODULE OfficialHistory_proofs ------------------------
(* Theorems about OfficialHistory, for every value of its constants.          *)
EXTENDS OfficialHistory, TLAPS

\* What the assumption says of each constant.
LEMMA Constants ==
    /\ MemTTL \in Nat /\ MemTTL > 0
    /\ DbTTL \in Nat /\ DbTTL > 0
    /\ FullAfter \in Nat /\ FullAfter > 0
    /\ BackoffBase \in Nat /\ BackoffBase > 0
    /\ BackoffMax \in Nat /\ BackoffMax > 0
    /\ Failures \subseteq Status
BY ConstantsAssumption DEF FailureStatus, Status

\* A backoff window is a positive length.
LEMMA WindowType == \A n \in Nat : Window(n) \in Nat /\ Window(n) > 0
BY Constants DEF Window

LEMMA FailureCountType == TypeOK => FailureCount \in Nat \ {0}
<1>1. SUFFICES ASSUME TypeOK, backoff # {}
               PROVE  (CHOOSE b \in backoff : TRUE).failures \in Nat \ {0}
      BY DEF FailureCount
<1>2. (CHOOSE b \in backoff : TRUE) \in backoff
      BY <1>1
<1>3. QED
      BY <1>1, <1>2 DEF TypeOK

\* The answers a request can be given are answers.
LEMMA AnswerTypes ==
    /\ NoAnswer \in Answer
    /\ \A s \in Status : Refused(s) \in Answer
    /\ \A v \in Value : Fresh(v) \in Answer /\ Stale(v) \in Answer
    /\ NoLocal \in Local
BY DEF NoAnswer, Answer, Status, Refused, Fresh, Stale, NoLocal, Local

\* Returning an answer keeps the three functions it changes well typed.
LEMMA ReturnType ==
    ASSUME TypeOK, NEW c \in Clients, NEW a \in Answer, Return(c, a)
    PROVE  /\ answer' \in [Clients -> Answer]
           /\ local' \in [Clients -> Local]
           /\ pc' \in [Clients -> PC]
BY AnswerTypes DEF TypeOK, Return, PC

LEMMA LocalType ==
    ASSUME TypeOK, NEW c \in Clients
    PROVE  /\ local[c] \in Local
           /\ local[c].now \in Nat
           /\ local[c].recent \in Nat
           /\ local[c].cached \subseteq Value
BY DEF TypeOK, Local

LEMMA FailType ==
    ASSUME TypeOK, NEW c \in Clients, NEW s \in Status, Fail(c, s), row' \in SUBSET Value
    PROVE  TypeOK'
<1> DEFINE until == local[c].now + Window(FailureCount)
<1>1. until \in Nat /\ FailureCount \in Nat \ {0}
      <2>1. FailureCount \in Nat \ {0}
            BY FailureCountType
      <2>2. Window(FailureCount) \in Nat
            BY <2>1, WindowType
      <2>3. QED
            BY <2>1, <2>2, LocalType
<1>2. backoff' = {[failures |-> FailureCount, until |-> until]}
      BY DEF Fail
<1>3. backoff' \in SUBSET [failures : Nat \ {0}, until : Nat]
      <2> HIDE DEF until
      <2> QED BY <1>1, <1>2
<1>4. /\ memory' \in SUBSET Entry
      /\ answer' \in [Clients -> Answer]
      /\ local' \in [Clients -> Local]
      /\ pc' \in [Clients -> PC]
      <2>1. CASE \E v \in local[c].cached :
                   memory' = Remember(Stale(v), until) /\ Return(c, Stale(v))
            <3>1. PICK v \in local[c].cached :
                      memory' = Remember(Stale(v), until) /\ Return(c, Stale(v))
                  BY <2>1
            <3>2. Stale(v) \in Answer
                  BY <3>1, AnswerTypes, LocalType
            <3>3. memory' \in SUBSET Entry
                  <4> HIDE DEF until
                  <4> QED BY <1>1, <3>1, <3>2 DEF Remember, Entry
            <3>4. QED
                  BY <3>1, <3>2, <3>3, ReturnType
      <2>2. CASE Return(c, Refused(s)) /\ UNCHANGED memory
            BY <2>2, AnswerTypes, ReturnType DEF TypeOK
      <2>3. QED
            BY <2>1, <2>2 DEF Fail
<1>5. QED
      BY <1>3, <1>4 DEF Fail, TypeOK, upstreamVars

\* A write that fails leaves the row as it was or as it was to be written.
LEMMA WriteFailsType ==
    ASSUME TypeOK, NEW c \in Clients, NEW written \in SUBSET Value, WriteFails(c, written)
    PROVE  TypeOK'
<1>1. row' \in SUBSET Value
      BY DEF WriteFails, TypeOK
<1>2. QED
      BY <1>1, FailType DEF WriteFails, Status, FailureStatus

LEMMA SucceedType ==
    ASSUME TypeOK, NEW c \in Clients, NEW v \in Value, Succeed(c, v)
    PROVE  /\ backoff' \in SUBSET [failures : Nat \ {0}, until : Nat]
           /\ memory' \in SUBSET Entry
           /\ answer' \in [Clients -> Answer]
           /\ local' \in [Clients -> Local]
           /\ pc' \in [Clients -> PC]
<1>1. Fresh(v) \in Answer
      BY AnswerTypes
<1>2. local[c].now + MemTTL \in Nat
      BY LocalType, Constants
<1>3. memory' \in SUBSET Entry
      BY <1>1, <1>2 DEF Succeed, Remember, Entry
<1>4. QED
      BY <1>1, <1>3, ReturnType DEF Succeed

LEMMA TypeInit == Init => TypeOK
<1>1. NoAnswer \in Answer /\ NoLocal \in Local
      BY AnswerTypes
<1>2. QED
      BY <1>1 DEF Init, TypeOK, PC

\* Every action keeps the types: one step per action of Next.
LEMMA TypeStep == TypeOK /\ [Next]_vars => TypeOK'
<1> SUFFICES ASSUME TypeOK, [Next]_vars PROVE TypeOK'
    OBVIOUS
<1> USE DEF upstreamVars, storeVars, processVars, clientVars
<1>1. ASSUME NEW c \in Clients, Request(c) PROVE TypeOK'
      <2>1. Live \subseteq memory /\ \A e \in Live : e.load \in Answer
            BY DEF Live, TypeOK, Entry
      <2>2. QED
            BY <1>1, <2>1 DEF Request, TypeOK, PC
<1>2. ASSUME NEW c \in Clients, Lead(c) PROVE TypeOK'
      BY <1>2, AnswerTypes DEF Lead, TypeOK, PC
<1>3. ASSUME NEW c \in Clients, Wait(c) PROVE TypeOK'
      BY <1>3 DEF Wait, TypeOK, PC
<1>4. ASSUME NEW c \in Clients, Receive(c) PROVE TypeOK'
      BY <1>4 DEF Receive, TypeOK, PC
<1>5. ASSUME NEW c \in Clients, GiveUp(c) PROVE TypeOK'
      BY <1>5, AnswerTypes DEF GiveUp, TypeOK, PC, Status
<1>6. ASSUME NEW c \in Clients, LookupHit(c) PROVE TypeOK'
      <2>1. Live \subseteq memory /\ \A e \in Live : e.load \in Answer
            BY DEF Live, TypeOK, Entry
      <2>2. /\ answer' \in [Clients -> Answer]
            /\ local' \in [Clients -> Local]
            /\ pc' \in [Clients -> PC]
            BY <1>6, <2>1, ReturnType DEF LookupHit
      <2>3. QED
            BY <1>6, <2>1, <2>2 DEF LookupHit, TypeOK
<1>7. ASSUME NEW c \in Clients, LookupRow(c) PROVE TypeOK'
      <2>1. /\ answer' \in [Clients -> Answer]
            /\ local' \in [Clients -> Local]
            /\ pc' \in [Clients -> PC]
            <3>1. CASE Return(c, Refused("error"))
                  BY <3>1, AnswerTypes, ReturnType DEF Status, FailureStatus
            <3>2. CASE /\ local' = [local EXCEPT ![c].cached = row]
                       /\ pc' = [pc EXCEPT ![c] = "decide"]
                       /\ UNCHANGED answer
                  BY <3>2 DEF TypeOK, Local, PC
            <3>3. QED
                  BY <1>7, <3>1, <3>2 DEF LookupRow
      <2>2. QED
            BY <1>7, <2>1 DEF LookupRow, TypeOK
<1>8. ASSUME NEW c \in Clients, UseFreshRow(c) PROVE TypeOK'
      <2>1. PICK v \in local[c].cached :
                memory' = Remember(Fresh(v), now + MemTTL) /\ Return(c, Fresh(v))
            BY <1>8 DEF UseFreshRow
      <2>2. Fresh(v) \in Answer /\ now + MemTTL \in Nat
            BY <2>1, AnswerTypes, LocalType, Constants DEF TypeOK
      <2>3. memory' \in SUBSET Entry
            BY <2>1, <2>2 DEF Remember, Entry
      <2>4. /\ answer' \in [Clients -> Answer]
            /\ local' \in [Clients -> Local]
            /\ pc' \in [Clients -> PC]
            BY <2>1, <2>2, ReturnType
      <2>5. QED
            BY <1>8, <2>3, <2>4 DEF UseFreshRow, TypeOK
<1>9. ASSUME NEW c \in Clients, Suppress(c) PROVE TypeOK'
      <2>1. PICK b \in Blocking :
                \/ \E v \in local[c].cached :
                      memory' = Remember(Stale(v), b.until) /\ Return(c, Stale(v))
                \/ Return(c, Refused("busy")) /\ UNCHANGED memory
            BY <1>9 DEF Suppress
      <2>2. b.until \in Nat
            BY <2>1 DEF Blocking, TypeOK
      <2>3. ASSUME NEW v \in local[c].cached,
                   memory' = Remember(Stale(v), b.until), Return(c, Stale(v))
            PROVE  TypeOK'
            <3>1. Stale(v) \in Answer
                  BY AnswerTypes, LocalType
            <3>2. memory' \in SUBSET Entry
                  BY <2>2, <2>3, <3>1 DEF Remember, Entry
            <3>3. /\ answer' \in [Clients -> Answer]
                  /\ local' \in [Clients -> Local]
                  /\ pc' \in [Clients -> PC]
                  BY <2>3, <3>1, ReturnType
            <3>4. QED
                  BY <1>9, <3>2, <3>3 DEF Suppress, TypeOK
      <2>4. ASSUME Return(c, Refused("busy")), UNCHANGED memory
            PROVE  TypeOK'
            <3>1. Refused("busy") \in Answer
                  BY AnswerTypes DEF Status, FailureStatus
            <3>2. /\ answer' \in [Clients -> Answer]
                  /\ local' \in [Clients -> Local]
                  /\ pc' \in [Clients -> PC]
                  BY <2>4, <3>1, ReturnType
            <3>3. QED
                  BY <1>9, <2>4, <3>2 DEF Suppress, TypeOK
      <2>5. QED
            BY <2>1, <2>3, <2>4
<1>10. ASSUME NEW c \in Clients, StartRefresh(c) PROVE TypeOK'
      BY <1>10 DEF StartRefresh, TypeOK, Local, PC
<1>11. ASSUME NEW c \in Clients, AskFails(c) PROVE TypeOK'
      <2>1. \E s \in Status : Fail(c, s)
            BY <1>11, Constants DEF AskFails, Status, FailureStatus
      <2>2. row' \in SUBSET Value
            BY <1>11 DEF AskFails, TypeOK
      <2>3. QED
            BY <2>1, <2>2, FailType
<1>12. ASSUME NEW c \in Clients, AskIncremental(c) PROVE TypeOK'
      <2>1. Version("recent") \in Nat
            BY DEF Version, TypeOK, Parts
      <2>2. local' \in [Clients -> Local]
            <3>1. local' = [local EXCEPT ![c].recent = Version("recent")]
                  BY <1>12 DEF AskIncremental
            <3>2. QED
                  BY <2>1, <3>1 DEF TypeOK, Local
      <2>3. pc' \in [Clients -> PC]
            <3>1. PICK to \in {"touch", "save"} : pc' = [pc EXCEPT ![c] = to]
                  BY <1>12 DEF AskIncremental
            <3>2. to \in PC
                  BY DEF PC
            <3>3. QED
                  BY <3>1, <3>2 DEF TypeOK
      <2>4. UNCHANGED <<upstreamVars, storeVars, processVars, since, gone, answer>>
            BY <1>12 DEF AskIncremental
      <2>5. QED
            BY <2>2, <2>3, <2>4 DEF TypeOK, upstreamVars, storeVars, processVars
<1>13. ASSUME NEW c \in Clients, AskFirst(c) PROVE TypeOK'
      <2>1. Version("recent") \in Nat
            BY DEF Version, TypeOK, Parts
      <2>2. QED
            BY <1>13, <2>1 DEF AskFirst, TypeOK, Local, PC
<1>14. ASSUME NEW c \in Clients, AskRest(c) PROVE TypeOK'
      <2> DEFINE v == [recent |-> local[c].recent, old |-> Version("old"),
                       fetched |-> local[c].now, full |-> local[c].now]
      <2>1. v \in Value
            BY LocalType DEF Version, TypeOK, Parts, Value
      <2>2. CASE WriteFails(c, {v})
            <3> HIDE DEF v
            <3> QED BY <2>1, <2>2, WriteFailsType
      <2>3. CASE row' = {v} /\ Succeed(c, v) /\ UNCHANGED <<upstreamVars, disk, calls, since, gone>>
            <3> HIDE DEF v
            <3> QED BY <2>1, <2>3, SucceedType DEF TypeOK
      <2>4. QED
            BY <1>14, <2>2, <2>3 DEF AskRest
<1>15. ASSUME NEW c \in Clients, Touch(c) PROVE TypeOK'
      <2> DEFINE touched == {[w EXCEPT !.fetched = local[c].now] : w \in row}
      <2>4. touched \in SUBSET Value
            <3>1. \A w \in Value : [w EXCEPT !.fetched = local[c].now] \in Value
                  BY LocalType DEF Value
            <3>2. row \subseteq Value
                  BY DEF TypeOK
            <3>3. QED
                  BY <3>1, <3>2
      <2>1. CASE WriteFails(c, touched)
            <3> HIDE DEF touched
            <3> QED BY <2>1, <2>4, WriteFailsType
      <2>2. ASSUME NEW v \in local[c].cached,
                   row' = touched,
                   Succeed(c, [v EXCEPT !.fetched = local[c].now]),
                   UNCHANGED <<upstreamVars, disk, calls, since, gone>>
            PROVE  TypeOK'
            <3>1. \A w \in Value : [w EXCEPT !.fetched = local[c].now] \in Value
                  BY LocalType DEF Value
            <3>2. row' \in SUBSET Value
                  BY <2>2, <2>4
            <3>3. [v EXCEPT !.fetched = local[c].now] \in Value
                  BY <3>1, LocalType
            <3>4. QED
                  BY <2>2, <3>2, <3>3, SucceedType DEF TypeOK
      <2>3. QED
            BY <1>15, <2>1, <2>2 DEF Touch
<1>16. ASSUME NEW c \in Clients, Save(c) PROVE TypeOK'
      <2>1. ASSUME NEW v \in local[c].cached, NEW merged,
                   merged = [v EXCEPT !.recent = local[c].recent, !.fetched = local[c].now],
                   \/ WriteFails(c, {merged})
                   \/ /\ row' = {merged} /\ Succeed(c, merged)
                      /\ UNCHANGED <<upstreamVars, disk, calls, since, gone>>
            PROVE  TypeOK'
            <3>1. v \in Value
                  BY LocalType
            <3>2. merged \in Value
                  BY <2>1, <3>1, LocalType DEF Value
            <3>3. CASE WriteFails(c, {merged})
                  BY <3>2, <3>3, WriteFailsType
            <3>4. CASE /\ row' = {merged} /\ Succeed(c, merged)
                       /\ UNCHANGED <<upstreamVars, disk, calls, since, gone>>
                  BY <3>2, <3>4, SucceedType DEF TypeOK
            <3>5. QED
                  BY <2>1, <3>3, <3>4
      <2>2. QED
            BY <1>16, <2>1 DEF Save
<1>17. ASSUME NEW c \in Clients, Close(c) PROVE TypeOK'
      BY <1>17 DEF Close, TypeOK, PC
<1>18. ASSUME NEW c \in Clients, Delete(c) PROVE TypeOK'
      BY <1>18 DEF Delete, TypeOK, PC
<1>19. ASSUME NEW c \in Clients, Reply(c) PROVE TypeOK'
      BY <1>19, AnswerTypes DEF Reply, TypeOK, PC
<1>20. ASSUME Tick PROVE TypeOK'
      BY <1>20 DEF Tick, TypeOK
<1>21. ASSUME NEW p \in Parts, Change(p) PROVE TypeOK'
      BY <1>21 DEF Change, TypeOK
<1>22. ASSUME NEW c \in Clients, Disconnect(c) PROVE TypeOK'
      BY <1>22 DEF Disconnect, TypeOK
<1>23. ASSUME Restart PROVE TypeOK'
      BY <1>23, AnswerTypes DEF Restart, TypeOK, PC
<1>24. ASSUME Checkpoint \/ SwitchStore \/ Evict \/ SweepBackoff PROVE TypeOK'
      BY <1>24 DEF Checkpoint, SwitchStore, Evict, SweepBackoff, TypeOK
<1>25. ASSUME UNCHANGED vars PROVE TypeOK'
      BY <1>25 DEF vars, TypeOK
<1>26. QED
      BY <1>1, <1>2, <1>3, <1>4, <1>5, <1>6, <1>7, <1>8, <1>9, <1>10, <1>11, <1>12,
         <1>13, <1>14, <1>15, <1>16, <1>17, <1>18, <1>19, <1>20, <1>21, <1>22,
         <1>23, <1>24, <1>25
      DEF Next, Step, Environment

\* Type correctness, for any number of requests and any clock and change bounds.
THEOREM TypeCorrect == Spec => []TypeOK
<1>1. QED
      BY TypeInit, TypeStep, PTL DEF Spec

------------------------------------------------------------------------------
(* The flight.                                                               *)

\* What the fields of the flight have to do with each other: at most one call,
\* led by exactly one request that has not let go of it; whoever waits without a
\* result waits for an open call, and a closed call has a result.
FlightInv ==
    /\ \A k, l \in calls : k = l
    /\ \A k \in calls : \E c \in Clients : pc[c] \in InFlight
    /\ \A c \in Clients : pc[c] \in InFlight =>
          \E k \in calls : k.since = since[c] /\ (k.done <=> pc[c] = "delete")
    /\ OneRefreshAtATime
    /\ \A d \in Clients : pc[d] = "waiting" /\ answer[d] = NoAnswer =>
          \E k \in calls : ~k.done /\ k.since = since[d]
    /\ \A k \in calls : k.done => k.answer # NoAnswer
    /\ \A c \in Clients : pc[c] = "close" => answer[c] # NoAnswer
    /\ \A c \in Clients : pc[c] = "idle" => answer[c] = NoAnswer
    /\ \A e \in memory : e.load.status \in {"fresh", "stale"}


\* What every step of a leader between Group.Do's two bookkeeping steps does to
\* the fields FlightInv is about.
LeaderMoves(c) ==
    /\ pc[c] \in InFlight \ {"close", "delete"}
    /\ \E s \in InFlight \ {"delete"} : pc' = [pc EXCEPT ![c] = s]
    /\ pc'[c] = "close" => answer'[c] # NoAnswer
    /\ \A d \in Clients \ {c} : answer'[d] = answer[d]
    /\ \A e \in memory' : e \in memory \/ e.load.status \in {"fresh", "stale"}
    /\ UNCHANGED <<calls, since>>

LEMMA LeaderMovesKeepsFlight ==
    ASSUME TypeOK, FlightInv, NEW c \in Clients, LeaderMoves(c)
    PROVE  FlightInv'
<1>1. /\ \A d \in Clients \ {c} : pc'[d] = pc[d]
      /\ pc'[c] \in InFlight \ {"delete"}
      BY DEF LeaderMoves, TypeOK
<1>2. (\A k, l \in calls : k = l)' /\ (\A k \in calls : k.done => k.answer # NoAnswer)'
      BY DEF LeaderMoves, FlightInv
<1>3. (\A k \in calls : \E d \in Clients : pc[d] \in InFlight)'
      BY <1>1 DEF LeaderMoves
<1>4. (\A d \in Clients : pc[d] \in InFlight =>
          \E k \in calls : k.since = since[d] /\ (k.done <=> pc[d] = "delete"))'
      BY <1>1 DEF LeaderMoves, FlightInv
<1>5. OneRefreshAtATime'
      BY <1>1 DEF LeaderMoves, FlightInv, OneRefreshAtATime
<1>6. (\A d \in Clients : pc[d] = "waiting" /\ answer[d] = NoAnswer =>
          \E k \in calls : ~k.done /\ k.since = since[d])'
      BY <1>1 DEF LeaderMoves, FlightInv, InFlight
<1>7. (\A d \in Clients : pc[d] = "close" => answer[d] # NoAnswer)'
      BY <1>1 DEF LeaderMoves, FlightInv
<1>8. (\A e \in memory : e.load.status \in {"fresh", "stale"})'
      BY DEF LeaderMoves, FlightInv
<1>9. (\A d \in Clients : pc[d] = "idle" => answer[d] = NoAnswer)'
      BY <1>1 DEF LeaderMoves, FlightInv, InFlight
<1>10. QED
      BY <1>2, <1>3, <1>4, <1>5, <1>6, <1>7, <1>8, <1>9 DEF FlightInv

\* The answers a leader returns are not NoAnswer.
LEMMA RealAnswers ==
    /\ \A s \in Status \ {"none"} : Refused(s) # NoAnswer
    /\ \A v : Fresh(v) # NoAnswer /\ Stale(v) # NoAnswer
    /\ \A v : Fresh(v).status = "fresh" /\ Stale(v).status = "stale"
BY DEF Refused, Fresh, Stale, NoAnswer

LEMMA ReturnMoves ==
    ASSUME TypeOK, NEW c \in Clients, NEW a, a # NoAnswer, Return(c, a),
           pc[c] \in InFlight \ {"close", "delete"},
           \A e \in memory' : e \in memory \/ e.load.status \in {"fresh", "stale"},
           UNCHANGED <<calls, since>>
    PROVE  LeaderMoves(c)
BY DEF Return, LeaderMoves, TypeOK, InFlight

LEMMA FailMoves ==
    ASSUME TypeOK, NEW c \in Clients, pc[c] \in InFlight \ {"close", "delete"},
           NEW s \in Status \ {"none"}, Fail(c, s)
    PROVE  LeaderMoves(c)
<1>1. UNCHANGED <<calls, since>>
      BY DEF Fail
<1>2. ASSUME NEW v, NEW t, memory' = Remember(Stale(v), t), Return(c, Stale(v))
      PROVE  LeaderMoves(c)
      BY <1>1, <1>2, RealAnswers, ReturnMoves DEF Remember
<1>3. ASSUME Return(c, Refused(s)), UNCHANGED memory
      PROVE  LeaderMoves(c)
      BY <1>1, <1>3, RealAnswers, ReturnMoves
<1>4. QED
      BY <1>2, <1>3 DEF Fail

LEMMA SucceedMoves ==
    ASSUME TypeOK, NEW c \in Clients, pc[c] \in InFlight \ {"close", "delete"},
           NEW v, Succeed(c, v), UNCHANGED <<calls, since>>
    PROVE  LeaderMoves(c)
BY RealAnswers, ReturnMoves DEF Succeed, Remember

\* Every step of a leader is such a move.
LEMMA LeaderSteps ==
    ASSUME TypeOK, FlightInv, NEW c \in Clients,
           \/ LookupHit(c) \/ LookupRow(c) \/ UseFreshRow(c) \/ Suppress(c)
           \/ StartRefresh(c) \/ AskFails(c) \/ AskIncremental(c) \/ AskFirst(c)
           \/ AskRest(c) \/ Touch(c) \/ Save(c)
    PROVE  LeaderMoves(c)
<1> USE DEF processVars
<1>1. CASE LookupHit(c)
      <2>1. PICK e \in Live : Return(c, e.load)
            BY <1>1 DEF LookupHit
      <2>2. Live \subseteq memory
            BY DEF Live
      <2>3. e.load # NoAnswer
            BY <2>1, <2>2 DEF FlightInv, NoAnswer
      <2>4. QED
            BY <1>1, <2>1, <2>2, <2>3, ReturnMoves DEF LookupHit, InFlight
<1>2. CASE LookupRow(c)
      <2>1. CASE Return(c, Refused("error"))
            BY <1>2, <2>1, RealAnswers, ReturnMoves DEF LookupRow, InFlight, Status, FailureStatus
      <2>2. CASE pc' = [pc EXCEPT ![c] = "decide"] /\ UNCHANGED answer
            BY <1>2, <2>2 DEF LookupRow, InFlight, LeaderMoves, TypeOK
      <2>3. QED
            BY <1>2, <2>1, <2>2 DEF LookupRow
<1>3. CASE UseFreshRow(c)
      BY <1>3, RealAnswers, ReturnMoves DEF UseFreshRow, Remember, InFlight
<1>4. CASE Suppress(c)
      <2>1. ASSUME NEW v, NEW t, memory' = Remember(Stale(v), t), Return(c, Stale(v))
            PROVE  LeaderMoves(c)
            BY <1>4, <2>1, RealAnswers, ReturnMoves DEF Suppress, Remember, InFlight
      <2>2. ASSUME Return(c, Refused("busy")), UNCHANGED memory
            PROVE  LeaderMoves(c)
            BY <1>4, <2>2, RealAnswers, ReturnMoves DEF Suppress, InFlight, Status, FailureStatus
      <2>3. QED
            BY <1>4, <2>1, <2>2 DEF Suppress
<1>5. CASE StartRefresh(c)
      BY <1>5 DEF StartRefresh, InFlight, LeaderMoves, TypeOK
<1>6. CASE AskFails(c)
      <2>1. PICK s \in Status \ {"none"} : Fail(c, s)
            BY <1>6, ConstantsAssumption DEF AskFails, Status, FailureStatus
      <2>2. QED
            BY <1>6, <2>1, FailMoves DEF AskFails, InFlight
<1>7. CASE AskIncremental(c)
      BY <1>7 DEF AskIncremental, InFlight, LeaderMoves, TypeOK
<1>8. CASE AskFirst(c)
      BY <1>8 DEF AskFirst, InFlight, LeaderMoves, TypeOK
<1>9. CASE AskRest(c) \/ Touch(c) \/ Save(c)
      <2>1. pc[c] \in InFlight \ {"close", "delete"}
            BY <1>9 DEF AskRest, Touch, Save, InFlight
      <2>2. CASE Fail(c, "error")
            BY <2>1, <2>2, FailMoves DEF Status, FailureStatus
      <2>3. CASE (\E v : Succeed(c, v)) /\ UNCHANGED <<calls, since>>
            BY <2>1, <2>3, SucceedMoves
      <2>4. QED
            BY <1>9, <2>2, <2>3 DEF AskRest, Touch, Save, WriteFails
<1>10. QED
      BY <1>1, <1>2, <1>3, <1>4, <1>5, <1>6, <1>7, <1>8, <1>9

LEMMA FlightInit == Init => FlightInv
BY DEF Init, FlightInv, InFlight, OneRefreshAtATime

\* Steps that change neither pc nor the flight and at most forget memory entries.
LEMMA FlightUntouched ==
    ASSUME FlightInv, UNCHANGED <<calls, pc, since, answer>>, memory' \subseteq memory
    PROVE  FlightInv'
BY DEF FlightInv, OneRefreshAtATime

LEMMA FlightStep == TypeOK /\ FlightInv /\ [Next]_vars => FlightInv'
<1> SUFFICES ASSUME TypeOK, FlightInv, [Next]_vars PROVE FlightInv'
    OBVIOUS
<1> USE DEF upstreamVars, storeVars, processVars, clientVars
<1>1. ASSUME NEW c \in Clients, Request(c) PROVE FlightInv'
      <2>1. /\ \A d \in Clients \ {c} : pc'[d] = pc[d] /\ answer'[d] = answer[d] /\ since'[d] = since[d]
            /\ pc'[c] \in {"reply", "missed"} /\ pc[c] = "idle"
            /\ memory' \subseteq memory /\ calls' = calls
            BY <1>1 DEF Request, TypeOK, Live
      <2>2. QED
            BY <2>1 DEF FlightInv, OneRefreshAtATime, InFlight
<1>2. ASSUME NEW c \in Clients, Lead(c) PROVE FlightInv'
      <2>1. /\ \A d \in Clients \ {c} : pc'[d] = pc[d]
            /\ pc'[c] = "lookup" /\ calls = {}
            /\ UNCHANGED <<answer, since, memory>>
            BY <1>2 DEF Lead, TypeOK
      <2>2. PICK k : k.done = FALSE /\ k.since = since[c] /\ calls' = {k}
            BY <1>2 DEF Lead
      <2>3. \A d \in Clients : pc[d] \notin InFlight /\ ~(pc[d] = "waiting" /\ answer[d] = NoAnswer)
            BY <2>1 DEF FlightInv
      <2>4. QED
            BY <2>1, <2>2, <2>3 DEF FlightInv, OneRefreshAtATime, InFlight
<1>3. ASSUME NEW c \in Clients, Wait(c) PROVE FlightInv'
      <2>1. PICK k \in calls : answer' = [answer EXCEPT ![c] = k.answer] /\ since' = [since EXCEPT ![c] = k.since]
            BY <1>3 DEF Wait
      <2>2. /\ \A d \in Clients \ {c} : pc'[d] = pc[d] /\ answer'[d] = answer[d] /\ since'[d] = since[d]
            /\ pc'[c] = "waiting" /\ answer'[c] = k.answer /\ since'[c] = k.since /\ pc[c] = "missed"
            /\ UNCHANGED <<memory, calls>>
            BY <1>3, <2>1 DEF Wait, TypeOK
      <2>3. k.done \in BOOLEAN
            BY <2>1 DEF TypeOK
      <2>4. QED
            BY <2>1, <2>2, <2>3 DEF FlightInv, OneRefreshAtATime, InFlight
<1>4. ASSUME NEW c \in Clients, Receive(c) \/ GiveUp(c) PROVE FlightInv'
      <2>1. /\ \A d \in Clients \ {c} : pc'[d] = pc[d] /\ answer'[d] = answer[d]
            /\ pc'[c] = "reply" /\ pc[c] = "waiting"
            /\ UNCHANGED <<memory, calls, since>>
            BY <1>4 DEF Receive, GiveUp, TypeOK
      <2>2. QED
            BY <2>1 DEF FlightInv, OneRefreshAtATime, InFlight
<1>5. ASSUME NEW c \in Clients,
             \/ LookupHit(c) \/ LookupRow(c) \/ UseFreshRow(c) \/ Suppress(c)
             \/ StartRefresh(c) \/ AskFails(c) \/ AskIncremental(c) \/ AskFirst(c)
             \/ AskRest(c) \/ Touch(c) \/ Save(c)
      PROVE  FlightInv'
      BY <1>5, LeaderSteps, LeaderMovesKeepsFlight
<1>6. ASSUME NEW c \in Clients, Close(c) PROVE FlightInv'
      <2>1. /\ \A d \in Clients \ {c} : pc'[d] = pc[d]
            /\ pc'[c] = "delete" /\ pc[c] = "close"
            /\ UNCHANGED <<memory, since>>
            BY <1>6 DEF Close, TypeOK
      <2>2. PICK k : k.done = TRUE /\ k.since = since[c] /\ k.answer = answer[c] /\ calls' = {k}
            BY <1>6 DEF Close
      <2>3. answer[c] # NoAnswer
            BY <2>1 DEF FlightInv
      <2>4. \A d \in Clients : answer'[d] = IF pc[d] = "waiting" /\ answer[d] = NoAnswer
                                            THEN answer[c] ELSE answer[d]
            BY <1>6 DEF Close
      <2>5. \A d \in Clients : ~(pc'[d] = "waiting" /\ answer'[d] = NoAnswer)
            BY <2>1, <2>3, <2>4
      <2>6. \A d \in Clients : pc'[d] \in InFlight => d = c
            BY <2>1 DEF FlightInv, OneRefreshAtATime, InFlight
      <2>7. \A d \in Clients : pc'[d] = "idle" => answer'[d] = NoAnswer
            BY <2>1, <2>4 DEF FlightInv
      <2>8. \A d \in Clients : pc'[d] # "close"
            BY <2>1, <2>6 DEF InFlight
      <2>9. QED
            BY <2>1, <2>2, <2>3, <2>5, <2>6, <2>7, <2>8 DEF FlightInv, OneRefreshAtATime, InFlight
<1>7. ASSUME NEW c \in Clients, Delete(c) PROVE FlightInv'
      <2>1. /\ \A d \in Clients \ {c} : pc'[d] = pc[d]
            /\ pc'[c] = "reply" /\ pc[c] = "delete" /\ calls' = {}
            /\ UNCHANGED <<memory, since, answer>>
            BY <1>7 DEF Delete, TypeOK
      <2>2. \A d \in Clients : pc'[d] \notin InFlight
            BY <2>1 DEF FlightInv, OneRefreshAtATime, InFlight
      <2>3. PICK k \in calls : k.done
            BY <2>1 DEF FlightInv, InFlight
      <2>4. \A d \in Clients : ~(pc'[d] = "waiting" /\ answer'[d] = NoAnswer)
            BY <2>1, <2>3 DEF FlightInv
      <2>5. \A d \in Clients : pc'[d] = "close" => answer'[d] # NoAnswer
            BY <2>2 DEF InFlight
      <2>6. QED
            BY <2>1, <2>2, <2>4, <2>5 DEF FlightInv, OneRefreshAtATime
<1>8. ASSUME NEW c \in Clients, Reply(c) PROVE FlightInv'
      <2>1. /\ \A d \in Clients \ {c} : pc'[d] = pc[d] /\ answer'[d] = answer[d] /\ since'[d] = since[d]
            /\ pc'[c] = "idle" /\ pc[c] = "reply" /\ answer'[c] = NoAnswer
            /\ UNCHANGED <<memory, calls>>
            BY <1>8 DEF Reply, TypeOK
      <2>2. QED
            BY <2>1 DEF FlightInv, OneRefreshAtATime, InFlight
<1>9. ASSUME Restart PROVE FlightInv'
      BY <1>9 DEF Restart, FlightInv, OneRefreshAtATime, InFlight
<1>10. ASSUME \/ Tick \/ Checkpoint \/ SwitchStore \/ Evict \/ SweepBackoff
              \/ \E p \in Parts : Change(p)
              \/ \E c \in Clients : Disconnect(c)
              \/ UNCHANGED vars
      PROVE  FlightInv'
      BY <1>10, FlightUntouched
      DEF Tick, Checkpoint, SwitchStore, Evict, SweepBackoff, Change, Disconnect, vars
<1>11. QED
      BY <1>1, <1>2, <1>3, <1>4, <1>5, <1>6, <1>7, <1>8, <1>9, <1>10
      DEF Next, Step, Environment

\* cache.Group keeps its promise for any number of concurrent requests: at most
\* one of them refreshes the key at a time.
THEOREM RefreshesAreMerged == Spec => []OneRefreshAtATime
<1>1. FlightInv => OneRefreshAtATime
      BY DEF FlightInv
<1>2. QED
      BY <1>1, TypeInit, TypeStep, FlightInit, FlightStep, PTL DEF Spec

\* Nobody is left waiting for a call that is already gone, whoever disconnects
\* and whenever the waiter joined.
THEOREM NoLostWaiter == Spec => []WaitersHaveALeader
<1>1. TypeOK /\ FlightInv => WaitersHaveALeader
      <2> SUFFICES ASSUME TypeOK, FlightInv,
                          NEW d \in Clients, pc[d] = "waiting", answer[d] = NoAnswer
                   PROVE  \E c \in Clients : pc[c] \in InFlight \ {"delete"}
          BY DEF WaitersHaveALeader
      <2>1. PICK k \in calls : ~k.done
            BY DEF FlightInv
      <2>2. PICK c \in Clients : pc[c] \in InFlight
            BY <2>1 DEF FlightInv
      <2>3. pc[c] # "delete"
            BY <2>1, <2>2 DEF FlightInv
      <2>4. QED
            BY <2>2, <2>3
<1>2. QED
      BY <1>1, TypeInit, TypeStep, FlightInit, FlightStep, PTL DEF Spec
------------------------------------------------------------------------------
(* What is served is what GitHub had.                                        *)

\* The weeks of v were GitHub's when v says it was refreshed, and its older weeks
\* when v says it was read in full, which is not longer ago than FullAfter.
Honest(v) ==
    /\ v.full <= v.fetched /\ v.fetched <= now /\ v.fetched < v.full + FullAfter
    /\ v.recent <= Version("recent") /\ SeenSince("recent", v.recent, v.fetched)
    /\ v.old <= Version("old") /\ SeenSince("old", v.old, v.full)

\* Every value of an answer is honest and, unless marked stale, still counts at t.
HonestAnswer(a, t) ==
    \A v \in a.val :
        /\ Honest(v)
        /\ a.status = "fresh" => t < v.fetched + DbTTL + MemTTL

Refreshing == {"incremental", "first", "rest", "touch", "save"}

\* What the leader holds while it refreshes.
LeaderInv(c) ==
    /\ pc[c] \in Refreshing => since[c] <= local[c].now /\ local[c].now <= now
    /\ pc[c] \in Refreshing \cup {"decide"} => row \subseteq local[c].cached
    /\ pc[c] \in {"incremental", "touch", "save"} =>
          \A v \in local[c].cached :
              v.full <= local[c].now /\ local[c].now < v.full + FullAfter
    /\ pc[c] \in {"rest", "touch", "save"} =>
          /\ local[c].recent <= Version("recent")
          /\ SeenSince("recent", local[c].recent, local[c].now)
    /\ pc[c] = "touch" => \A v \in local[c].cached : v.recent = local[c].recent

HonestInv ==
    /\ \A v, w \in row : v = w
    /\ \A v, w \in disk : v = w
    /\ \A v \in row \cup disk : Honest(v)
    /\ \A e \in memory : HonestAnswer(e.load, e.expires)
    /\ \A k \in calls : k.since <= now /\ HonestAnswer(k.answer, k.since)
    /\ \A c \in Clients :
          /\ since[c] <= now
          /\ HonestAnswer(answer[c], since[c])
          /\ \A v, w \in local[c].cached : v = w
          /\ \A v \in local[c].cached : Honest(v)
          /\ LeaderInv(c)

LEMMA HonestInit == Init => HonestInv
BY DEF Init, HonestInv, HonestAnswer, LeaderInv, Refreshing, NoAnswer, NoLocal

\* Honesty is about the value, the clock and GitHub only.
LEMMA SameUpstream ==
    ASSUME UNCHANGED upstreamVars
    PROVE  /\ \A v : Honest(v) <=> Honest(v)'
           /\ \A p, n, t : SeenSince(p, n, t) <=> SeenSince(p, n, t)'
           /\ \A p : Version(p)' = Version(p)
BY DEF upstreamVars, Honest, SeenSince, Version

\* Neither time nor a change at GitHub makes an honest value dishonest: a change
\* made now replaces the current version now, after every date of the past.
LEMMA UpstreamMoves ==
    ASSUME TypeOK, Tick \/ \E p \in Parts : Change(p)
    PROVE  /\ now' \in Nat /\ now <= now'
           /\ \A q \in Parts, n \in Nat, t \in Nat :
                 t <= now /\ n <= Version(q) /\ SeenSince(q, n, t) =>
                     n <= Version(q)' /\ SeenSince(q, n, t)'
<1>1. CASE Tick
      BY <1>1 DEF Tick, TypeOK, SeenSince, Version
<1>2. ASSUME NEW p \in Parts, Change(p)
      PROVE  /\ now' \in Nat /\ now <= now'
             /\ \A q \in Parts, n \in Nat, t \in Nat :
                   t <= now /\ n <= Version(q) /\ SeenSince(q, n, t) =>
                       n <= Version(q)' /\ SeenSince(q, n, t)'
      <2>1. now' = now /\ now \in Nat
            BY <1>2 DEF Change, TypeOK
      <2>2. ASSUME NEW q \in Parts, NEW n \in Nat, NEW t \in Nat,
                   t <= now, n <= Version(q), SeenSince(q, n, t)
            PROVE  n <= Version(q)' /\ SeenSince(q, n, t)'
            <3>1. changes[q] \in Seq(Nat)
                  BY DEF TypeOK
            <3>2. CASE q # p
                  <4>1. changes'[q] = changes[q]
                        BY <1>2, <3>2 DEF Change, TypeOK
                  <4>2. QED
                        BY <2>2, <4>1 DEF Version, SeenSince
            <3>3. CASE q = p
                  <4>1. changes'[q] = Append(changes[q], now)
                        BY <1>2, <3>3 DEF Change, TypeOK
                  <4>2. /\ Len(changes'[q]) = Len(changes[q]) + 1
                        /\ \A i \in 1..Len(changes[q]) : changes'[q][i] = changes[q][i]
                        /\ changes'[q][Len(changes[q]) + 1] = now
                        BY <2>1, <3>1, <4>1
                  <4>3. n <= Len(changes[q]) /\ Len(changes[q]) \in Nat
                        BY <2>2, <3>1 DEF Version
                  <4>4. CASE n = Len(changes[q])
                        BY <2>1, <2>2, <4>2, <4>3, <4>4 DEF Version, SeenSince
                  <4>5. CASE n < Len(changes[q])
                        <5>1. changes[q][n + 1] >= t /\ n + 1 \in 1..Len(changes[q])
                              BY <2>2, <4>3, <4>5 DEF Version, SeenSince
                        <5>2. changes'[q][n + 1] >= t
                              BY <4>2, <5>1
                        <5>3. QED
                              BY <4>2, <4>3, <5>2 DEF Version, SeenSince
                  <4>6. QED
                        BY <4>3, <4>4, <4>5
            <3>4. QED
                  BY <3>2, <3>3
      <2>3. QED
            BY <2>1, <2>2
<1>3. QED
      BY <1>1, <1>2

LEMMA HonestLasts ==
    ASSUME TypeOK, Tick \/ \E p \in Parts : Change(p)
    PROVE  \A v \in Value : Honest(v) => Honest(v)'
<1>1. SUFFICES ASSUME NEW v \in Value, Honest(v) PROVE Honest(v)'
      OBVIOUS
<1>2. /\ v.recent \in Nat /\ v.old \in Nat /\ v.fetched \in Nat /\ v.full \in Nat
      /\ now \in Nat
      BY DEF Value, TypeOK
<1>3. /\ v.recent <= Version("recent")' /\ SeenSince("recent", v.recent, v.fetched)'
      BY <1>1, <1>2, UpstreamMoves DEF Honest, Parts
<1>4. /\ v.old <= Version("old")' /\ SeenSince("old", v.old, v.full)'
      <2>1. v.full <= now
            BY <1>1, <1>2 DEF Honest
      <2>2. QED
            BY <1>1, <1>2, <2>1, UpstreamMoves DEF Honest, Parts
<1>5. v.fetched <= now'
      BY <1>1, <1>2, UpstreamMoves DEF Honest
<1>6. QED
      BY <1>1, <1>3, <1>4, <1>5 DEF Honest

LEMMA SameAnswers ==
    ASSUME UNCHANGED upstreamVars
    PROVE  \A a, t : HonestAnswer(a, t) <=> HonestAnswer(a, t)'
BY SameUpstream DEF HonestAnswer

\* An answer without a value is honest.
LEMMA EmptyAnswers ==
    \A t : /\ HonestAnswer(NoAnswer, t)
           /\ \A s : HonestAnswer(Refused(s), t)
BY DEF HonestAnswer, NoAnswer, Refused

\* Time passes or GitHub changes.
LEMMA HonestUpstream ==
    ASSUME TypeOK, HonestInv, Tick \/ \E p \in Parts : Change(p)
    PROVE  HonestInv'
<1>1. UNCHANGED <<storeVars, processVars, clientVars>>
      BY DEF Tick, Change
<1>2. now \in Nat /\ now' \in Nat /\ now <= now'
      BY UpstreamMoves DEF TypeOK
<1>3. /\ \A v, w \in row' : v = w
      /\ \A v, w \in disk' : v = w
      BY <1>1 DEF HonestInv, storeVars
<1>4. (\A v \in row \cup disk : Honest(v))'
      BY <1>1, HonestLasts DEF HonestInv, storeVars, TypeOK
<1>5. \A a \in Answer, t \in Nat : HonestAnswer(a, t) => HonestAnswer(a, t)'
      BY HonestLasts DEF HonestAnswer, Answer
<1>6. (\A e \in memory : HonestAnswer(e.load, e.expires))'
      BY <1>1, <1>5 DEF HonestInv, processVars, TypeOK, Entry
<1>7. (\A k \in calls : k.since <= now /\ HonestAnswer(k.answer, k.since))'
      <2>1. \A k \in calls : k.since \in Nat /\ k.answer \in Answer
            BY DEF TypeOK
      <2>2. QED
            BY <1>1, <1>2, <1>5, <2>1 DEF HonestInv, processVars
<1>8. ASSUME NEW c \in Clients
      PROVE  (/\ since[c] <= now
              /\ HonestAnswer(answer[c], since[c])
              /\ \A v, w \in local[c].cached : v = w
              /\ \A v \in local[c].cached : Honest(v)
              /\ LeaderInv(c))'
      <2>1. since[c] \in Nat /\ answer[c] \in Answer
            BY DEF TypeOK
      <2>2. /\ local[c].now \in Nat /\ local[c].recent \in Nat
            /\ local[c].cached \subseteq Value
            BY LocalType
      <2>3. since'[c] <= now' /\ HonestAnswer(answer[c], since[c])'
            BY <1>1, <1>2, <1>5, <2>1 DEF HonestInv, clientVars
      <2>4. (\A v, w \in local[c].cached : v = w)' /\ (\A v \in local[c].cached : Honest(v))'
            BY <1>1, <2>2, HonestLasts DEF HonestInv, clientVars
      <2>5. LeaderInv(c)
            BY DEF HonestInv
      <2>6. ASSUME pc[c] \in {"rest", "touch", "save"}
            PROVE  /\ local[c].recent <= Version("recent")'
                   /\ SeenSince("recent", local[c].recent, local[c].now)'
            <3>1. local[c].now <= now
                  BY <2>5, <2>6 DEF LeaderInv, Refreshing
            <3>2. QED
                  BY <1>1, <2>2, <2>5, <2>6, <3>1, UpstreamMoves
                  DEF LeaderInv, Parts, clientVars
      <2>7. LeaderInv(c)'
            <3>1. pc[c] \in Refreshing => since[c] <= local[c].now /\ local[c].now <= now'
                  BY <1>2, <2>2, <2>5 DEF LeaderInv
            <3>2. QED
                  BY <1>1, <2>5, <2>6, <3>1 DEF LeaderInv, clientVars, storeVars
      <2>8. QED
            BY <2>3, <2>4, <2>7
<1>9. QED
      BY <1>3, <1>4, <1>6, <1>7, <1>8 DEF HonestInv

\* Steps that bring no new value in: they copy answers, forget or restore rows.
LEMMA NothingNew ==
    ASSUME HonestInv, UNCHANGED upstreamVars,
           row' \in {row, disk, {}}, disk' \in {row, disk, {}},
           memory' \subseteq memory,
           \A k \in calls' : k.since <= now /\ HonestAnswer(k.answer, k.since),
           \A d \in Clients :
              /\ since'[d] <= now
              /\ HonestAnswer(answer'[d], since'[d])
              /\ local'[d] \in {local[d], NoLocal}
              /\ pc'[d] \in Refreshing \cup {"decide"} =>
                    /\ pc'[d] = pc[d] /\ since'[d] = since[d]
                    /\ local'[d] = local[d] /\ row' \subseteq row
    PROVE  HonestInv'
<1>1. now' = now
      BY DEF upstreamVars
<1>2. (\A v, w \in row : v = w)' /\ (\A v, w \in disk : v = w)'
      BY DEF HonestInv
<1>3. (\A v \in row \cup disk : Honest(v))'
      BY SameUpstream DEF HonestInv
<1>4. (\A e \in memory : HonestAnswer(e.load, e.expires))'
      BY SameAnswers DEF HonestInv
<1>5. (\A k \in calls : k.since <= now /\ HonestAnswer(k.answer, k.since))'
      BY <1>1, SameAnswers
<1>6. ASSUME NEW c \in Clients
      PROVE  (/\ since[c] <= now
              /\ HonestAnswer(answer[c], since[c])
              /\ \A v, w \in local[c].cached : v = w
              /\ \A v \in local[c].cached : Honest(v)
              /\ LeaderInv(c))'
      <2>1. since'[c] <= now' /\ HonestAnswer(answer[c], since[c])'
            BY <1>1, SameAnswers
      <2>2. (\A v, w \in local[c].cached : v = w)' /\ (\A v \in local[c].cached : Honest(v))'
            BY SameUpstream DEF HonestInv, NoLocal
      <2>3. LeaderInv(c)'
            BY <1>1, SameUpstream DEF HonestInv, LeaderInv, Refreshing
      <2>4. QED
            BY <2>1, <2>2, <2>3
<1>7. QED
      BY <1>2, <1>3, <1>4, <1>5, <1>6 DEF HonestInv

\* The leader goes on: only its own stack and program counter change.
LEMMA LeaderGoesOn ==
    ASSUME HonestInv, NEW c \in Clients,
           UNCHANGED <<upstreamVars, storeVars, calls, since, answer>>,
           memory' \subseteq memory,
           \A d \in Clients \ {c} : pc'[d] = pc[d] /\ local'[d] = local[d],
           \A v, w \in local'[c].cached : v = w,
           \A v \in local'[c].cached : Honest(v),
           LeaderInv(c)'
    PROVE  HonestInv'
<1>1. now' = now
      BY DEF upstreamVars
<1>2. (\A v, w \in row : v = w)' /\ (\A v, w \in disk : v = w)'
      BY DEF HonestInv, storeVars
<1>3. (\A v \in row \cup disk : Honest(v))'
      BY SameUpstream DEF HonestInv, storeVars
<1>4. (\A e \in memory : HonestAnswer(e.load, e.expires))'
      BY SameAnswers DEF HonestInv
<1>5. (\A k \in calls : k.since <= now /\ HonestAnswer(k.answer, k.since))'
      BY <1>1, SameAnswers DEF HonestInv
<1>6. ASSUME NEW d \in Clients
      PROVE  (/\ since[d] <= now
              /\ HonestAnswer(answer[d], since[d])
              /\ \A v, w \in local[d].cached : v = w
              /\ \A v \in local[d].cached : Honest(v)
              /\ LeaderInv(d))'
      <2>1. since'[d] <= now' /\ HonestAnswer(answer[d], since[d])'
            BY <1>1, SameAnswers DEF HonestInv
      <2>2. (\A v, w \in local[d].cached : v = w)' /\ (\A v \in local[d].cached : Honest(v))'
            BY SameUpstream DEF HonestInv
      <2>3. LeaderInv(d)'
            BY <1>1, SameUpstream DEF HonestInv, LeaderInv, storeVars
      <2>4. QED
            BY <2>1, <2>2, <2>3
<1>7. QED
      BY <1>2, <1>3, <1>4, <1>5, <1>6 DEF HonestInv

\* The leader's function returns an honest answer, and what it leaves in the row
\* and in memory is honest too.
LEMMA LeaderEnds ==
    ASSUME TypeOK, FlightInv, HonestInv, NEW c \in Clients, NEW a,
           pc[c] \in InFlight, Return(c, a), HonestAnswer(a, since[c]),
           UNCHANGED <<upstreamVars, disk, calls, since>>,
           \A v, w \in row' : v = w,
           \A v \in row' : Honest(v),
           \A e \in memory' : e \in memory \/ HonestAnswer(e.load, e.expires)
    PROVE  HonestInv'
<1>1. now' = now
      BY DEF upstreamVars
<1>2. (\A v, w \in row : v = w)' /\ (\A v, w \in disk : v = w)'
      BY DEF HonestInv
<1>3. (\A v \in row \cup disk : Honest(v))'
      BY SameUpstream DEF HonestInv
<1>4. (\A e \in memory : HonestAnswer(e.load, e.expires))'
      BY SameAnswers DEF HonestInv
<1>5. (\A k \in calls : k.since <= now /\ HonestAnswer(k.answer, k.since))'
      BY <1>1, SameAnswers DEF HonestInv
<1>6. ASSUME NEW d \in Clients
      PROVE  (/\ since[d] <= now
              /\ HonestAnswer(answer[d], since[d])
              /\ \A v, w \in local[d].cached : v = w
              /\ \A v \in local[d].cached : Honest(v)
              /\ LeaderInv(d))'
      <2>1. CASE d = c
            <3>1. pc'[d] = "close" /\ answer'[d] = a /\ local'[d] = NoLocal
                  BY <2>1 DEF Return, TypeOK
            <3>2. LeaderInv(d)'
                  BY <3>1 DEF LeaderInv, Refreshing
            <3>3. HonestAnswer(answer[d], since[d])'
                  BY <2>1, <3>1, SameAnswers
            <3>4. QED
                  BY <1>1, <3>1, <3>2, <3>3 DEF HonestInv, NoLocal
      <2>2. CASE d # c
            <3>1. /\ pc'[d] = pc[d] /\ pc[d] \notin InFlight
                  /\ answer'[d] = answer[d] /\ local'[d] = local[d]
                  BY <2>2 DEF Return, TypeOK, FlightInv, OneRefreshAtATime
            <3>2. LeaderInv(d)'
                  BY <3>1 DEF LeaderInv, Refreshing, InFlight
            <3>3. HonestAnswer(answer[d], since[d])'
                  BY <3>1, SameAnswers DEF HonestInv
            <3>4. (\A v \in local[d].cached : Honest(v))'
                  BY <3>1, SameUpstream DEF HonestInv
            <3>5. QED
                  BY <1>1, <3>1, <3>2, <3>3, <3>4 DEF HonestInv
      <2>3. QED
            BY <2>1, <2>2
<1>7. QED
      BY <1>2, <1>3, <1>4, <1>5, <1>6 DEF HonestInv

\* A refresh that fails falls back to the row it had read, marked stale.
LEMMA HonestFail ==
    ASSUME TypeOK, FlightInv, HonestInv, NEW c \in Clients, NEW s,
           pc[c] \in InFlight, Fail(c, s),
           \A v, w \in row' : v = w,
           \A v \in row' : Honest(v)
    PROVE  HonestInv'
<1> DEFINE until == local[c].now + Window(FailureCount)
<1>1. UNCHANGED <<upstreamVars, disk, calls, since>>
      BY DEF Fail
<1>3. ASSUME NEW v \in local[c].cached,
             memory' = Remember(Stale(v), until), Return(c, Stale(v))
      PROVE  HonestInv'
      <2>1. \A t : HonestAnswer(Stale(v), t)
            BY DEF HonestInv, HonestAnswer, Stale
      <2>2. \A e \in memory' : HonestAnswer(e.load, e.expires)
            <3> HIDE DEF until
            <3> QED BY <1>3, <2>1 DEF Remember
      <2>3. QED
            BY <1>1, <1>3, <2>1, <2>2, LeaderEnds
<1>4. ASSUME Return(c, Refused(s)), UNCHANGED memory
      PROVE  HonestInv'
      BY <1>1, <1>4, EmptyAnswers, LeaderEnds
<1>5. QED
      BY <1>3, <1>4 DEF Fail

\* So does one whose write failed, committed or not.
LEMMA HonestWriteFails ==
    ASSUME TypeOK, FlightInv, HonestInv, NEW c \in Clients, NEW written,
           pc[c] \in InFlight, WriteFails(c, written),
           \A v, w \in written : v = w,
           \A v \in written : Honest(v)
    PROVE  HonestInv'
<1>1. (\A v, w \in row' : v = w) /\ (\A v \in row' : Honest(v))
      BY DEF WriteFails, HonestInv
<1>2. QED
      BY <1>1, HonestFail DEF WriteFails

\* A refresh that succeeds returns what GitHub had during the refresh.
LEMMA HonestSuccess ==
    ASSUME TypeOK, FlightInv, HonestInv, NEW c \in Clients, NEW v,
           pc[c] \in Refreshing, Succeed(c, v),
           UNCHANGED <<upstreamVars, disk, calls, since>>,
           Honest(v), v.fetched = local[c].now,
           \A w \in row' : w = v
    PROVE  HonestInv'
<1>1. since[c] \in Nat /\ local[c].now \in Nat /\ since[c] <= local[c].now
      BY LocalType DEF TypeOK, HonestInv, LeaderInv
<1>2. HonestAnswer(Fresh(v), since[c])
      BY <1>1, Constants DEF HonestAnswer, Fresh
<1>3. \A e \in memory' : HonestAnswer(e.load, e.expires)
      BY <1>1, Constants DEF Succeed, Remember, HonestAnswer, Fresh
<1>4. pc[c] \in InFlight
      BY DEF Refreshing, InFlight
<1>5. QED
      BY <1>2, <1>3, <1>4, LeaderEnds DEF Succeed

LEMMA HonestLeader ==
    ASSUME TypeOK, FlightInv, HonestInv, NEW c \in Clients,
           \/ LookupHit(c) \/ LookupRow(c) \/ UseFreshRow(c) \/ Suppress(c)
           \/ StartRefresh(c) \/ AskFails(c) \/ AskIncremental(c) \/ AskFirst(c)
           \/ AskRest(c) \/ Touch(c) \/ Save(c)
    PROVE  HonestInv'
<1>1. /\ since[c] <= now /\ since[c] \in Nat /\ now \in Nat
      /\ LeaderInv(c)
      /\ \A v, w \in local[c].cached : v = w
      /\ \A v \in local[c].cached : Honest(v) /\ v \in Value
      /\ \A v, w \in row : v = w
      /\ \A v \in row : Honest(v)
      BY LocalType DEF HonestInv, TypeOK
<1>2. CASE LookupHit(c)
      <2>1. PICK e \in Live : Return(c, e.load)
            BY <1>2 DEF LookupHit
      <2>2. e \in memory /\ now < e.expires /\ e.expires \in Nat /\ e.load \in Answer
            BY <2>1 DEF Live, TypeOK, Entry
      <2>3. HonestAnswer(e.load, since[c])
            <3>1. ASSUME NEW v \in e.load.val
                  PROVE  /\ Honest(v)
                         /\ e.load.status = "fresh" => since[c] < v.fetched + DbTTL + MemTTL
                  <4>1. v.fetched \in Nat
                        BY <2>2 DEF Answer, Value
                  <4>2. QED
                        BY <1>1, <2>2, <4>1, Constants DEF HonestInv, HonestAnswer
            <3>2. QED
                  BY <3>1 DEF HonestAnswer
      <2>4. /\ pc[c] \in InFlight /\ memory' \subseteq memory
            /\ UNCHANGED <<upstreamVars, row, disk, calls, since>>
            BY <1>2 DEF LookupHit, InFlight, Live, storeVars
      <2>5. QED
            BY <1>1, <2>1, <2>3, <2>4, LeaderEnds
<1>3. CASE LookupRow(c)
      <2>1. /\ memory' = {} /\ pc[c] \in InFlight
            /\ UNCHANGED <<upstreamVars, row, disk, calls, since>>
            BY <1>3 DEF LookupRow, InFlight, storeVars
      <2>2. CASE Return(c, Refused("error"))
            BY <1>1, <2>1, <2>2, EmptyAnswers, LeaderEnds
      <2>3. CASE /\ local' = [local EXCEPT ![c].cached = row]
                 /\ pc' = [pc EXCEPT ![c] = "decide"]
                 /\ UNCHANGED answer
            <3>1. /\ \A d \in Clients \ {c} : pc'[d] = pc[d] /\ local'[d] = local[d]
                  /\ pc'[c] = "decide" /\ local'[c].cached = row
                  BY <2>3 DEF TypeOK, Local
            <3>2. LeaderInv(c)'
                  BY <2>1, <3>1 DEF LeaderInv, Refreshing
            <3>3. QED
                  BY <1>1, <2>1, <2>3, <3>1, <3>2, LeaderGoesOn DEF storeVars
      <2>4. QED
            BY <1>3, <2>2, <2>3 DEF LookupRow
<1>4. CASE UseFreshRow(c)
      <2>1. PICK v \in local[c].cached :
                memory' = Remember(Fresh(v), now + MemTTL) /\ Return(c, Fresh(v))
            BY <1>4 DEF UseFreshRow
      <2>2. v.fetched \in Nat /\ now < v.fetched + DbTTL
            <3>1. PICK w \in local[c].cached : now - w.fetched < DbTTL
                  BY <1>4 DEF UseFreshRow, RowIsFresh
            <3>2. w = v /\ v.fetched \in Nat
                  BY <1>1, <2>1, <3>1 DEF Value
            <3>3. QED
                  BY <1>1, <3>1, <3>2, Constants
      <2>3. HonestAnswer(Fresh(v), since[c]) /\ HonestAnswer(Fresh(v), now + MemTTL)
            BY <1>1, <2>1, <2>2, Constants DEF HonestAnswer, Fresh
      <2>4. \A e \in memory' : HonestAnswer(e.load, e.expires)
            BY <2>1, <2>3 DEF Remember
      <2>5. /\ pc[c] \in InFlight
            /\ UNCHANGED <<upstreamVars, row, disk, calls, since>>
            BY <1>4 DEF UseFreshRow, InFlight, storeVars
      <2>6. QED
            BY <1>1, <2>1, <2>3, <2>4, <2>5, LeaderEnds
<1>5. CASE Suppress(c)
      <2>1. PICK b \in Blocking :
                \/ \E v \in local[c].cached :
                      memory' = Remember(Stale(v), b.until) /\ Return(c, Stale(v))
                \/ Return(c, Refused("busy")) /\ UNCHANGED memory
            BY <1>5 DEF Suppress
      <2>2. /\ pc[c] \in InFlight
            /\ UNCHANGED <<upstreamVars, row, disk, calls, since>>
            BY <1>5 DEF Suppress, InFlight, storeVars
      <2>3. ASSUME NEW v \in local[c].cached,
                   memory' = Remember(Stale(v), b.until), Return(c, Stale(v))
            PROVE  HonestInv'
            <3>1. \A t : HonestAnswer(Stale(v), t)
                  BY <1>1 DEF HonestAnswer, Stale
            <3>2. \A e \in memory' : HonestAnswer(e.load, e.expires)
                  BY <2>3, <3>1 DEF Remember
            <3>3. QED
                  BY <1>1, <2>2, <2>3, <3>1, <3>2, LeaderEnds
      <2>4. CASE Return(c, Refused("busy")) /\ UNCHANGED memory
            BY <1>1, <2>2, <2>4, EmptyAnswers, LeaderEnds
      <2>5. QED
            BY <2>1, <2>3, <2>4
<1>6. CASE StartRefresh(c)
      <2>1. /\ \A d \in Clients \ {c} : pc'[d] = pc[d] /\ local'[d] = local[d]
            /\ local'[c].cached = local[c].cached /\ local'[c].now = now
            /\ pc'[c] \in {"incremental", "first"}
            /\ pc'[c] = "incremental" =>
                  \E v \in local[c].cached : now - v.full < FullAfter
            /\ UNCHANGED <<upstreamVars, row, disk, calls, since, answer, memory>>
            BY <1>6 DEF StartRefresh, TypeOK, Local, storeVars, processVars
      <2>2. pc[c] = "decide" /\ row \subseteq local[c].cached
            BY <1>1, <1>6 DEF StartRefresh, LeaderInv
      <2>3. pc'[c] = "incremental" =>
               \A v \in local[c].cached : v.full <= now /\ now < v.full + FullAfter
            <3>1. \A v \in local[c].cached : v.full \in Nat /\ v.fetched \in Nat
                  BY <1>1 DEF Value
            <3>2. \A v \in local[c].cached : v.full <= now
                  BY <1>1, <3>1 DEF Honest
            <3>3. QED
                  BY <1>1, <2>1, <3>1, <3>2, Constants
      <2>4. LeaderInv(c)'
            BY <1>1, <2>1, <2>2, <2>3 DEF LeaderInv, Refreshing, upstreamVars
      <2>5. QED
            BY <1>1, <2>1, <2>4, LeaderGoesOn DEF storeVars
<1>7. CASE AskFails(c)
      <2>1. (\E s : Fail(c, s)) /\ pc[c] \in InFlight
            BY <1>7 DEF AskFails, InFlight
      <2>2. UNCHANGED row
            BY <1>7 DEF AskFails
      <2>3. QED
            BY <1>1, <2>1, <2>2, HonestFail
<1>8. CASE AskIncremental(c)
      <2>1. PICK v \in local[c].cached :
                pc' = [pc EXCEPT ![c] = IF v.recent = Version("recent") THEN "touch" ELSE "save"]
            BY <1>8 DEF AskIncremental
      <2>2. /\ \A d \in Clients \ {c} : pc'[d] = pc[d] /\ local'[d] = local[d]
            /\ local'[c].cached = local[c].cached /\ local'[c].now = local[c].now
            /\ local'[c].recent = Version("recent")
            /\ pc'[c] \in {"touch", "save"} /\ pc[c] = "incremental"
            /\ pc'[c] = "touch" => v.recent = Version("recent")
            /\ UNCHANGED <<upstreamVars, row, disk, calls, since, answer, memory>>
            BY <1>8, <2>1 DEF AskIncremental, TypeOK, Local, storeVars, processVars
      <2>3. Version("recent") \in Nat
            BY DEF Version, TypeOK, Parts
      <2>4. Version("recent")' = Version("recent") /\ SeenSince("recent", Version("recent"), local[c].now)'
            BY <2>2, <2>3, SameUpstream DEF SeenSince
      <2>5. LeaderInv(c)'
            BY <1>1, <2>1, <2>2, <2>3, <2>4 DEF LeaderInv, Refreshing, upstreamVars
      <2>6. QED
            BY <1>1, <2>2, <2>5, LeaderGoesOn DEF storeVars
<1>9. CASE AskFirst(c)
      <2>1. /\ \A d \in Clients \ {c} : pc'[d] = pc[d] /\ local'[d] = local[d]
            /\ local'[c].cached = local[c].cached /\ local'[c].now = local[c].now
            /\ local'[c].recent = Version("recent")
            /\ pc'[c] = "rest" /\ pc[c] = "first"
            /\ UNCHANGED <<upstreamVars, row, disk, calls, since, answer, memory>>
            BY <1>9 DEF AskFirst, TypeOK, Local, storeVars, processVars
      <2>2. Version("recent") \in Nat
            BY DEF Version, TypeOK, Parts
      <2>3. Version("recent")' = Version("recent") /\ SeenSince("recent", Version("recent"), local[c].now)'
            BY <2>1, <2>2, SameUpstream DEF SeenSince
      <2>4. LeaderInv(c)'
            BY <1>1, <2>1, <2>2, <2>3 DEF LeaderInv, Refreshing, upstreamVars
      <2>5. QED
            BY <1>1, <2>1, <2>4, LeaderGoesOn DEF storeVars
<1>10. CASE AskRest(c)
      <2> DEFINE v == [recent |-> local[c].recent, old |-> Version("old"),
                       fetched |-> local[c].now, full |-> local[c].now]
      <2>1. pc[c] \in InFlight /\ pc[c] \in Refreshing /\ pc[c] = "rest"
            BY <1>10 DEF AskRest, InFlight, Refreshing
      <2>2. Honest(v)
            <3>1. Version("old") \in Nat /\ local[c].now \in Nat
                  BY LocalType DEF Version, TypeOK, Parts
            <3>2. SeenSince("old", Version("old"), local[c].now)
                  BY <3>1 DEF SeenSince
            <3>3. QED
                  BY <1>1, <2>1, <3>1, <3>2, Constants DEF LeaderInv, Honest
      <2>3. v.fetched = local[c].now
            OBVIOUS
      <2>4. \/ WriteFails(c, {v})
            \/ row' = {v} /\ Succeed(c, v) /\ UNCHANGED <<upstreamVars, disk, calls, since, gone>>
            BY <1>10 DEF AskRest
      <2> HIDE DEF v
      <2>5. CASE WriteFails(c, {v})
            BY <2>1, <2>2, <2>5, HonestWriteFails
      <2>6. CASE row' = {v} /\ Succeed(c, v) /\ UNCHANGED <<upstreamVars, disk, calls, since, gone>>
            BY <2>1, <2>2, <2>3, <2>6, HonestSuccess
      <2>7. QED
            BY <2>4, <2>5, <2>6
<1>11. CASE Touch(c)
      <2>1. pc[c] \in InFlight /\ pc[c] \in Refreshing /\ pc[c] = "touch"
            BY <1>11 DEF Touch, InFlight, Refreshing
      <2> DEFINE touched == {[w EXCEPT !.fetched = local[c].now] : w \in row}
      <2>2. row \subseteq local[c].cached
            BY <1>1, <2>1 DEF LeaderInv
      <2>3. ASSUME NEW v \in local[c].cached, NEW x, x = [v EXCEPT !.fetched = local[c].now]
            PROVE  Honest(x) /\ x.fetched = local[c].now /\ \A w \in touched : w = x
            <3>1. /\ x.fetched = local[c].now /\ x.full = v.full
                  /\ x.recent = v.recent /\ x.old = v.old
                  BY <1>1, <2>3 DEF Value
            <3>2. /\ v.full <= local[c].now /\ local[c].now < v.full + FullAfter
                  /\ v.recent = local[c].recent /\ local[c].now <= now
                  BY <1>1, <2>1, <2>3 DEF LeaderInv
            <3>3. Honest(x)
                  BY <1>1, <2>1, <3>1, <3>2 DEF Honest, LeaderInv
            <3>4. \A w \in touched : w = x
                  BY <1>1, <2>2, <2>3
            <3>5. QED
                  BY <3>1, <3>3, <3>4
      <2>4. CASE WriteFails(c, touched)
            <3>1. ASSUME NEW w \in touched
                  PROVE  Honest(w) /\ \A u \in touched : u = w
                  <4>1. PICK v \in row : w = [v EXCEPT !.fetched = local[c].now]
                        OBVIOUS
                  <4> HIDE DEF touched
                  <4>2. QED
                        BY <2>2, <2>3, <4>1
            <3> HIDE DEF touched
            <3>2. QED
                  BY <2>1, <2>4, <3>1, HonestWriteFails
      <2>5. ASSUME NEW v \in local[c].cached, NEW x,
                   x = [v EXCEPT !.fetched = local[c].now], row' = touched,
                   Succeed(c, x),
                   UNCHANGED <<upstreamVars, disk, calls, since, gone>>
            PROVE  HonestInv'
            <3> HIDE DEF touched
            <3>1. QED
                  BY <2>1, <2>3, <2>5, HonestSuccess
      <2>6. QED
            BY <1>11, <2>4, <2>5 DEF Touch
<1>12. CASE Save(c)
      <2>1. pc[c] \in InFlight /\ pc[c] \in Refreshing /\ pc[c] = "save"
            BY <1>12 DEF Save, InFlight, Refreshing
      <2>2. ASSUME NEW v \in local[c].cached, NEW x,
                   x = [v EXCEPT !.recent = local[c].recent, !.fetched = local[c].now],
                   \/ WriteFails(c, {x})
                   \/ /\ row' = {x} /\ Succeed(c, x)
                      /\ UNCHANGED <<upstreamVars, disk, calls, since, gone>>
            PROVE  HonestInv'
            <3>1. /\ x.fetched = local[c].now /\ x.full = v.full
                  /\ x.recent = local[c].recent /\ x.old = v.old
                  BY <1>1, <2>2 DEF Value
            <3>2. Honest(x)
                  BY <1>1, <2>1, <2>2, <3>1 DEF Honest, LeaderInv
            <3>3. CASE WriteFails(c, {x})
                  BY <2>1, <3>2, <3>3, HonestWriteFails
            <3>4. CASE /\ row' = {x} /\ Succeed(c, x)
                       /\ UNCHANGED <<upstreamVars, disk, calls, since, gone>>
                  BY <2>1, <3>1, <3>2, <3>4, HonestSuccess
            <3>5. QED
                  BY <2>2, <3>3, <3>4
      <2>3. QED
            BY <1>12, <2>2 DEF Save
<1>13. QED
      BY <1>2, <1>3, <1>4, <1>5, <1>6, <1>7, <1>8, <1>9, <1>10, <1>11, <1>12

LEMMA HonestStep == TypeOK /\ FlightInv /\ HonestInv /\ [Next]_vars => HonestInv'
<1> SUFFICES ASSUME TypeOK, FlightInv, HonestInv, [Next]_vars PROVE HonestInv'
    OBVIOUS
<1>1. /\ now \in Nat
      /\ \A k \in calls : k.since <= now /\ HonestAnswer(k.answer, k.since)
      /\ \A d \in Clients : since[d] <= now /\ HonestAnswer(answer[d], since[d])
      /\ \A t : HonestAnswer(NoAnswer, t) /\ \A s : HonestAnswer(Refused(s), t)
      BY EmptyAnswers DEF HonestInv, TypeOK
<1>2. ASSUME NEW c \in Clients, Request(c) PROVE HonestInv'
      <2>1. /\ UNCHANGED <<upstreamVars, row, disk, calls, local>>
            /\ memory' \subseteq memory
            /\ \A d \in Clients \ {c} : pc'[d] = pc[d] /\ answer'[d] = answer[d] /\ since'[d] = since[d]
            /\ since'[c] = now /\ pc'[c] \in {"reply", "missed"}
            BY <1>2 DEF Request, storeVars, TypeOK, Live
      <2>2. HonestAnswer(answer'[c], now)
            <3>1. CASE \E e \in Live : answer' = [answer EXCEPT ![c] = e.load]
                  <4>1. PICK e \in Live : answer'[c] = e.load
                        BY <3>1 DEF TypeOK
                  <4>2. e \in memory /\ now < e.expires /\ e.expires \in Nat /\ e.load \in Answer
                        BY <4>1 DEF Live, TypeOK, Entry
                  <4>3. ASSUME NEW v \in e.load.val
                        PROVE  /\ Honest(v)
                               /\ e.load.status = "fresh" => now < v.fetched + DbTTL + MemTTL
                        <5>1. v.fetched \in Nat
                              BY <4>2 DEF Answer, Value
                        <5>2. QED
                              BY <1>1, <4>2, <5>1, Constants DEF HonestInv, HonestAnswer
                  <4>4. QED
                        BY <4>1, <4>3 DEF HonestAnswer
            <3>2. CASE UNCHANGED answer
                  <4>1. answer[c] = NoAnswer
                        BY <1>2 DEF Request, FlightInv
                  <4>2. QED
                        BY <1>1, <3>2, <4>1
            <3>3. QED
                  BY <1>2, <3>1, <3>2 DEF Request
      <2>3. QED
            BY <1>1, <2>1, <2>2, NothingNew DEF Refreshing
<1>3. ASSUME NEW c \in Clients, Lead(c) PROVE HonestInv'
      <2>1. /\ UNCHANGED <<upstreamVars, row, disk, memory, since, answer, local>>
            /\ \A d \in Clients \ {c} : pc'[d] = pc[d]
            /\ pc'[c] = "lookup"
            /\ \A k \in calls' : k.since = since[c] /\ k.answer = NoAnswer
            BY <1>3 DEF Lead, storeVars, TypeOK
      <2>2. QED
            BY <1>1, <2>1, NothingNew DEF Refreshing
<1>4. ASSUME NEW c \in Clients, Wait(c) PROVE HonestInv'
      <2>1. PICK k \in calls : answer' = [answer EXCEPT ![c] = k.answer] /\ since' = [since EXCEPT ![c] = k.since]
            BY <1>4 DEF Wait
      <2>2. /\ UNCHANGED <<upstreamVars, row, disk, memory, calls, local>>
            /\ \A d \in Clients \ {c} : pc'[d] = pc[d] /\ answer'[d] = answer[d] /\ since'[d] = since[d]
            /\ pc'[c] = "waiting" /\ answer'[c] = k.answer /\ since'[c] = k.since
            BY <1>4, <2>1 DEF Wait, storeVars, processVars, TypeOK
      <2>3. QED
            BY <1>1, <2>1, <2>2, NothingNew DEF Refreshing
<1>5. ASSUME NEW c \in Clients, Receive(c) \/ GiveUp(c) \/ Delete(c) PROVE HonestInv'
      <2>1. /\ UNCHANGED <<upstreamVars, row, disk, memory, since, local>>
            /\ calls' \subseteq calls
            /\ \A d \in Clients \ {c} : pc'[d] = pc[d] /\ answer'[d] = answer[d]
            /\ pc'[c] = "reply"
            /\ answer'[c] = answer[c] \/ \E s : answer'[c] = Refused(s)
            BY <1>5 DEF Receive, GiveUp, Delete, storeVars, processVars, TypeOK
      <2>2. QED
            BY <1>1, <2>1, NothingNew DEF Refreshing
<1>6. ASSUME NEW c \in Clients,
             \/ LookupHit(c) \/ LookupRow(c) \/ UseFreshRow(c) \/ Suppress(c)
             \/ StartRefresh(c) \/ AskFails(c) \/ AskIncremental(c) \/ AskFirst(c)
             \/ AskRest(c) \/ Touch(c) \/ Save(c)
      PROVE  HonestInv'
      BY <1>6, HonestLeader
<1>7. ASSUME NEW c \in Clients, Close(c) PROVE HonestInv'
      <2>1. /\ UNCHANGED <<upstreamVars, row, disk, memory, since, local>>
            /\ \A d \in Clients \ {c} : pc'[d] = pc[d]
            /\ pc'[c] = "delete" /\ pc[c] = "close"
            /\ \A k \in calls' : k.since = since[c] /\ k.answer = answer[c]
            /\ \A d \in Clients : answer'[d] = IF pc[d] = "waiting" /\ answer[d] = NoAnswer
                                               THEN answer[c] ELSE answer[d]
            BY <1>7 DEF Close, storeVars, TypeOK
      <2>2. \A d \in Clients : pc[d] = "waiting" /\ answer[d] = NoAnswer => since[d] = since[c]
            BY <2>1 DEF FlightInv, InFlight
      <2>3. \A d \in Clients : HonestAnswer(answer'[d], since[d])
            BY <1>1, <2>1, <2>2
      <2>4. QED
            BY <1>1, <2>1, <2>3, NothingNew DEF Refreshing
<1>8. ASSUME NEW c \in Clients, Reply(c) PROVE HonestInv'
      <2>1. /\ UNCHANGED <<upstreamVars, row, disk, memory, calls, local>>
            /\ \A d \in Clients \ {c} : pc'[d] = pc[d] /\ answer'[d] = answer[d] /\ since'[d] = since[d]
            /\ pc'[c] = "idle" /\ since'[c] = 0 /\ answer'[c] = NoAnswer
            BY <1>8 DEF Reply, storeVars, processVars, TypeOK
      <2>2. QED
            BY <1>1, <2>1, NothingNew DEF Refreshing
<1>9. ASSUME Tick \/ \E p \in Parts : Change(p) PROVE HonestInv'
      BY <1>9, HonestUpstream
<1>10. ASSUME Restart PROVE HonestInv'
      BY <1>1, <1>10, NothingNew DEF Restart, Refreshing
<1>11. ASSUME \/ Checkpoint \/ SwitchStore \/ Evict \/ SweepBackoff
              \/ \E c \in Clients : Disconnect(c)
              \/ UNCHANGED vars
       PROVE  HonestInv'
      <2>1. /\ UNCHANGED <<upstreamVars, calls, pc, since, local, answer>>
            /\ row' \in {row, {}} /\ disk' \in {row, disk, {}}
            /\ memory' \subseteq memory
            BY <1>11 DEF Checkpoint, SwitchStore, Evict, SweepBackoff, Disconnect,
                         vars, storeVars, processVars, clientVars
      <2>2. QED
            BY <1>1, <2>1, NothingNew
<1>12. QED
      BY <1>2, <1>3, <1>4, <1>5, <1>6, <1>7, <1>8, <1>9, <1>10, <1>11
      DEF Next, Step, Environment

\* The inductive invariant of the module.
LEMMA Inductive == Spec => [](TypeOK /\ FlightInv /\ HonestInv)
<1>1. QED
      BY TypeInit, TypeStep, FlightInit, FlightStep, HonestInit, HonestStep, PTL DEF Spec

\* README.md:97, 24 hours: whatever mix of memory, row, 304, merge, failed refresh,
\* restart and store switch produced an answer without the stale mark, its newest
\* weeks were GitHub's no longer ago than the two TTLs before the request.
THEOREM RecentWeeksStayFresh == Spec => []RecentWeeksAreFresh
<1>1. TypeOK /\ HonestInv => RecentWeeksAreFresh
      <2> SUFFICES ASSUME TypeOK, HonestInv, NEW c \in Clients, Answered(c, "fresh"),
                          NEW v \in answer[c].val
                   PROVE  SeenSince("recent", v.recent, since[c] - DbTTL - MemTTL + 1)
          BY DEF RecentWeeksAreFresh
      <2>1. v \in Value /\ since[c] \in Nat
            BY DEF TypeOK, Answer
      <2>2. Honest(v) /\ since[c] < v.fetched + DbTTL + MemTTL
            BY DEF HonestInv, HonestAnswer, Answered
      <2>3. ASSUME v.recent < Version("recent")
            PROVE  changes["recent"][v.recent + 1] >= since[c] - DbTTL - MemTTL + 1
            <3>1. changes["recent"] \in Seq(Nat)
                  BY DEF TypeOK, Parts
            <3>2. v.recent + 1 \in 1..Len(changes["recent"])
                  BY <2>1, <2>3, <3>1 DEF Version, Value
            <3>3. changes["recent"][v.recent + 1] \in Nat
                  BY <3>1, <3>2
            <3>4. changes["recent"][v.recent + 1] >= v.fetched
                  BY <2>2, <2>3 DEF Honest, SeenSince
            <3>5. QED
                  BY <2>1, <2>2, <3>3, <3>4, Constants DEF Value
      <2>4. QED
            BY <2>3 DEF SeenSince
<1>2. QED
      BY <1>1, Inductive, PTL

\* README.md:97, seven days: the weeks behind page 1 lag GitHub by no more than
\* the full-refresh period on top of the two TTLs.
THEOREM OldWeeksStayRevalidated == Spec => []OldWeeksAreRevalidated
<1>1. TypeOK /\ HonestInv => OldWeeksAreRevalidated
      <2> SUFFICES ASSUME TypeOK, HonestInv, NEW c \in Clients, Answered(c, "fresh"),
                          NEW v \in answer[c].val
                   PROVE  SeenSince("old", v.old, since[c] - FullAfter - DbTTL - MemTTL + 1)
          BY DEF OldWeeksAreRevalidated
      <2>1. v \in Value /\ since[c] \in Nat
            BY DEF TypeOK, Answer
      <2>2. /\ Honest(v) /\ since[c] < v.fetched + DbTTL + MemTTL
            /\ v.fetched < v.full + FullAfter
            BY DEF HonestInv, HonestAnswer, Answered, Honest
      <2>3. ASSUME v.old < Version("old")
            PROVE  changes["old"][v.old + 1] >= since[c] - FullAfter - DbTTL - MemTTL + 1
            <3>1. changes["old"] \in Seq(Nat)
                  BY DEF TypeOK, Parts
            <3>2. v.old + 1 \in 1..Len(changes["old"])
                  BY <2>1, <2>3, <3>1 DEF Version, Value
            <3>3. changes["old"][v.old + 1] \in Nat
                  BY <3>1, <3>2
            <3>4. changes["old"][v.old + 1] >= v.full
                  BY <2>2, <2>3 DEF Honest, SeenSince
            <3>5. QED
                  BY <2>1, <2>2, <3>3, <3>4, Constants DEF Value
      <2>4. QED
            BY <2>3 DEF SeenSince
<1>2. QED
      BY <1>1, Inductive, PTL

------------------------------------------------------------------------------
(* The levels of the cache agree, and the row moves forward.                 *)

\* While the leader is past its second look into memory there is no entry, what it
\* read is no newer than what it writes, and the entry it leaves at the end holds
\* what the row holds, an old one for as long as the backoff window.
CacheInv ==
    /\ \A b, d \in backoff : b = d
    /\ MemoryAgreesWithStore
    /\ StaleEndsWithBackoff
    /\ \A c \in Clients :
          /\ pc[c] \in Refreshing \cup {"decide"} => memory = {}
          /\ pc[c] \in Refreshing =>
                \A v \in local[c].cached : v.fetched <= local[c].now
          /\ pc[c] \in {"rest", "touch", "save"} =>
                \A v \in local[c].cached : v.recent <= local[c].recent

\* One step: no week and no date of the row goes back, unless the process restarts.
RowForward == \A v \in row, w \in row' : Restart \/ NotBefore(w, v)

LEMMA NotBeforeItself == \A v \in Value : NotBefore(v, v)
BY DEF NotBefore, Value

LEMMA CacheInit == Init => CacheInv
BY DEF Init, CacheInv, MemoryAgreesWithStore, StaleEndsWithBackoff, Refreshing

\* Forgetting an entry, a backoff or the row parts nothing.
LEMMA CacheForgets ==
    ASSUME CacheInv, memory' \subseteq memory, row' \in {row, {}}, backoff' \in {backoff, {}},
           \A d \in Clients : pc'[d] \in Refreshing \cup {"decide"} =>
                pc'[d] = pc[d] /\ local'[d] = local[d]
    PROVE  CacheInv'
BY DEF CacheInv, MemoryAgreesWithStore, StaleEndsWithBackoff, Refreshing

\* An entry without the mark that holds what the row holds, and one with the mark
\* that the row is not older than.
LEMMA EntryAgrees ==
    ASSUME NEW v, NEW t,
           \/ memory' = Remember(Fresh(v), t) /\ row' \subseteq {v}
           \/ memory' = Remember(Stale(v), t) /\ \A w \in row' : NotBefore(w, v)
    PROVE  MemoryAgreesWithStore'
<1>1. CASE memory' = Remember(Fresh(v), t) /\ row' \subseteq {v}
      <2>1. \A e \in memory' : e.load.val = {v} /\ e.load.status = "fresh"
            BY <1>1 DEF Remember, Fresh
      <2>2. QED
            BY <1>1, <2>1 DEF MemoryAgreesWithStore
<1>2. CASE memory' = Remember(Stale(v), t) /\ \A w \in row' : NotBefore(w, v)
      <2>1. \A e \in memory' : e.load.val = {v} /\ e.load.status = "stale"
            BY <1>2 DEF Remember, Stale
      <2>2. QED
            BY <1>2, <2>1 DEF MemoryAgreesWithStore
<1>3. QED
      BY <1>1, <1>2

\* The leader goes on: memory stays empty, and what it read stays older than what it
\* will write.
LEMMA CacheGoesOn ==
    ASSUME CacheInv, NEW c \in Clients, memory' = {}, UNCHANGED backoff,
           \A d \in Clients \ {c} : pc'[d] = pc[d] /\ local'[d] = local[d],
           pc'[c] \in Refreshing =>
                \A v \in local'[c].cached : v.fetched <= local'[c].now,
           pc'[c] \in {"rest", "touch", "save"} =>
                \A v \in local'[c].cached : v.recent <= local'[c].recent
    PROVE  CacheInv'
BY DEF CacheInv, MemoryAgreesWithStore, StaleEndsWithBackoff

\* The leader's function returns, and nobody else is refreshing.
LEMMA CacheReturns ==
    ASSUME TypeOK, FlightInv, NEW c \in Clients, pc[c] \in Refreshing \cup {"decide"},
           NEW a, Return(c, a),
           (\A b, d \in backoff : b = d)', MemoryAgreesWithStore', StaleEndsWithBackoff'
    PROVE  CacheInv'
<1>1. \A d \in Clients : pc'[d] \notin Refreshing \cup {"decide"}
      BY DEF TypeOK, FlightInv, OneRefreshAtATime, InFlight, Refreshing, Return
<1>2. QED
      BY <1>1 DEF CacheInv, Refreshing

\* A failure: what was read before is the row or an earlier state of it, and its
\* entry ends with the window.
LEMMA CacheFail ==
    ASSUME TypeOK, FlightInv, CacheInv,
           NEW c \in Clients, pc[c] \in Refreshing, NEW s, Fail(c, s),
           \A v \in local[c].cached, w \in row' : NotBefore(w, v)
    PROVE  CacheInv'
<1> DEFINE until == local[c].now + Window(FailureCount)
<1>1. /\ backoff' = {[failures |-> FailureCount, until |-> until]}
      /\ memory = {}
      BY DEF Fail, CacheInv
<1>2. until \in Nat
      <2>1. Window(FailureCount) \in Nat
            BY FailureCountType, WindowType
      <2>2. QED
            BY <2>1, LocalType
<1> HIDE DEF until
<1>3. ASSUME NEW v \in local[c].cached, memory' = Remember(Stale(v), until), Return(c, Stale(v))
      PROVE  CacheInv'
      <2>1. MemoryAgreesWithStore'
            BY <1>1, <1>3, EntryAgrees
      <2>2. StaleEndsWithBackoff'
            BY <1>1, <1>2, <1>3 DEF StaleEndsWithBackoff, Remember
      <2>3. QED
            BY <1>1, <1>3, <2>1, <2>2, CacheReturns
<1>4. ASSUME Return(c, Refused(s)), UNCHANGED memory PROVE CacheInv'
      <2>1. MemoryAgreesWithStore' /\ StaleEndsWithBackoff'
            BY <1>1, <1>4 DEF MemoryAgreesWithStore, StaleEndsWithBackoff
      <2>2. QED
            BY <1>1, <1>4, <2>1, CacheReturns
<1>5. QED
      BY <1>3, <1>4 DEF Fail, until

\* What the row holds while the leader refreshes is what the leader has read.
LEMMA RowAsRead ==
    ASSUME TypeOK, HonestInv, NEW c \in Clients, pc[c] \in Refreshing
    PROVE  \A v \in local[c].cached, w \in row : NotBefore(w, v)
<1>1. /\ \A v, w \in local[c].cached : v = w
      /\ row \subseteq local[c].cached /\ local[c].cached \subseteq Value
      BY LocalType DEF HonestInv, LeaderInv
<1>2. QED
      BY <1>1, NotBeforeItself

\* A write that fails moves the row forward if it was committed, and not at all if it
\* was not.
LEMMA CacheWriteFails ==
    ASSUME TypeOK, FlightInv, HonestInv, CacheInv,
           NEW c \in Clients, pc[c] \in Refreshing, NEW written, WriteFails(c, written),
           \A v \in local[c].cached, w \in written : NotBefore(w, v)
    PROVE  CacheInv' /\ RowForward
<1>1. \A v \in local[c].cached, w \in row' : NotBefore(w, v)
      BY RowAsRead DEF WriteFails
<1>2. CacheInv'
      BY <1>1, CacheFail DEF WriteFails
<1>3. row \subseteq local[c].cached
      BY DEF HonestInv, LeaderInv
<1>4. QED
      BY <1>1, <1>2, <1>3 DEF RowForward

\* A success leaves the same value in the row, if there is one, and in memory.
LEMMA CacheSucceed ==
    ASSUME TypeOK, FlightInv, NEW c \in Clients, pc[c] \in Refreshing,
           NEW v, Succeed(c, v), row' \subseteq {v}
    PROVE  CacheInv'
<1>1. backoff' = {} /\ memory' = Remember(Fresh(v), local[c].now + MemTTL) /\ Return(c, Fresh(v))
      BY DEF Succeed
<1>2. MemoryAgreesWithStore' /\ StaleEndsWithBackoff'
      BY <1>1, EntryAgrees DEF StaleEndsWithBackoff
<1>3. QED
      BY <1>1, <1>2, CacheReturns

\* The three ways a refresh writes the row.
LEMMA CacheWrites ==
    ASSUME TypeOK, FlightInv, HonestInv, CacheInv, NEW c \in Clients,
           AskRest(c) \/ Touch(c) \/ Save(c)
    PROVE  CacheInv' /\ RowForward
<1>1. /\ pc[c] \in Refreshing /\ row \subseteq Value /\ local[c].cached \subseteq Value
      /\ local[c].now \in Nat /\ local[c].recent \in Nat
      BY LocalType DEF AskRest, Touch, Save, Refreshing, TypeOK
<1>2. /\ \A v, w \in row : v = w
      /\ \A v, w \in local[c].cached : v = w
      /\ row \subseteq local[c].cached
      /\ \A v \in local[c].cached : Honest(v) /\ v.fetched <= local[c].now
      /\ pc[c] \in {"rest", "touch", "save"} =>
            \A v \in local[c].cached : v.recent <= local[c].recent
      BY <1>1 DEF HonestInv, LeaderInv, CacheInv
<1>3. \A v \in Value : v.recent \in Nat /\ v.old \in Nat /\ v.fetched \in Nat /\ v.full \in Nat
      BY DEF Value
<1>5. ASSUME NEW u, NEW written, written \subseteq {u},
             \A v \in local[c].cached : NotBefore(u, v),
             WriteFails(c, written) \/ (row' = written /\ Succeed(c, u))
      PROVE  CacheInv' /\ RowForward
      <2>1. CASE WriteFails(c, written)
            BY <1>1, <1>5, <2>1, CacheWriteFails
      <2>2. CASE row' = written /\ Succeed(c, u)
            BY <1>1, <1>2, <1>5, <2>2, CacheSucceed DEF RowForward
      <2>3. QED
            BY <1>5, <2>1, <2>2
<1>6. CASE AskRest(c)
      <2> DEFINE u == [recent |-> local[c].recent, old |-> Version("old"),
                       fetched |-> local[c].now, full |-> local[c].now]
      <2>1. /\ u.recent = local[c].recent /\ u.old = Version("old")
            /\ u.fetched = local[c].now /\ u.full = local[c].now
            OBVIOUS
      <2>2. WriteFails(c, {u}) \/ (row' = {u} /\ Succeed(c, u))
            BY <1>6 DEF AskRest
      <2> HIDE DEF u
      <2>3. Version("old") \in Nat /\ now \in Nat
            BY DEF Version, TypeOK, Parts
      <2>4. ASSUME NEW v \in local[c].cached PROVE NotBefore(u, v)
            <3>1. /\ v.recent <= local[c].recent /\ v.fetched <= local[c].now
                  /\ v.old <= Version("old") /\ v.full <= v.fetched
                  BY <1>2, <1>6 DEF AskRest, Honest
            <3>2. v.recent \in Nat /\ v.old \in Nat /\ v.fetched \in Nat /\ v.full \in Nat
                  BY <1>1, <1>3
            <3>3. QED
                  BY <1>1, <2>1, <2>3, <3>1, <3>2 DEF NotBefore
      <2>5. QED
            BY <1>5, <2>2, <2>4
<1>7. CASE Touch(c)
      <2> DEFINE touched == {[w EXCEPT !.fetched = local[c].now] : w \in row}
      <2>1. \/ WriteFails(c, touched)
            \/ \E v \in local[c].cached : row' = touched /\ Succeed(c, [v EXCEPT !.fetched = local[c].now])
            BY <1>7 DEF Touch
      <2>2. CASE local[c].cached = {}
            <3>1. touched = {} /\ WriteFails(c, touched)
                  BY <1>2, <2>1, <2>2
            <3> HIDE DEF touched
            <3>2. QED
                  BY <1>1, <2>2, <3>1, CacheWriteFails
      <2>3. ASSUME NEW v \in local[c].cached
            PROVE  CacheInv' /\ RowForward
            <3> DEFINE u == [v EXCEPT !.fetched = local[c].now]
            <3>1. u.recent = v.recent /\ u.old = v.old /\ u.fetched = local[c].now /\ u.full = v.full
                  BY <1>1 DEF Value
            <3>2. touched \subseteq {u}
                  BY <1>2
            <3>3. WriteFails(c, touched) \/ (row' = touched /\ Succeed(c, u))
                  BY <1>2, <2>1
            <3> HIDE DEF u, touched
            <3>4. v.recent \in Nat /\ v.old \in Nat /\ v.fetched \in Nat /\ v.full \in Nat
                  BY <1>1, <1>3
            <3>5. NotBefore(u, v)
                  BY <1>1, <1>2, <3>1, <3>4 DEF NotBefore
            <3>6. \A w \in local[c].cached : NotBefore(u, w)
                  BY <1>2, <3>5
            <3>7. QED
                  BY <1>5, <3>2, <3>3, <3>6
      <2>4. QED
            BY <2>2, <2>3
<1>8. CASE Save(c)
      <2>1. ASSUME NEW v \in local[c].cached, NEW u,
                   u = [v EXCEPT !.recent = local[c].recent, !.fetched = local[c].now],
                   WriteFails(c, {u}) \/ (row' = {u} /\ Succeed(c, u))
            PROVE  CacheInv' /\ RowForward
            <3>1. /\ u.recent = local[c].recent /\ u.old = v.old
                  /\ u.fetched = local[c].now /\ u.full = v.full
                  BY <1>1, <2>1 DEF Value
            <3>2. \A w \in local[c].cached : w = v
                  BY <1>2
            <3>3. v.recent \in Nat /\ v.old \in Nat /\ v.fetched \in Nat /\ v.full \in Nat
                  BY <1>1, <1>3
            <3>4. v.recent <= local[c].recent /\ v.fetched <= local[c].now
                  BY <1>2, <1>8 DEF Save
            <3>5. NotBefore(u, v)
                  BY <1>1, <3>1, <3>3, <3>4 DEF NotBefore
            <3>6. QED
                  BY <1>5, <2>1, <3>2, <3>5
      <2>2. QED
            BY <1>8, <2>1 DEF Save
<1>9. QED
      BY <1>6, <1>7, <1>8

\* The other steps of a leader leave the row alone.
LEMMA CacheLeader ==
    ASSUME TypeOK, FlightInv, HonestInv, CacheInv, NEW c \in Clients,
           \/ LookupRow(c) \/ UseFreshRow(c) \/ Suppress(c) \/ StartRefresh(c)
           \/ AskFails(c) \/ AskIncremental(c) \/ AskFirst(c)
    PROVE  CacheInv' /\ UNCHANGED row
<1> USE DEF processVars, storeVars
<1>1. /\ local[c] \in Local /\ local[c].cached \subseteq Value /\ now \in Nat
      /\ Version("recent") \in Nat
      BY LocalType DEF TypeOK, Version, Parts
<1>2. CASE LookupRow(c)
      <2>1. memory' = {} /\ UNCHANGED <<row, backoff>>
            BY <1>2 DEF LookupRow
      <2>2. CASE Return(c, Refused("error"))
            BY <2>1, <2>2, CacheForgets DEF Return, TypeOK, Refreshing
      <2>3. CASE /\ local' = [local EXCEPT ![c].cached = row]
                 /\ pc' = [pc EXCEPT ![c] = "decide"]
            <3>1. pc'[c] = "decide" /\ \A d \in Clients \ {c} : pc'[d] = pc[d] /\ local'[d] = local[d]
                  BY <2>3 DEF TypeOK
            <3>2. QED
                  BY <2>1, <3>1, CacheGoesOn DEF Refreshing
      <2>4. QED
            BY <1>2, <2>1, <2>2, <2>3 DEF LookupRow
<1>3. CASE UseFreshRow(c)
      <2>1. PICK v \in local[c].cached :
                memory' = Remember(Fresh(v), now + MemTTL) /\ Return(c, Fresh(v))
            BY <1>3 DEF UseFreshRow
      <2>2. /\ pc[c] = "decide" /\ UNCHANGED <<row, backoff>> /\ row \subseteq {v}
            /\ \A b, d \in backoff : b = d
            BY <1>3 DEF UseFreshRow, HonestInv, LeaderInv, CacheInv
      <2>3. MemoryAgreesWithStore' /\ StaleEndsWithBackoff'
            <3>1. row' \subseteq {v}
                  BY <2>2
            <3>2. MemoryAgreesWithStore'
                  BY <2>1, <3>1, EntryAgrees
            <3>3. StaleEndsWithBackoff'
                  BY <2>1 DEF StaleEndsWithBackoff, Remember, Fresh
            <3>4. QED
                  BY <3>2, <3>3
      <2>4. QED
            BY <2>1, <2>2, <2>3, CacheReturns
<1>4. CASE Suppress(c)
      <2>1. /\ pc[c] = "decide" /\ UNCHANGED <<row, backoff>> /\ memory = {}
            /\ \A b, d \in backoff : b = d
            /\ row \subseteq local[c].cached /\ \A v, w \in local[c].cached : v = w
            BY <1>4 DEF Suppress, HonestInv, LeaderInv, CacheInv
      <2>5. \A v \in local[c].cached, w \in row : NotBefore(w, v)
            BY <1>1, <2>1, NotBeforeItself
      <2>2. ASSUME NEW b \in Blocking, NEW v \in local[c].cached,
                   memory' = Remember(Stale(v), b.until), Return(c, Stale(v))
            PROVE  CacheInv'
            <3>1. b \in backoff /\ b.until \in Nat
                  BY DEF Blocking, TypeOK
            <3>2. MemoryAgreesWithStore'
                  BY <2>1, <2>2, <2>5, EntryAgrees
            <3>3. StaleEndsWithBackoff'
                  BY <2>1, <2>2, <3>1 DEF StaleEndsWithBackoff, Remember
            <3>4. QED
                  BY <2>1, <2>2, <3>2, <3>3, CacheReturns
      <2>3. ASSUME Return(c, Refused("busy")), UNCHANGED memory PROVE CacheInv'
            <3>1. MemoryAgreesWithStore' /\ StaleEndsWithBackoff'
                  BY <2>1, <2>3 DEF MemoryAgreesWithStore, StaleEndsWithBackoff
            <3>2. QED
                  BY <2>1, <2>3, <3>1, CacheReturns
      <2>4. QED
            BY <1>4, <2>1, <2>2, <2>3 DEF Suppress
<1>5. CASE StartRefresh(c)
      <2>1. /\ pc[c] = "decide" /\ UNCHANGED <<row, backoff, memory>>
            /\ local' = [local EXCEPT ![c].now = now]
            /\ pc'[c] \in {"incremental", "first"}
            /\ \A d \in Clients \ {c} : pc'[d] = pc[d] /\ local'[d] = local[d]
            BY <1>5 DEF StartRefresh, TypeOK
      <2>2. local'[c].now = now /\ local'[c].cached = local[c].cached
            BY <1>1, <2>1 DEF TypeOK, Local
      <2>3. memory = {} /\ \A v \in local[c].cached : v.fetched <= now
            BY <2>1 DEF CacheInv, HonestInv, Honest
      <2>4. QED
            BY <2>1, <2>2, <2>3, CacheGoesOn
<1>6. CASE AskFails(c)
      <2>1. pc[c] \in Refreshing /\ UNCHANGED row /\ \E s : Fail(c, s)
            BY <1>6 DEF AskFails, Refreshing
      <2>2. QED
            BY <2>1, RowAsRead, CacheFail
<1>7. CASE AskIncremental(c) \/ AskFirst(c)
      <2>1. /\ pc[c] \in {"incremental", "first"} /\ UNCHANGED <<row, backoff, memory>>
            /\ local' = [local EXCEPT ![c].recent = Version("recent")]
            /\ pc'[c] \in {"touch", "save", "rest"}
            /\ \A d \in Clients \ {c} : pc'[d] = pc[d] /\ local'[d] = local[d]
            BY <1>7 DEF AskIncremental, AskFirst, TypeOK
      <2>2. /\ local'[c].recent = Version("recent") /\ local'[c].cached = local[c].cached
            /\ local'[c].now = local[c].now
            BY <1>1, <2>1 DEF TypeOK, Local
      <2>3. memory = {} /\ \A v \in local[c].cached : v.fetched <= local[c].now /\ v.recent <= Version("recent")
            BY <2>1 DEF CacheInv, HonestInv, Honest, Refreshing
      <2>4. QED
            BY <2>1, <2>2, <2>3, CacheGoesOn
<1>8. QED
      BY <1>2, <1>3, <1>4, <1>5, <1>6, <1>7

LEMMA CacheStep ==
    ASSUME TypeOK, FlightInv, HonestInv, CacheInv, [Next]_vars
    PROVE  CacheInv' /\ RowForward
<1> USE DEF processVars, storeVars, clientVars, upstreamVars
<1>1. ASSUME row' \in {row, {}} PROVE RowForward
      BY <1>1, NotBeforeItself DEF RowForward, HonestInv, TypeOK
<1>2. ASSUME NEW c \in Clients,
             \/ LookupRow(c) \/ UseFreshRow(c) \/ Suppress(c) \/ StartRefresh(c)
             \/ AskFails(c) \/ AskIncremental(c) \/ AskFirst(c)
             \/ AskRest(c) \/ Touch(c) \/ Save(c)
      PROVE  CacheInv' /\ RowForward
      BY <1>1, <1>2, CacheLeader, CacheWrites
<1>3. ASSUME NEW c \in Clients,
             \/ Request(c) \/ Lead(c) \/ Wait(c) \/ Receive(c) \/ GiveUp(c)
             \/ LookupHit(c) \/ Close(c) \/ Delete(c) \/ Reply(c)
      PROVE  CacheInv' /\ RowForward
      <2>1. memory' \subseteq memory /\ UNCHANGED <<row, backoff>>
            BY <1>3 DEF Request, Lead, Wait, Receive, GiveUp, LookupHit, Close, Delete, Reply, Live
      <2>2. \A d \in Clients : pc'[d] \in Refreshing \cup {"decide"} =>
                pc'[d] = pc[d] /\ local'[d] = local[d]
            BY <1>3 DEF Request, Lead, Wait, Receive, GiveUp, LookupHit, Return, Close, Delete, Reply,
                        TypeOK, Refreshing
      <2>3. QED
            BY <1>1, <2>1, <2>2, CacheForgets
<1>4. CASE Restart
      <2>1. CacheInv'
            BY <1>4 DEF Restart, CacheInv, MemoryAgreesWithStore, StaleEndsWithBackoff, Refreshing
      <2>2. QED
            BY <1>4, <2>1 DEF RowForward
<1>5. CASE \/ Tick \/ (\E p \in Parts : Change(p)) \/ (\E c \in Clients : Disconnect(c))
           \/ Checkpoint \/ SwitchStore \/ Evict \/ SweepBackoff \/ UNCHANGED vars
      <2>1. /\ memory' \subseteq memory /\ row' \in {row, {}} /\ backoff' \in {backoff, {}}
            /\ UNCHANGED <<pc, local>>
            BY <1>5 DEF Tick, Change, Disconnect, Checkpoint, SwitchStore, Evict, SweepBackoff, vars
      <2>2. QED
            BY <1>1, <2>1, CacheForgets
<1>6. QED
      BY <1>2, <1>3, <1>4, <1>5 DEF Next, Step, Environment

\* The whole invariant of the module.
LEMMA InductiveCache == Spec => [](TypeOK /\ FlightInv /\ HonestInv /\ CacheInv)
<1>1. TypeOK /\ FlightInv /\ HonestInv /\ CacheInv /\ [Next]_vars => CacheInv'
      BY CacheStep
<1>2. QED
      BY <1>1, Inductive, CacheInit, PTL DEF Spec

\* loadOfficialHistory writes memory only after the row: through failures, restarts and
\* store switches the two levels of the cache hold the same history, except that a
\* stale entry may be an earlier state of a row whose write failed after its commit.
THEOREM CacheLevelsAgree == Spec => []MemoryAgreesWithStore
<1>1. CacheInv => MemoryAgreesWithStore
      BY DEF CacheInv
<1>2. QED
      BY <1>1, InductiveCache, PTL

\* official_history.go:237-243: an old curve leaves memory no later than the backoff
\* window ends that justified it.
THEOREM StaleGoesWithBackoff == Spec => []StaleEndsWithBackoff
<1>1. CacheInv => StaleEndsWithBackoff
      BY DEF CacheInv
<1>2. QED
      BY <1>1, InductiveCache, PTL

\* refreshOfficialHistory: within a life of the process no step puts older weeks or
\* an older date into the row.
THEOREM RowMovesForward == Spec => RowNeverGoesBack
<1>1. TypeOK /\ FlightInv /\ HonestInv /\ CacheInv /\ [Next]_vars => [RowForward]_vars
      BY CacheStep
<1>2. Spec => [][RowForward]_vars
      BY <1>1, InductiveCache, PTL DEF Spec
<1>3. QED
      BY <1>2 DEF RowNeverGoesBack, RowForward
==============================================================================
