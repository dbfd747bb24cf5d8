----------------------------- MODULE ServingProofs -----------------------------
(***************************************************************************)
(* Proofs about Serving, for any requests, any size of the pool and any    *)
(* number of outages: the metrics are exact, and a pod that drained and     *)
(* left the rotation does not come back.                                   *)
(***************************************************************************)
EXTENDS Serving, FiniteSetTheorems, TLAPS

\* A handler that runs has codes left to try, a reply has a status to be counted,
\* and a request that panicked is over.
Progress ==
    \A r \in Request :
        /\ request[r] \in {"new", "acquire", "query"} => attempt[r] < MaxAttempts
        /\ request[r] \in {"observe", "leave", "ended"} => status[r] \in Status
        /\ request[r] = "reply" => status[r] \in Status
        /\ r \in recovered => request[r] = "ended"

IInv == TypeOK /\ Progress /\ InFlightExact /\ TotalExact

--------------------------------------------------------------------------------
(* Finite sets of requests, and what a step of one of them changes.        *)

LEMMA FiniteRequests ==
    ASSUME NEW S \in SUBSET Request
    PROVE  IsFiniteSet(S) /\ Cardinality(S) \in Nat
BY ServingAssumption, FS_Subset, FS_CardinalityType

LEMMA OneMore ==
    ASSUME NEW S \in SUBSET Request, NEW r \in Request, r \notin S
    PROVE  Cardinality(S \cup {r}) = Cardinality(S) + 1
BY FiniteRequests, FS_AddElement

LEMMA OneLess ==
    ASSUME NEW S \in SUBSET Request, NEW r \in S
    PROVE  Cardinality(S \ {r}) = Cardinality(S) - 1
BY FiniteRequests, FS_RemoveElement

LEMMA ConnsType ==
    /\ Cardinality(Querying) \in Nat
    /\ Conns \in Nat
BY FiniteRequests DEF Querying, Conns

\* A request that begins its query takes a connection, one that ends it returns it.
LEMMA QueryingMoves ==
    ASSUME TypeOK, NEW r \in Request, NEW from, NEW to, Goes(r, from, to), from # to
    PROVE  Cardinality(Querying') =
               IF to = "query" THEN Cardinality(Querying) + 1
               ELSE IF from = "query" THEN Cardinality(Querying) - 1
               ELSE Cardinality(Querying)
<1>1. CASE to = "query"
    <2>1. Querying' = Querying \cup {r} /\ r \notin Querying
        BY <1>1 DEF TypeOK, Goes, Querying
    <2> QED
        BY <1>1, <2>1, OneMore DEF Querying
<1>2. CASE to # "query" /\ from = "query"
    <2>1. Querying' = Querying \ {r} /\ r \in Querying
        BY <1>2 DEF TypeOK, Goes, Querying
    <2> QED
        BY <1>2, <2>1, OneLess DEF Querying
<1>3. CASE to # "query" /\ from # "query"
    <2>1. Querying' = Querying
        BY <1>3 DEF TypeOK, Goes, Querying
    <2> QED
        BY <1>3, <2>1
<1> QED
    BY <1>1, <1>2, <1>3

\* The same for the requests that Instrument has counted in.
LEMMA InstrumentedMoves ==
    ASSUME TypeOK, NEW r \in Request, NEW from, NEW to, Goes(r, from, to)
    PROVE  Cardinality(Instrumented') =
               IF to \in Counted /\ from \notin Counted THEN Cardinality(Instrumented) + 1
               ELSE IF to \notin Counted /\ from \in Counted
                    THEN Cardinality(Instrumented) - 1
               ELSE Cardinality(Instrumented)
<1>1. CASE to \in Counted /\ from \notin Counted
    <2>1. Instrumented' = Instrumented \cup {r} /\ r \notin Instrumented
        BY <1>1 DEF TypeOK, Goes, Instrumented, Counted
    <2> QED
        BY <1>1, <2>1, OneMore DEF Instrumented
<1>2. CASE to \notin Counted /\ from \in Counted
    <2>1. Instrumented' = Instrumented \ {r} /\ r \in Instrumented
        BY <1>2 DEF TypeOK, Goes, Instrumented, Counted
    <2> QED
        BY <1>2, <2>1, OneLess DEF Instrumented
<1>3. CASE to \in Counted <=> from \in Counted
    <2>1. Instrumented' = Instrumented
        BY <1>3 DEF TypeOK, Goes, Instrumented, Counted
    <2> QED
        BY <1>3, <2>1
<1> QED
    BY <1>1, <1>2, <1>3

--------------------------------------------------------------------------------
(* Initially.                                                              *)

LEMMA InitIInv == Init => IInv
<1> SUFFICES ASSUME Init PROVE IInv
    OBVIOUS
<1>1. Querying = {} /\ Instrumented = {} /\ \A s \in Status : Observed(s) = {}
    BY DEF Init, Querying, Instrumented, Observed, Counted
<1>2. Cardinality({}) = 0
    BY FS_EmptySet
<1>3. Conns = 0
    BY <1>1, <1>2 DEF Init, Conns
<1>4. TypeOK
    <2>1. Conns <= MaxConns
        BY <1>3, ServingAssumption
    <2>2. /\ attempt \in [Request -> 0..MaxAttempts]
          /\ inFlight \in Nat /\ total \in [Status -> Nat]
          /\ outages \in 0..MaxOutages
        BY ServingAssumption DEF Init
    <2> QED
        BY <2>1, <2>2 DEF Init, TypeOK
<1>5. Progress
    BY ServingAssumption DEF Init, Progress
<1>6. InFlightExact /\ TotalExact
    BY <1>1, <1>2 DEF Init, InFlightExact, TotalExact
<1> QED
    BY <1>4, <1>5, <1>6 DEF IInv

--------------------------------------------------------------------------------
(* A handler between its entry and its reply.                              *)

LEMMA ConnsMoves ==
    ASSUME TypeOK, NEW r \in Request, NEW from, NEW to, Goes(r, from, to), from # to,
           UNCHANGED <<flush, probe>>
    PROVE  Conns' = IF to = "query" THEN Conns + 1
                    ELSE IF from = "query" THEN Conns - 1
                    ELSE Conns
BY QueryingMoves, ConnsType DEF Conns, TypeOK

\* Where no reply is counted yet, none is affected.
LEMMA ObservedStays ==
    ASSUME TypeOK, NEW r \in Request, NEW from, NEW to, Goes(r, from, to),
           {from, to} \cap {"leave", "ended"} = {},
           UNCHANGED recovered,
           \A q \in Request \ {r} : status'[q] = status[q],
           NEW s \in Status
    PROVE  Observed(s)' = Observed(s)
BY DEF TypeOK, Goes, Observed

Handling == {"new", "acquire", "query", "reply"}

\* What Enter and the handlers have in common: a step towards the reply that counts
\* nothing but the entry.
LEMMA HandlingStep ==
    ASSUME IInv, NEW r \in Request, NEW from \in Handling \ {"reply"}, NEW to \in Handling \ {"new"},
           Goes(r, from, to), from # to,
           to = "query" => FreeConn,
           \/ UNCHANGED status /\ to # "reply"
           \/ \E s \in Status : Replies(r, s),
           \/ UNCHANGED attempt
           \/ /\ attempt' = [attempt EXCEPT ![r] = @ + 1]
              /\ attempt[r] < MaxAttempts
              /\ to # "reply" => attempt[r] + 1 < MaxAttempts,
           inFlight' = IF from = "new" THEN inFlight + 1 ELSE inFlight,
           UNCHANGED <<service, gone, recovered, total, flush, readiness, db>>
    PROVE  IInv'
<1> USE DEF IInv
<1>1. Conns' <= MaxConns
    <2>1. Conns \in Nat /\ Conns <= MaxConns
        BY ConnsType DEF TypeOK
    <2>2. to = "query" => Conns < MaxConns
        BY DEF FreeConn
    <2>3. Conns' = IF to = "query" THEN Conns + 1
                   ELSE IF from = "query" THEN Conns - 1 ELSE Conns
        BY ConnsMoves DEF readiness
    <2> QED
        BY <2>1, <2>2, <2>3, ServingAssumption
<1>2. attempt' \in [Request -> 0..MaxAttempts]
    BY ServingAssumption DEF TypeOK
<1>3. /\ request' = [request EXCEPT ![r] = to]
      /\ request' \in [Request -> {"new", "ended"} \cup Counted]
    BY DEF TypeOK, Goes, Handling, Counted
<1>4. status' \in [Request -> {"none"} \cup Status]
    BY DEF TypeOK, Replies
<1>5. inFlight' \in Nat
    BY DEF TypeOK
<1>6. TypeOK'
    BY <1>1, <1>2, <1>3, <1>4, <1>5 DEF TypeOK, readiness, db
<1>7. Progress'
    <2> SUFFICES ASSUME NEW q \in Request
                 PROVE  /\ request'[q] \in {"new", "acquire", "query"} =>
                               attempt'[q] < MaxAttempts
                        /\ request'[q] \in {"observe", "leave", "ended"} =>
                               status'[q] \in Status
                        /\ request'[q] = "reply" => status'[q] \in Status
                        /\ q \in recovered' => request'[q] = "ended"
        BY DEF Progress
    <2>1. CASE q # r
        BY <2>1, <1>3 DEF TypeOK, Progress, Replies
    <2>2. CASE q = r
        <3>1. request[r] = from /\ request'[r] = to /\ r \notin recovered
            BY <1>3 DEF TypeOK, Goes, Progress, Handling
        <3>2. to # "reply" => attempt'[r] < MaxAttempts
            BY <3>1, ServingAssumption DEF TypeOK, Progress, Handling
        <3>3. to = "reply" => status'[r] \in Status
            BY DEF TypeOK, Replies
        <3> QED
            BY <2>2, <3>1, <3>2, <3>3 DEF Handling
    <2> QED
        BY <2>1, <2>2
<1>8. InFlightExact'
    <2>1. to \in Counted /\ (from \in Counted <=> from # "new")
        BY DEF Handling, Counted
    <2>2. Cardinality(Instrumented') =
              IF from = "new" THEN Cardinality(Instrumented) + 1
              ELSE Cardinality(Instrumented)
        BY <2>1, InstrumentedMoves
    <2> QED
        BY <2>2 DEF InFlightExact
<1>9. TotalExact'
    <2>1. \A s \in Status : Observed(s)' = Observed(s)
        BY ObservedStays DEF Handling, Replies, TypeOK
    <2> QED
        BY <2>1 DEF TotalExact
<1> QED
    BY <1>6, <1>7, <1>8, <1>9

LEMMA HandlerSteps ==
    ASSUME IInv, NEW r \in Request,
           \/ Enter(r) \/ Acquire(r) \/ AcquireFails(r)
           \/ Found(r) \/ NoRows(r) \/ Collision(r) \/ QueryFails(r)
    PROVE  IInv'
<1> USE DEF Handling, Status, handlerRest, metrics
<1>1. CASE Enter(r)
    BY <1>1, HandlingStep DEF Enter
<1>2. CASE Acquire(r)
    BY <1>2, HandlingStep DEF Acquire
<1>3. CASE AcquireFails(r)
    BY <1>3, HandlingStep DEF AcquireFails
<1>4. CASE Found(r)
    BY <1>4, HandlingStep DEF Found
<1>5. CASE NoRows(r)
    BY <1>5, HandlingStep DEF NoRows
<1>6. CASE Collision(r)
    <2>1. attempt[r] < MaxAttempts
        BY <1>6 DEF Collision, Goes, IInv, Progress
    <2>2. CASE /\ attempt[r] + 1 < MaxAttempts
               /\ Goes(r, "query", "acquire") /\ UNCHANGED status
        BY <1>6, <2>1, <2>2, HandlingStep DEF Collision
    <2>3. CASE Goes(r, "query", "reply") /\ Replies(r, "failed")
        BY <1>6, <2>1, <2>3, HandlingStep DEF Collision
    <2> QED
        BY <1>6, <2>2, <2>3 DEF Collision
<1>7. CASE QueryFails(r)
    BY <1>7, HandlingStep DEF QueryFails
<1> QED
    BY <1>1, <1>2, <1>3, <1>4, <1>5, <1>6, <1>7

--------------------------------------------------------------------------------
(* Instrument and Recovery.                                                *)

\* A step of a request past its handler holds no connection, and moves none.
LEMMA AfterHandler ==
    ASSUME TypeOK, NEW r \in Request, NEW from, NEW to, Goes(r, from, to), from # to,
           from # "query", to \in {"observe", "leave", "ended"},
           UNCHANGED <<flush, probe>>
    PROVE  /\ Conns' = Conns
           /\ request' \in [Request -> {"new", "ended"} \cup Counted]
<1>1. Conns' = Conns
    BY ConnsMoves
<1>2. request' \in [Request -> {"new", "ended"} \cup Counted]
    BY DEF TypeOK, Goes, Counted
<1> QED
    BY <1>1, <1>2

LEMMA ReplyStep ==
    ASSUME IInv, NEW r \in Request, Reply(r)
    PROVE  IInv'
<1> USE DEF IInv, Reply, metrics
<1>1. TypeOK'
    <2>1. /\ Conns' = Conns
          /\ request' \in [Request -> {"new", "ended"} \cup Counted]
        BY AfterHandler DEF readiness
    <2>2. attempt' \in [Request -> 0..MaxAttempts]
        BY ServingAssumption DEF TypeOK, Over
    <2> QED
        BY <2>1, <2>2 DEF TypeOK, Over, readiness, db
<1>2. Progress'
    BY ServingAssumption DEF TypeOK, Progress, Goes, Over
<1>3. InFlightExact'
    BY InstrumentedMoves DEF InFlightExact, Counted
<1>4. TotalExact'
    <2>1. \A s \in Status : Observed(s)' = Observed(s)
        BY ObservedStays
    <2> QED
        BY <2>1 DEF TotalExact
<1> QED
    BY <1>1, <1>2, <1>3, <1>4

LEMMA InstrumentedCounts ==
    ASSUME IInv, NEW r \in Request, request[r] \in Counted
    PROVE  inFlight \in Nat /\ inFlight > 0
<1>1. Instrumented \in SUBSET Request /\ r \in Instrumented
    BY DEF Instrumented
<1>2. Cardinality(Instrumented) # 0 /\ Cardinality(Instrumented) \in Nat
    BY <1>1, FiniteRequests, FS_EmptySet
<1> QED
    BY <1>2 DEF IInv, InFlightExact

LEMMA PanicStep ==
    ASSUME IInv, NEW r \in Request, Panic(r)
    PROVE  IInv'
<1> USE DEF IInv, Panic
<1>1. inFlight \in Nat /\ inFlight > 0
    BY InstrumentedCounts DEF Goes, Counted
<1>2. TypeOK'
    <2>1. /\ Conns' = Conns
          /\ request' \in [Request -> {"new", "ended"} \cup Counted]
        BY AfterHandler DEF readiness
    <2>2. attempt' \in [Request -> 0..MaxAttempts]
        BY ServingAssumption DEF TypeOK, Over
    <2>3. inFlight' \in Nat
        BY <1>1 DEF DecDeferred
    <2>4. status' \in [Request -> {"none"} \cup Status]
        BY DEF TypeOK, Replies, Status
    <2> QED
        BY <2>1, <2>2, <2>3, <2>4 DEF TypeOK, Over, readiness, db
<1>3. Progress'
    BY ServingAssumption DEF TypeOK, Progress, Goes, Over, Replies, Status
<1>4. InFlightExact'
    <2>1. Cardinality(Instrumented') = Cardinality(Instrumented) - 1
        BY InstrumentedMoves DEF Counted
    <2> QED
        BY <2>1 DEF InFlightExact, DecDeferred
<1>5. TotalExact'
    <2>1. \A s \in Status : Observed(s)' = Observed(s)
        BY DEF TypeOK, Goes, Observed, Replies
    <2> QED
        BY <2>1 DEF TotalExact
<1> QED
    BY <1>2, <1>3, <1>4, <1>5

LEMMA ObserveStep ==
    ASSUME IInv, NEW r \in Request, Observe(r)
    PROVE  IInv'
<1> USE DEF IInv, Observe, StatusCounted
<1>1. status[r] \in Status
    BY DEF Goes, Progress
<1>2. TypeOK'
    <2>1. /\ Conns' = Conns
          /\ request' \in [Request -> {"new", "ended"} \cup Counted]
        BY AfterHandler DEF readiness
    <2>2. total' \in [Status -> Nat]
        BY <1>1 DEF TypeOK
    <2> QED
        BY <2>1, <2>2 DEF TypeOK, readiness, db
<1>3. Progress'
    BY DEF TypeOK, Progress, Goes
<1>4. InFlightExact'
    BY InstrumentedMoves DEF InFlightExact, Counted
<1>5. TotalExact'
    <2> SUFFICES ASSUME NEW s \in Status PROVE total'[s] = Cardinality(Observed(s)')
        BY DEF TotalExact
    <2>1. total[s] = Cardinality(Observed(s))
        BY DEF TotalExact
    <2>2. CASE s = status[r]
        <3>1. r \notin Observed(s) /\ Observed(s) \in SUBSET Request
            BY DEF Observed, Goes
        <3>2. Observed(s)' = Observed(s) \cup {r}
            BY <2>2 DEF TypeOK, Observed, Goes, Progress
        <3>3. Cardinality(Observed(s)') = Cardinality(Observed(s)) + 1
            BY <3>1, <3>2, OneMore
        <3> QED
            BY <2>1, <2>2, <3>3 DEF TypeOK
    <2>3. CASE s # status[r]
        <3>1. Observed(s)' = Observed(s)
            BY <2>3 DEF TypeOK, Observed, Goes
        <3> QED
            BY <2>1, <2>3, <3>1, <1>1 DEF TypeOK
    <2> QED
        BY <2>2, <2>3
<1> QED
    BY <1>2, <1>3, <1>4, <1>5

LEMMA LeaveStep ==
    ASSUME IInv, NEW r \in Request, Leave(r)
    PROVE  IInv'
<1> USE DEF IInv, Leave
<1>1. inFlight \in Nat /\ inFlight > 0
    BY InstrumentedCounts DEF Goes, Counted
<1>2. TypeOK'
    <2>1. /\ Conns' = Conns
          /\ request' \in [Request -> {"new", "ended"} \cup Counted]
        BY AfterHandler DEF readiness
    <2>2. inFlight' \in Nat
        BY <1>1
    <2> QED
        BY <2>1, <2>2 DEF TypeOK, readiness, db
<1>3. Progress'
    BY DEF TypeOK, Progress, Goes
<1>4. InFlightExact'
    <2>1. Cardinality(Instrumented') = Cardinality(Instrumented) - 1
        BY InstrumentedMoves DEF Counted
    <2> QED
        BY <2>1 DEF InFlightExact
<1>5. TotalExact'
    <2>1. \A s \in Status : Observed(s)' = Observed(s)
        BY DEF TypeOK, Goes, Observed
    <2> QED
        BY <2>1 DEF TotalExact
<1> QED
    BY <1>2, <1>3, <1>4, <1>5

--------------------------------------------------------------------------------
(* Everything that leaves the requests where they are.                     *)

LEMMA OtherSteps ==
    ASSUME IInv,
           \/ FlushBegins \/ FlushAcquires \/ FlushEnds
           \/ Probe \/ Drain
           \/ \E r \in Request : GiveUp(r)
           \/ Outage \/ Return
           \/ UNCHANGED vars
    PROVE  IInv'
<1> USE DEF IInv
<1>1. UNCHANGED <<service, request, attempt, status, recovered, inFlight, total>>
    BY DEF FlushBegins, FlushAcquires, FlushEnds, flushRest,
           Probe, ProbeBegins, PingAcquires, PingSucceeds, PingFails, PingTimesOut,
           probeRest, Drain, GiveUp, Outage, Return, vars, requests, metrics
<1>2. /\ Querying' = Querying /\ Instrumented' = Instrumented
      /\ \A s \in Status : Observed(s)' = Observed(s)
    BY <1>1 DEF Querying, Instrumented, Observed
<1>3. Conns' <= MaxConns /\ flush' \in {"idle", "acquire", "query"}
                         /\ probe' \in {"idle", "acquire", "ping"}
    <2>1. /\ Conns \in Nat /\ Conns <= MaxConns
          /\ Cardinality(Querying) \in Nat
        BY ConnsType DEF TypeOK
    <2>2. CASE FlushBegins \/ FlushAcquires \/ FlushEnds
        BY <1>2, <2>1, <2>2, ServingAssumption
        DEF FlushBegins, FlushAcquires, FlushEnds, flushRest, readiness, FreeConn,
            Conns, TypeOK
    <2>3. CASE Probe
        BY <1>2, <2>1, <2>3, ServingAssumption
        DEF Probe, ProbeBegins, PingAcquires, PingSucceeds, PingFails, PingTimesOut,
            probeRest, FreeConn, Conns, TypeOK
    <2>4. CASE \/ Drain \/ Outage \/ Return \/ UNCHANGED vars
               \/ \E r \in Request : GiveUp(r)
        BY <1>2, <2>1, <2>4
        DEF Drain, Outage, Return, vars, GiveUp, readiness, Conns, TypeOK
    <2> QED
        BY <2>2, <2>3, <2>4
<1>4. draining' \in BOOLEAN /\ listed' \in BOOLEAN
    <2>1. draining \in BOOLEAN /\ listed \in BOOLEAN /\ ProbePatience \in BOOLEAN
        BY ServingAssumption DEF TypeOK
    <2>2. draining' = draining \/ draining' = TRUE
        BY DEF FlushBegins, FlushAcquires, FlushEnds, flushRest,
               Probe, ProbeBegins, PingAcquires, PingSucceeds, PingFails, PingTimesOut,
               probeRest, Drain, GiveUp, Outage, Return, vars, readiness
    <2>3. \/ listed' = listed \/ listed' = TRUE \/ listed' = FALSE
          \/ listed' = ProbePatience
        BY DEF FlushBegins, FlushAcquires, FlushEnds, flushRest,
               Probe, ProbeBegins, PingAcquires, PingSucceeds, PingFails, PingTimesOut,
               Unreachable, TimedOut,
               probeRest, Drain, GiveUp, Outage, Return, vars, readiness
    <2> QED
        BY <2>1, <2>2, <2>3, Zenon
<1>5. gone' \subseteq Request
    BY DEF FlushBegins, FlushAcquires, FlushEnds, flushRest,
           Probe, ProbeBegins, PingAcquires, PingSucceeds, PingFails, PingTimesOut,
           probeRest, Drain, GiveUp, Outage, Return, vars, requests, TypeOK
<1>6. database' \in {"up", "hung", "down"} /\ outages' \in 0..MaxOutages
    BY ServingAssumption
    DEF FlushBegins, FlushAcquires, FlushEnds, flushRest,
        Probe, ProbeBegins, PingAcquires, PingSucceeds, PingFails, PingTimesOut,
        probeRest, Drain, GiveUp, Outage, Return, vars, db, TypeOK
<1>7. TypeOK'
    BY <1>1, <1>3, <1>4, <1>5, <1>6 DEF TypeOK
<1>8. Progress'
    BY <1>1 DEF Progress
<1>9. InFlightExact' /\ TotalExact'
    BY <1>1, <1>2 DEF InFlightExact, TotalExact
<1> QED
    BY <1>7, <1>8, <1>9

--------------------------------------------------------------------------------
(* The theorems.                                                           *)

LEMMA NextIInv == IInv /\ [Next]_vars => IInv'
<1> SUFFICES ASSUME IInv, [Next]_vars PROVE IInv'
    OBVIOUS
<1>1. CASE \E r \in Request : Reply(r)
    BY <1>1, ReplyStep
<1>2. CASE \E r \in Request : Panic(r)
    BY <1>2, PanicStep
<1>3. CASE \E r \in Request : Observe(r)
    BY <1>3, ObserveStep
<1>4. CASE \E r \in Request : Leave(r)
    BY <1>4, LeaveStep
<1>5. CASE \E r \in Request :
               \/ Enter(r) \/ Acquire(r) \/ AcquireFails(r)
               \/ Found(r) \/ NoRows(r) \/ Collision(r) \/ QueryFails(r)
    BY <1>5, HandlerSteps
<1>6. CASE \/ FlushBegins \/ FlushAcquires \/ FlushEnds
           \/ Probe \/ Drain
           \/ \E r \in Request : GiveUp(r)
           \/ Outage \/ Return
           \/ UNCHANGED vars
    BY <1>6, OtherSteps
<1> QED
    BY <1>1, <1>2, <1>3, <1>4, <1>5, <1>6 DEF Next, Handler

\* The invariant holds of every behaviour, whatever the database and clients do.
THEOREM Invariance == Spec => []IInv
<1>1. Init => IInv
    BY InitIInv
<1>2. IInv /\ [Next]_vars => IInv'
    BY NextIInv
<1> QED
    BY <1>1, <1>2, PTL DEF Spec

\* http_requests_in_flight (Instrument's Inc and deferred Dec) never drifts.
THEOREM GaugeNeverDrifts == Spec => []InFlightExact
<1>1. IInv => InFlightExact
    BY DEF IInv
<1> QED
    BY <1>1, Invariance, PTL

\* http_requests_total counts each reply that Instrument saw, once, as what it was.
THEOREM CountsReplies == Spec => []TotalExact
<1>1. IInv => TotalExact
    BY DEF IInv
<1> QED
    BY <1>1, Invariance, PTL

\* The pool never hands out more connections than it has.
THEOREM PoolIsBounded == Spec => []TypeOK
<1>1. IInv => TypeOK
    BY DEF IInv
<1> QED
    BY <1>1, Invariance, PTL

\* Once no ping is under way that began before Drain, a pod that is out of rotation
\* stays out, whatever the database answers to others: Ready looks at draining before
\* it pings.  That it gets out is DrainUnlists.
THEOREM DrainedStaysOut ==
    Spec => [](draining /\ probe = "idle" /\ ~listed => [](~listed))
<1> DEFINE Out == draining /\ probe = "idle" /\ ~listed
<1>1. Out /\ [Next]_vars => Out'
    <2> SUFFICES ASSUME Out, [Next]_vars PROVE Out'
        OBVIOUS
    <2>1. CASE ProbeBegins
        BY <2>1 DEF ProbeBegins, probeRest
    <2>2. ~PingAcquires /\ ~PingSucceeds /\ ~PingFails /\ ~PingTimesOut
        BY DEF PingAcquires, PingSucceeds, PingFails, PingTimesOut, Stuck
    <2>3. CASE Drain
        BY <2>3 DEF Drain
    <2>4. CASE FlushBegins \/ FlushAcquires \/ FlushEnds \/ Outage \/ Return
        <3>1. UNCHANGED readiness
            BY <2>4 DEF FlushBegins, FlushAcquires, FlushEnds, flushRest, Outage, Return
        <3> QED
            BY <3>1 DEF readiness
    <2>5. CASE \E r \in Request : Enter(r) \/ Handler(r) \/ GiveUp(r)
        <3>1. UNCHANGED readiness
            BY <2>5 DEF Handler, Enter, Acquire, AcquireFails, Found, NoRows, Collision,
                        QueryFails, Reply, Panic, Observe, Leave, GiveUp, handlerRest
        <3> QED
            BY <3>1 DEF readiness
    <2>6. CASE UNCHANGED vars
        BY <2>6 DEF vars, readiness
    <2> QED
        BY <2>1, <2>2, <2>3, <2>4, <2>5, <2>6 DEF Next, Probe
<1>2. Out => ~listed
    OBVIOUS
<1> HIDE DEF Out
<1>3. Spec => [](Out => []Out)
    BY <1>1, PTL DEF Spec
<1>4. Spec => [](Out => [](~listed))
    BY <1>2, <1>3, PTL
<1> QED
    BY <1>4 DEF Out

\* The gauge and every counter say at any time what happened.
THEOREM MetricsAreExact == Spec => []MetricsExact
BY GaugeNeverDrifts, CountsReplies, PTL DEF MetricsExact

================================================================================
