-------------------------------- MODULE Serving --------------------------------
(***************************************************************************)
(* One pod of any of the three services while it serves: the middlewares   *)
(* around a handler, the connection pool that handlers, the consumer's     *)
(* flush and the readiness ping share, and the probe that decides whether  *)
(* requests are sent here.  Around it, clients that give up and a database *)
(* that goes down, or hangs: it takes queries and does not answer.         *)
(*                                                                         *)
(* A request stands for a goroutine of the public server.  Its way is      *)
(*   new -> acquire <-> query -> reply -> observe -> leave -> ended        *)
(* where acquire waits for a connection and query holds one.               *)
(***************************************************************************)
EXTENDS Naturals, FiniteSets

CONSTANTS
    Request,
    MaxConns,       \* DB_MAX_CONNS
    MaxAttempts,    \* MaxCodeAttempts of the urlshortener-service
    MaxOutages,     \* bound: how often the database goes down or hangs
    ProbePatience   \* whether the probe's timeoutSeconds exceed readinessPingTimeout

ASSUME ServingAssumption ==
    /\ IsFiniteSet(Request)
    /\ MaxConns \in Nat \ {0}
    /\ MaxAttempts \in Nat \ {0}
    /\ MaxOutages \in Nat
    /\ ProbePatience \in BOOLEAN

VARIABLES
    service,    \* which of the three this is; it never changes
    request,    \* where the goroutine of each request is
    attempt,    \* codes a CreateLink has tried in vain
    status,     \* of each reply: below 400, 4xx or 5xx
    gone,       \* running handlers whose client gave up: their context is cancelled
    recovered,  \* requests that panicked
    inFlight,   \* http_requests_in_flight
    total,      \* http_requests_total by status
    flush,      \* the consumer: "idle", "acquire" or "query"
    probe,      \* the readiness probe: "idle", "acquire" or "ping"
    draining,
    listed,     \* whether Kubernetes sends requests here
    database,   \* "up", "hung" or "down"
    outages

requests == <<request, attempt, status, gone, recovered>>
metrics == <<inFlight, total>>
readiness == <<probe, draining, listed>>
db == <<database, outages>>
vars == <<service, requests, metrics, flush, readiness, db>>

Status == {"success", "refused", "failed"}

Counted == {"acquire", "query", "reply", "observe", "leave"}

\* What holds a connection of the pool.
Querying == {r \in Request : request[r] = "query"}
Conns == Cardinality(Querying) + (IF flush = "query" THEN 1 ELSE 0)
                               + (IF probe = "ping" THEN 1 ELSE 0)

TypeOK ==
    /\ service \in {"analytics", "redirect", "urlshortener"}
    /\ request \in [Request -> {"new", "ended"} \cup Counted]
    /\ attempt \in [Request -> 0..MaxAttempts]
    /\ status \in [Request -> {"none"} \cup Status]
    /\ gone \subseteq Request
    /\ recovered \subseteq Request
    /\ inFlight \in Nat
    /\ total \in [Status -> Nat]
    /\ flush \in {"idle", "acquire", "query"}
    /\ probe \in {"idle", "acquire", "ping"}
    /\ draining \in BOOLEAN /\ listed \in BOOLEAN
    /\ database \in {"up", "hung", "down"}
    /\ outages \in 0..MaxOutages
    /\ Conns <= MaxConns

Init ==
    /\ service \in {"analytics", "redirect", "urlshortener"}
    /\ request = [r \in Request |-> "new"]
    /\ attempt = [r \in Request |-> 0]
    /\ status = [r \in Request |-> "none"]
    /\ gone = {} /\ recovered = {}
    /\ inFlight = 0
    /\ total = [s \in Status |-> 0]
    /\ flush = "idle"
    /\ probe = "idle" /\ draining = FALSE /\ listed = FALSE
    /\ database = "up" /\ outages = 0

Goes(r, from, to) == request[r] = from /\ request' = [request EXCEPT ![r] = to]

Replies(r, s) == status' = [status EXCEPT ![r] = s]

--------------------------------------------------------------------------------
(* Slips the definitions below could have been written with; the           *)
(* properties at the end tell each of them from the code.                  *)

\* A connection more than the pool has.
FreeConnOneMore == Conns <= MaxConns

\* Dec after c.Next, not deferred: skipped by a panic.
DecSkipped == UNCHANGED inFlight

\* The status taken before c.Next, when it is still 200.
StatusCountedEarly(r) == "success"

\* A probe that pings first, whether the pod drains or not.
ProbeBeginsUnchecked ==
    /\ probe = "idle"
    /\ probe' = "acquire"
    /\ UNCHANGED <<service, requests, metrics, flush, draining, listed, db>>

\* context.Background() in place of the request's context.
CancelledNever(r) == FALSE

\* Every error of the ping is taken for a time-out.
UnreachableReady == listed' = TRUE

--------------------------------------------------------------------------------
(* The middlewares: Recovery around Instrument around the handler.         *)

\* Instrument counts the request in.  A body that is no valid request for a link
\* is answered before any query.
Enter(r) ==
    /\ listed
    /\ \/ Goes(r, "new", "acquire") /\ UNCHANGED status
       \/ service = "urlshortener" /\ Goes(r, "new", "reply") /\ Replies(r, "refused")
    /\ inFlight' = inFlight + 1
    /\ UNCHANGED <<service, attempt, gone, recovered, total, flush, readiness, db>>

\* The handler is over, its locals and its context with it.
Over(r) ==
    /\ attempt' = [attempt EXCEPT ![r] = 0]
    /\ gone' = gone \ {r}

\* c.Next returns to Instrument.
Reply(r) ==
    /\ Goes(r, "reply", "observe")
    /\ Over(r)
    /\ UNCHANGED <<service, status, recovered, metrics, flush, readiness, db>>

DecDeferred == inFlight' = inFlight - 1

\* The handler panics: Instrument only runs its deferred Dec, Recovery answers.
Panic(r) ==
    /\ Goes(r, "reply", "ended")
    /\ Replies(r, "failed")
    /\ recovered' = recovered \cup {r}
    /\ DecDeferred
    /\ Over(r)
    /\ UNCHANGED <<service, total, flush, readiness, db>>

StatusCounted(r) == status[r]

Observe(r) ==
    /\ Goes(r, "observe", "leave")
    /\ total' = [total EXCEPT ![StatusCounted(r)] = @ + 1]
    /\ UNCHANGED <<service, attempt, status, gone, recovered, inFlight, flush,
                   readiness, db>>

Leave(r) ==
    /\ Goes(r, "leave", "ended")
    /\ inFlight' = inFlight - 1
    /\ UNCHANGED <<service, attempt, status, gone, recovered, total, flush,
                   readiness, db>>

--------------------------------------------------------------------------------
(* The handlers and their queries.                                         *)

handlerRest == <<service, gone, recovered, metrics, flush, readiness, db>>

FreeConn == Conns < MaxConns

Cancelled(r) == r \in gone

\* pool.QueryRow waits for a connection as long as the request's context lives.
Acquire(r) ==
    /\ FreeConn
    /\ Goes(r, "acquire", "query")
    /\ UNCHANGED <<attempt, status, handlerRest>>

\* A connection of the pool may have to be dialled first, which can fail whatever the
\* database does.
AcquireFails(r) ==
    /\ Cancelled(r) \/ FreeConn
    /\ Goes(r, "acquire", "reply")
    /\ Replies(r, "failed")
    /\ UNCHANGED <<attempt, handlerRest>>

Found(r) ==
    /\ database = "up"
    /\ Goes(r, "query", "reply")
    /\ Replies(r, "success")
    /\ UNCHANGED <<attempt, handlerRest>>

\* pgx.ErrNoRows of a lookup; the aggregate of the analytics-service has its row always.
NoRows(r) ==
    /\ database = "up"
    /\ service # "analytics"
    /\ attempt[r] = 0
    /\ Goes(r, "query", "reply")
    /\ Replies(r, "refused")
    /\ UNCHANGED <<attempt, handlerRest>>

\* Create has released its connection before CreateLink tries the next code.
Collision(r) ==
    /\ database = "up"
    /\ service = "urlshortener"
    /\ attempt' = [attempt EXCEPT ![r] = @ + 1]
    /\ \/ attempt[r] + 1 < MaxAttempts /\ Goes(r, "query", "acquire")
          /\ UNCHANGED status
       \/ attempt[r] + 1 = MaxAttempts /\ Goes(r, "query", "reply") /\ Replies(r, "failed")
    /\ UNCHANGED handlerRest

\* An error of the database, or the cancelled context of a client that is gone.
QueryFails(r) ==
    /\ Cancelled(r) \/ database # "hung"
    /\ Goes(r, "query", "reply")
    /\ Replies(r, "failed")
    /\ UNCHANGED <<attempt, handlerRest>>

--------------------------------------------------------------------------------
(* The consumer's flush, which flushTimeout ends in any case.              *)

flushRest == <<service, requests, metrics, readiness, db>>

FlushBegins ==
    /\ service = "analytics"
    /\ flush = "idle"
    /\ flush' = "acquire"
    /\ UNCHANGED flushRest

FlushAcquires ==
    /\ flush = "acquire"
    /\ FreeConn
    /\ flush' = "query"
    /\ UNCHANGED flushRest

FlushEnds ==
    /\ flush \in {"acquire", "query"}
    /\ flush' = "idle"
    /\ UNCHANGED flushRest

--------------------------------------------------------------------------------
(* The readiness probe: HealthHandler.Ready and what Kubernetes makes of   *)
(* its answer.                                                             *)

probeRest == <<service, requests, metrics, flush, draining, db>>

ProbeBegins ==
    /\ probe = "idle"
    /\ \/ draining /\ listed' = FALSE /\ UNCHANGED probe
       \/ ~draining /\ probe' = "acquire" /\ UNCHANGED listed
    /\ UNCHANGED probeRest

PingAcquires ==
    /\ probe = "acquire"
    /\ FreeConn
    /\ probe' = "ping"
    /\ UNCHANGED <<listed, probeRest>>

PingSucceeds ==
    /\ probe = "ping"
    /\ database = "up"
    /\ probe' = "idle" /\ listed' = TRUE
    /\ UNCHANGED probeRest

Unreachable == listed' = FALSE

\* Any error but the time-out: a dial refused for too many clients or a connection
\* that was reset are enough, the database need not be down.
PingFails ==
    /\ probe = "ping" \/ (probe = "acquire" /\ FreeConn)
    /\ database # "hung"
    /\ probe' = "idle"
    /\ Unreachable
    /\ UNCHANGED probeRest

\* No connection came free, or no answer.  A database that is down refuses at once,
\* so that connections return long before the two seconds are over.
Stuck ==
    /\ database # "down"
    /\ (probe = "acquire" /\ ~FreeConn) \/ (probe = "ping" /\ database = "hung")

\* context.DeadlineExceeded is answered "degraded", with 200; a kubelet less patient
\* than readinessPingTimeout has counted the probe as failed by then.
TimedOut == listed' = ProbePatience

PingTimesOut ==
    /\ Stuck
    /\ probe' = "idle"
    /\ TimedOut
    /\ UNCHANGED probeRest

Drain ==
    /\ ~draining
    /\ draining' = TRUE
    /\ UNCHANGED <<service, requests, metrics, flush, probe, listed, db>>

--------------------------------------------------------------------------------
(* Clients and the database.                                               *)

\* The client closes its connection; net/http cancels the request's context.
GiveUp(r) ==
    /\ request[r] \in {"acquire", "query"}
    /\ r \notin gone
    /\ gone' = gone \cup {r}
    /\ UNCHANGED <<service, request, attempt, status, recovered, metrics, flush,
                   readiness, db>>

Outage ==
    /\ database = "up"
    /\ outages < MaxOutages
    /\ outages' = outages + 1
    /\ database' \in {"hung", "down"}
    /\ UNCHANGED <<service, requests, metrics, flush, readiness>>

Return ==
    /\ database # "up"
    /\ database' = "up"
    /\ UNCHANGED <<service, requests, metrics, flush, readiness, outages>>

--------------------------------------------------------------------------------
Handler(r) ==
    \/ Acquire(r) \/ AcquireFails(r)
    \/ Found(r) \/ NoRows(r) \/ Collision(r) \/ QueryFails(r)
    \/ Reply(r) \/ Panic(r) \/ Observe(r) \/ Leave(r)

Probe ==
    \/ ProbeBegins \/ PingAcquires \/ PingSucceeds
    \/ PingFails \/ PingTimesOut

Next ==
    \/ \E r \in Request : Enter(r) \/ Handler(r) \/ GiveUp(r)
    \/ FlushBegins \/ FlushAcquires \/ FlushEnds
    \/ Probe \/ Drain
    \/ Outage \/ Return

Spec == Init /\ [][Next]_vars

\* Goroutines run, the pool serves its waiters in turn, probes keep coming, and a
\* client does not wait for ever.  The database may stay away for good.
Fairness ==
    /\ \A r \in Request : SF_vars(Handler(r)) /\ WF_vars(GiveUp(r))
    /\ WF_vars(FlushEnds)
    /\ SF_vars(Probe)

FairSpec == Spec /\ Fairness

--------------------------------------------------------------------------------
(* Properties.                                                             *)

\* http_requests_in_flight is the number of requests between the two ends of
\* Instrument, whatever way each of them took, panics included.
Instrumented == {r \in Request : request[r] \in Counted}

InFlightExact == inFlight = Cardinality(Instrumented)

\* http_requests_total has every reply under its status, once, except those that
\* Recovery wrote.
Observed(s) ==
    {r \in Request \ recovered : request[r] \in {"leave", "ended"} /\ status[r] = s}

TotalExact == \A s \in Status : total[s] = Cardinality(Observed(s))

\* What Prometheus scrapes is the truth about the requests at that moment, for the
\* gauge and for each of the counters.
MetricsExact == InFlightExact /\ TotalExact

\* "readiness ping timed out, reporting ready anyway" (health_handler.go): a ping that
\* found the pool exhausted or got no answer takes no pod out of rotation.  Its
\* replicas would follow it, and the load with them.
TimeoutsKeepListed ==
    [][listed /\ ~listed' => draining \/ ~Stuck]_vars

\* A pod that drains leaves the rotation for good.  It may come back once: a ping that
\* began before Drain still answers what it found.
DrainUnlists == <>[]draining => <>[](~listed)

\* A database that is down for good takes the pod out of rotation, even when
\* requests, the flush and the ping compete for the last connections.
DownUnlists == <>[](database = "down") => <>[](~listed)

\* A request that got in is answered or abandoned by its client, and its handler
\* ends: nobody waits for ever on the pool.
EveryRequestEnds ==
    \A r \in Request : request[r] = "acquire" ~> request[r] = "ended"
================================================================================
