--------------------------- MODULE ServiceLifecycle ----------------------------
(***************************************************************************)
(* The life of one pod: cmd/api/main.go, internal/server and the health    *)
(* handler, which the three services share.  main starts pool, background  *)
(* goroutine and servers, waits for SIGTERM or a server error, and takes   *)
(* everything down: drain, Shutdown, then its deferred closes.             *)
(*                                                                         *)
(* Around it: requests that Kubernetes sends while it lists the pod as     *)
(* ready, the readiness probe, and a clock that starts with SIGTERM and    *)
(* ends with the kill.  The process is fast compared to a tick: time       *)
(* passes only while main waits for a timer, a handler or a flush.         *)
(***************************************************************************)
EXTENDS Naturals, FiniteSets

CONSTANTS
    Request,
    MaxConns,         \* DB_MAX_CONNS
    Drain,            \* SHUTDOWN_READINESS_DRAIN, in ticks
    ShutdownTimeout,  \* SHUTDOWN_TIMEOUT
    Grace,            \* terminationGracePeriodSeconds
    Propagation       \* ticks until nobody sends requests to a terminating pod

ASSUME LifecycleAssumption ==
    /\ IsFiniteSet(Request)
    /\ MaxConns \in Nat \ {0}
    /\ Drain \in Nat /\ ShutdownTimeout \in Nat /\ Grace \in Nat
    /\ Propagation \in Nat
    /\ Propagation < Drain
    /\ Drain + ShutdownTimeout < Grace

VARIABLES
    service,      \* which of the three this is; it never changes
    main,         \* where main is
    timer,        \* when the wait of main ends: the sleep, or the context of Shutdown
    pool,         \* the database pool: "none", "open", "closing" or "closed"
    background,   \* its goroutine: "off", "running", "told" to stop or "stopped"
    flushing,     \* whether the consumer holds a connection for a flush
    flushFailed,  \* whether a flush met a closed pool
    public,       \* whether the public server accepts connections
    admin,        \* whether the admin server does
    draining,     \* HealthHandler.draining
    request,      \* what became of each request
    probe,        \* whether a readiness probe waits for its ping
    listed,       \* whether Kubernetes sends requests here
    terminating,  \* whether SIGTERM was sent
    now,          \* ticks since
    trouble       \* what went wrong: "early" SIGTERM, server "error", "timeout"

servers == <<public, admin, draining>>
goroutine == <<background, flushing, flushFailed>>
process == <<service, main, timer, pool, goroutine, servers>>
world == <<request, probe, listed, terminating, now>>
vars == <<process, world, trouble>>

Starting == {"connect", "start", "bind", "serve", "notify"}
Closing == {"background", "pool", "exited"}
Running == {"accepted", "query", "publish"}
Ended == {"answered", "refused", "failed", "late", "cut"}

InFlight == {r \in Request : request[r] \in Running}

\* A connection of the pool each; a ping holds one for a moment only.
Querying == {r \in Request : request[r] = "query"}
Conns == Cardinality(Querying) + (IF flushing THEN 1 ELSE 0)

TypeOK ==
    /\ service \in {"analytics", "redirect", "urlshortener"}
    /\ main \in Starting \cup Closing \cup {"select", "drain", "public", "admin"}
    /\ timer \in Nat
    /\ pool \in {"none", "open", "closing", "closed"}
    /\ background \in {"off", "running", "told", "stopped"}
    /\ flushing \in BOOLEAN /\ flushFailed \in BOOLEAN
    /\ public \in BOOLEAN /\ admin \in BOOLEAN /\ draining \in BOOLEAN
    /\ request \in [Request -> {"new"} \cup Running \cup Ended]
    /\ probe \in BOOLEAN /\ listed \in BOOLEAN /\ terminating \in BOOLEAN
    /\ now \in 0..Grace
    /\ trouble \subseteq {"early", "error", "timeout"}
    /\ Conns <= MaxConns

Init ==
    /\ service \in {"analytics", "redirect", "urlshortener"}
    /\ main = "connect" /\ timer = 0
    /\ pool = "none" /\ background = "off"
    /\ flushing = FALSE /\ flushFailed = FALSE
    /\ public = FALSE /\ admin = FALSE /\ draining = FALSE
    /\ request = [r \in Request |-> "new"]
    /\ probe = FALSE /\ listed = FALSE /\ terminating = FALSE
    /\ now = 0 /\ trouble = {}

\* The process is gone: its handlers with it, their clients see a reset.
Exit ==
    /\ main' = "exited"
    /\ pool' = "closed"
    /\ public' = FALSE /\ admin' = FALSE /\ probe' = FALSE
    /\ flushing' = FALSE
    /\ background' = IF background = "off" THEN "off" ELSE "stopped"
    /\ request' = [r \in Request |-> IF r \in InFlight THEN "cut" ELSE request[r]]
    /\ UNCHANGED <<service, timer, flushFailed, draining, listed, now>>

--------------------------------------------------------------------------------
(* Slips the definitions below could have been written with; the           *)
(* properties at the end tell each of them from the code.                  *)

\* The pool closed before the goroutine that uses it: the defers in the other order.
AfterServersPool == "pool"

\* publicSrv.Close in place of Shutdown.
HandlersDoneOrNot == TRUE

\* A time-out of its own for each of the two servers.
AdminDeadlineFresh == now + ShutdownTimeout

\* Close waits for the goroutine without telling it to stop.
ToldNever == UNCHANGED background

\* One connection too many.
FreeConnOneMore == Conns <= MaxConns

--------------------------------------------------------------------------------
(* Starting: main.run and the first half of server.Run.                    *)

Go(from, to) == main = from /\ main' = to

\* Load, logger.Init and Connect with its ping; any of them may fail.
Connect ==
    /\ \/ Go("connect", "start") /\ pool' = "open"
       \/ Go("connect", "exited") /\ pool' = "closed"
    /\ UNCHANGED <<service, timer, goroutine, servers, world, trouble>>

\* The click consumer of the one, the click publisher of the other.  A redirect-service
\* without publisher (CLICK_MODE off) lives like the urlshortener-service.
HasBackground == service \in {"analytics", "redirect"}

StartBackground ==
    /\ Go("start", "bind")
    /\ background' = IF HasBackground THEN "running" ELSE "off"
    /\ UNCHANGED <<service, timer, pool, flushing, flushFailed, servers, world, trouble>>

\* Both ports, or none: the deferred closes run if either is taken.
Bind ==
    /\ Go("bind", "serve") \/ Go("bind", "background")
    /\ UNCHANGED <<service, timer, pool, goroutine, servers, world, trouble>>

Serve ==
    /\ Go("serve", "notify")
    /\ public' = TRUE /\ admin' = TRUE
    /\ UNCHANGED <<service, timer, pool, goroutine, draining, world, trouble>>

\* From signal.NotifyContext on, SIGTERM no longer ends the process.
Notify ==
    /\ Go("notify", "select")
    /\ UNCHANGED <<service, timer, pool, goroutine, servers, world, trouble>>

--------------------------------------------------------------------------------
(* Stopping: the select of server.Run, shutdown, and main's defers.        *)

\* The deferred closes run in reverse order: the goroutine's, then the pool's.
AfterServers == "background"

\* A server that stopped serving ends Run, without any shutdown.
SelectError ==
    /\ "error" \in trouble
    /\ Go("select", AfterServers)
    /\ UNCHANGED <<service, timer, pool, goroutine, servers, world, trouble>>

SelectSignal ==
    /\ terminating
    /\ Go("select", "drain")
    /\ draining' = TRUE
    /\ timer' = now + Drain
    /\ UNCHANGED <<service, pool, goroutine, public, admin, world, trouble>>

DrainOver == now >= timer

DrainEnds ==
    /\ DrainOver
    /\ Go("drain", "public")
    /\ public' = FALSE
    /\ timer' = now + ShutdownTimeout
    /\ UNCHANGED <<service, pool, goroutine, admin, draining, world, trouble>>

\* Both Shutdowns share one context.
AdminDeadline == timer

HandlersDone == InFlight = {}

\* publicSrv.Shutdown waits for its handlers, but no longer than the context.
PublicDown ==
    /\ Go("public", "admin")
    /\ \/ HandlersDone /\ UNCHANGED trouble
       \/ ~HandlersDone /\ now >= timer /\ trouble' = trouble \cup {"timeout"}
    /\ admin' = FALSE
    /\ timer' = AdminDeadline
    /\ UNCHANGED <<service, pool, goroutine, public, draining, world>>

AdminDown ==
    /\ ~probe \/ now >= timer
    /\ Go("admin", AfterServers)
    /\ UNCHANGED <<service, timer, pool, goroutine, servers, world, trouble>>

Told == background' = "told"

\* clickConsumer.Close or clickPublisher.Close, up to wg.Wait.
CloseBackground ==
    /\ main = "background"
    /\ background = "running"
    /\ Told
    /\ UNCHANGED <<service, main, timer, pool, flushing, flushFailed,
                   servers, world, trouble>>

BackgroundClosed ==
    /\ background \in {"off", "stopped"}
    /\ Go("background", "pool")
    /\ UNCHANGED <<service, timer, pool, goroutine, servers, world, trouble>>

\* pool.Close refuses further queries and waits for those under way.
ClosePool ==
    /\ main = "pool"
    /\ pool = "open"
    /\ pool' = "closing"
    /\ UNCHANGED <<service, main, timer, goroutine, servers, world, trouble>>

Return ==
    /\ main = "pool"
    /\ pool = "closing"
    /\ Conns = 0
    /\ Exit
    /\ UNCHANGED <<terminating, trouble>>

--------------------------------------------------------------------------------
(* The background goroutine, seen from here: it uses the pool or it does   *)
(* not, and stops some time after it was told to.                          *)

FreeConn == Conns < MaxConns

FlushBegins ==
    /\ service = "analytics"
    /\ background \in {"running", "told"}
    /\ ~flushing
    /\ \/ pool = "open" /\ FreeConn /\ flushing' = TRUE /\ UNCHANGED flushFailed
       \/ pool # "open" /\ flushFailed' = TRUE /\ UNCHANGED flushing
    /\ UNCHANGED <<service, main, timer, pool, background, servers, world, trouble>>

FlushEnds ==
    /\ flushing
    /\ flushing' = FALSE
    /\ UNCHANGED <<service, main, timer, pool, background, flushFailed,
                   servers, world, trouble>>

BackgroundStops ==
    /\ background = "told"
    /\ ~flushing
    /\ background' = "stopped"
    /\ UNCHANGED <<service, main, timer, pool, flushing, flushFailed,
                   servers, world, trouble>>

--------------------------------------------------------------------------------
(* Requests.                                                               *)

Becomes(r, state) == request' = [request EXCEPT ![r] = state]

\* A client connects while the pod is listed.
Send(r) ==
    /\ listed
    /\ request[r] = "new"
    /\ Becomes(r, IF public THEN "accepted" ELSE "refused")
    /\ UNCHANGED <<process, probe, listed, terminating, now, trouble>>

\* The handler's query waits for a connection; a closed pool has none, status 500.
Query(r) ==
    /\ request[r] = "accepted"
    /\ \/ pool = "open" /\ FreeConn /\ Becomes(r, "query")
       \/ pool # "open" /\ Becomes(r, "failed")
    /\ UNCHANGED <<process, probe, listed, terminating, now, trouble>>

QueryReturns(r) ==
    /\ request[r] = "query"
    /\ Becomes(r, IF service = "redirect" THEN "publish" ELSE "answered")
    /\ UNCHANGED <<process, probe, listed, terminating, now, trouble>>

\* Redirect offers its click; the publisher may be stopping, or gone.
Publish(r) ==
    /\ request[r] = "publish"
    /\ Becomes(r, IF background = "running" THEN "answered" ELSE "late")
    /\ UNCHANGED <<process, probe, listed, terminating, now, trouble>>

--------------------------------------------------------------------------------
(* Kubernetes, the network and time.                                       *)

\* Ready answers 503 at once to a draining pod, and pings otherwise.
ProbeBegins ==
    /\ admin
    /\ ~probe
    /\ ~draining
    /\ probe' = TRUE
    /\ UNCHANGED <<process, request, listed, terminating, now, trouble>>

\* The ping succeeds or times out, which counts as ready, or it fails.  A pod
\* that terminates is not listed again.
ProbeEnds ==
    /\ probe
    /\ probe' = FALSE
    /\ \/ pool = "open" /\ listed' = (listed \/ ~terminating)
       \/ listed' = FALSE
    /\ UNCHANGED <<process, request, terminating, now, trouble>>

\* A server stops serving: Serve returns an error other than ErrServerClosed.
ServeFails ==
    /\ "error" \notin trouble
    /\ \/ public /\ public' = FALSE /\ UNCHANGED admin
       \/ admin /\ admin' = FALSE /\ UNCHANGED public
    /\ trouble' = trouble \cup {"error"}
    /\ UNCHANGED <<service, main, timer, pool, goroutine, draining, world>>

\* Only between NotifyContext and the return of Run is the signal caught.
Sigterm ==
    /\ ~terminating
    /\ main # "exited"
    /\ terminating' = TRUE
    /\ \/ main = "select" /\ UNCHANGED <<process, request, probe, listed, now, trouble>>
       \/ main # "select" /\ Exit /\ trouble' = trouble \cup {"early"}

Unlist ==
    /\ terminating
    /\ listed
    /\ listed' = FALSE
    /\ UNCHANGED <<process, request, probe, terminating, now, trouble>>

\* What main waits for: a timer, handlers, a probe, the goroutine or connections.
Waiting ==
    \/ main = "drain" /\ now < timer
    \/ main = "public" /\ now < timer /\ ~HandlersDone
    \/ main = "admin" /\ now < timer /\ probe
    \/ main = "background" /\ background = "told"
    \/ main = "pool" /\ pool = "closing" /\ Conns > 0

Tick ==
    /\ terminating
    /\ Waiting
    /\ listed => now < Propagation
    /\ now < Grace
    /\ now' = now + 1
    /\ UNCHANGED <<process, request, probe, listed, terminating, trouble>>

Kill ==
    /\ main # "exited"
    /\ now = Grace
    /\ Exit
    /\ UNCHANGED <<terminating, trouble>>

--------------------------------------------------------------------------------
Main ==
    \/ Connect \/ StartBackground \/ Bind \/ Serve \/ Notify
    \/ SelectError \/ SelectSignal \/ DrainEnds \/ PublicDown \/ AdminDown
    \/ CloseBackground \/ BackgroundClosed \/ ClosePool \/ Return

Handler(r) == Query(r) \/ QueryReturns(r) \/ Publish(r)

Next ==
    \/ Main
    \/ FlushBegins \/ FlushEnds \/ BackgroundStops
    \/ \E r \in Request : Send(r) \/ Handler(r)
    \/ ProbeBegins \/ ProbeEnds
    \/ ServeFails \/ Sigterm \/ Unlist \/ Tick \/ Kill

Spec == Init /\ [][Next]_vars

\* Goroutines run, queries return, time passes.  Whether the kill comes is left open.
Fairness ==
    /\ WF_vars(Main)
    /\ WF_vars(FlushEnds) /\ SF_vars(BackgroundStops)
    /\ \A r \in Request : WF_vars(Handler(r))
    /\ WF_vars(ProbeEnds) /\ WF_vars(Unlist) /\ WF_vars(Tick)

FairSpec == Spec /\ Fairness

--------------------------------------------------------------------------------
(* Properties.                                                             *)

\* Unless a server broke, SIGTERM came before it was caught, or handlers outlasted
\* SHUTDOWN_TIMEOUT, no client notices the end of the pod: no connection is refused,
\* no answer cut short, no query refused by a closed pool, and no click is offered
\* to a publisher that was told to stop.
OrderlyShutdown ==
    trouble = {} =>
        \A r \in Request : request[r] \notin {"refused", "failed", "late", "cut"}

\* However the process ends, the consumer's flushes never meet a closed pool.
FlushHasPool == ~flushFailed

\* Draining and both Shutdowns end in time for main's defers to run before the kill,
\* whatever handlers and probes do.
ToldToStopInTime == now > Drain + ShutdownTimeout => main \in Closing

\* A pod that was told to terminate stops of its own accord.
StopsByItself == terminating ~> main = "exited"

================================================================================
