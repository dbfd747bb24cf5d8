------------------------- MODULE ServiceLifecycleProofs -------------------------
(***************************************************************************)
(* Proofs about ServiceLifecycle, for any number of requests, connections  *)
(* and ticks, with LifecycleAssumption for the durations.                  *)
(***************************************************************************)
EXTENDS ServiceLifecycle, FiniteSetTheorems, TLAPS

Bound == {"connect", "start", "bind", "serve"}

\* Nothing is listed, probed or served before the servers run.
Unserved ==
    /\ ~terminating => now = 0
    /\ main \in Bound \/ (main \in Closing /\ ~terminating /\ trouble = {}) =>
           /\ ~public /\ ~admin /\ ~probe /\ ~listed
           /\ \A r \in Request : request[r] = "new"
    /\ main \in Bound => ~terminating

\* Waits end in time, each before the next thing that could go wrong.
Timely ==
    /\ main \in Starting \cup {"select"} => now = 0
    /\ main \in {"drain", "public", "admin"} => terminating
    /\ main = "drain" => timer = Drain /\ now <= timer
    /\ main \in {"public", "admin"} => timer <= Drain + ShutdownTimeout /\ now <= timer
    /\ listed /\ terminating => now <= Propagation

\* Without trouble the pod accepts while it is listed, and its handlers are done
\* before anything they use is taken away.
Quiet ==
    trouble = {} =>
        /\ main \in {"notify", "select", "drain"} => public
        /\ main \in {"public", "admin"} \cup Closing => ~listed
        /\ main \in {"admin"} \cup Closing => InFlight = {}
        /\ main = "notify" => ~terminating
        /\ OrderlyShutdown

\* The pool is there before the goroutine starts, and until it stopped.
Layered ==
    /\ main \in {"connect", "start"} => background = "off"
    /\ main = "connect" => pool = "none"
    /\ main \notin {"connect", "pool", "exited"} => pool = "open"
    /\ main \notin {"connect", "start", "background", "pool", "exited"} =>
           background = IF HasBackground THEN "running" ELSE "off"
    /\ main \in {"pool", "exited"} => background \in {"off", "stopped"}
    /\ background = "told" => main = "background"
    /\ \A r \in Request : request[r] = "publish" => service = "redirect"
    /\ ~flushFailed

IInv == TypeOK /\ Unserved /\ Timely /\ Quiet /\ Layered

--------------------------------------------------------------------------------
(* Connections.                                                            *)

LEMMA QueryingFinite == IsFiniteSet(Querying) /\ Cardinality(Querying) \in Nat
BY LifecycleAssumption, FS_Subset, FS_CardinalityType DEF Querying

\* Steps that take no connection.
LEMMA ConnsKept ==
    ASSUME TypeOK, Querying' \subseteq Querying, flushing' \in BOOLEAN,
      flushing' => flushing
    PROVE  Conns' <= MaxConns
<1>1. Cardinality(Querying') \in Nat /\ Cardinality(Querying') <= Cardinality(Querying)
  BY QueryingFinite, FS_Subset, FS_CardinalityType
<1> QED BY <1>1, QueryingFinite, LifecycleAssumption DEF Conns, TypeOK

\* A process that is gone holds none.
LEMMA ExitConns == TypeOK /\ Exit => Conns' = 0
<1> SUFFICES ASSUME TypeOK, Exit
             PROVE  Conns' = 0
  OBVIOUS
<1>1. Querying' = {} /\ flushing' = FALSE
  BY DEF Exit, Querying, InFlight, Running, TypeOK
<1> QED BY <1>1, FS_EmptySet DEF Conns

LEMMA ExitTypeOK == TypeOK /\ Exit /\ terminating' \in BOOLEAN
                    /\ trouble' \subseteq {"early", "error", "timeout"} => TypeOK'
<1> SUFFICES ASSUME TypeOK, Exit, terminating' \in BOOLEAN,
                    trouble' \subseteq {"early", "error", "timeout"}
             PROVE  TypeOK'
  OBVIOUS
<1>1. Conns' <= MaxConns
  BY ExitConns, LifecycleAssumption
<1>2. /\ flushing' \in BOOLEAN /\ public' \in BOOLEAN
      /\ admin' \in BOOLEAN /\ probe' \in BOOLEAN
  BY Zenon DEF Exit
<1>3. request' \in [Request -> {"new"} \cup Running \cup Ended]
  BY DEF Exit, TypeOK, Ended
<1>4. background' \in {"off", "running", "told", "stopped"}
  BY DEF Exit
<1> QED BY <1>1, <1>2, <1>3, <1>4 DEF Exit, TypeOK, Closing

LEMMA TypeStep == TypeOK /\ [Next]_vars => TypeOK'
<1> SUFFICES ASSUME TypeOK, [Next]_vars
             PROVE  TypeOK'
  OBVIOUS
<1> USE LifecycleAssumption DEF world, goroutine, servers
<1>1. CASE Connect
  <2>1. Conns' <= MaxConns
    BY <1>1, ConnsKept DEF Connect, Querying, TypeOK
  <2> QED BY <1>1, <2>1 DEF Connect, Go, TypeOK, Starting, Closing
<1>2. CASE StartBackground
  <2>1. Conns' <= MaxConns
    BY <1>2, ConnsKept DEF StartBackground, Querying, TypeOK
  <2> QED BY <1>2, <2>1 DEF StartBackground, Go, TypeOK, Starting, Closing
<1>3. CASE Bind
  <2>1. Conns' <= MaxConns
    BY <1>3, ConnsKept DEF Bind, Querying, TypeOK
  <2> QED BY <1>3, <2>1 DEF Bind, Go, TypeOK, Starting, Closing
<1>4. CASE Serve
  <2>1. Conns' <= MaxConns
    BY <1>4, ConnsKept DEF Serve, Querying, TypeOK
  <2> QED BY <1>4, <2>1 DEF Serve, Go, TypeOK, Starting, Closing
<1>5. CASE Notify
  <2>1. Conns' <= MaxConns
    BY <1>5, ConnsKept DEF Notify, Querying, TypeOK
  <2> QED BY <1>5, <2>1 DEF Notify, Go, TypeOK, Starting, Closing
<1>6. CASE SelectError
  <2>1. Conns' <= MaxConns
    BY <1>6, ConnsKept DEF SelectError, Querying, TypeOK
  <2> QED BY <1>6, <2>1 DEF SelectError, Go, AfterServers, TypeOK, Starting, Closing
<1>7. CASE SelectSignal
  <2>1. Conns' <= MaxConns
    BY <1>7, ConnsKept DEF SelectSignal, Querying, TypeOK
  <2> QED BY <1>7, <2>1 DEF SelectSignal, Go, TypeOK, Starting, Closing
<1>8. CASE DrainEnds
  <2>1. Conns' <= MaxConns
    BY <1>8, ConnsKept DEF DrainEnds, Querying, TypeOK
  <2>2. public' \in BOOLEAN
    BY <1>8, Zenon DEF DrainEnds
  <2> QED BY <1>8, <2>1, <2>2 DEF DrainEnds, Go, TypeOK, Starting, Closing
<1>9. CASE PublicDown
  <2>1. Conns' <= MaxConns
    BY <1>9, ConnsKept DEF PublicDown, Querying, TypeOK
  <2>2. admin' \in BOOLEAN
    BY <1>9, Zenon DEF PublicDown
  <2>3. trouble' \subseteq {"early", "error", "timeout"}
    BY <1>9 DEF PublicDown, TypeOK
  <2> QED BY <1>9, <2>1, <2>2, <2>3 DEF PublicDown, Go, AdminDeadline, TypeOK
<1>10. CASE AdminDown
  <2>1. Conns' <= MaxConns
    BY <1>10, ConnsKept DEF AdminDown, Querying, TypeOK
  <2> QED BY <1>10, <2>1 DEF AdminDown, Go, AfterServers, TypeOK, Starting, Closing
<1>11. CASE CloseBackground
  <2>1. Conns' <= MaxConns
    BY <1>11, ConnsKept DEF CloseBackground, Querying, TypeOK
  <2> QED BY <1>11, <2>1 DEF CloseBackground, Told, TypeOK, Starting, Closing
<1>12. CASE BackgroundClosed
  <2>1. Conns' <= MaxConns
    BY <1>12, ConnsKept DEF BackgroundClosed, Querying, TypeOK
  <2> QED BY <1>12, <2>1 DEF BackgroundClosed, Go, TypeOK, Starting, Closing
<1>13. CASE ClosePool
  <2>1. Conns' <= MaxConns
    BY <1>13, ConnsKept DEF ClosePool, Querying, TypeOK
  <2> QED BY <1>13, <2>1 DEF ClosePool, TypeOK, Starting, Closing
<1>14. CASE Return
  BY <1>14, ExitTypeOK DEF Return, TypeOK
<1>15. CASE FlushBegins
  <2>1. Conns' <= MaxConns
    BY <1>15, QueryingFinite DEF FlushBegins, FreeConn, Conns, Querying, TypeOK
  <2>2. flushing' \in BOOLEAN /\ flushFailed' \in BOOLEAN
    BY <1>15, Zenon DEF FlushBegins, TypeOK
  <2> QED BY <1>15, <2>1, <2>2 DEF FlushBegins, TypeOK
<1>16. CASE FlushEnds
  <2>1. Conns' <= MaxConns
    BY <1>16, ConnsKept DEF FlushEnds, Querying, TypeOK
  <2>2. flushing' \in BOOLEAN
    BY <1>16, Zenon DEF FlushEnds
  <2> QED BY <1>16, <2>1, <2>2 DEF FlushEnds, TypeOK, Starting, Closing
<1>17. CASE BackgroundStops
  <2>1. Conns' <= MaxConns
    BY <1>17, ConnsKept DEF BackgroundStops, Querying, TypeOK
  <2> QED BY <1>17, <2>1 DEF BackgroundStops, TypeOK, Starting, Closing
<1>18. ASSUME NEW r \in Request, Send(r)
      PROVE  TypeOK'
  <2>1. Conns' <= MaxConns
    BY <1>18, ConnsKept DEF Send, Becomes, process, Querying, TypeOK
  <2> QED BY <1>18, <2>1 DEF Send, Becomes, process, Running, Ended, TypeOK, Starting,
                             Closing
<1>19. ASSUME NEW r \in Request, Query(r)
      PROVE  TypeOK'
  <2>1. Conns' <= MaxConns
    <3>1. CASE FreeConn /\ Becomes(r, "query")
      <4>1. Querying' = Querying \cup {r} /\ r \notin Querying
        BY <1>19, <3>1 DEF Query, Becomes, Querying, TypeOK
      <4>2. Cardinality(Querying') = Cardinality(Querying) + 1
        BY <4>1, QueryingFinite, FS_AddElement
      <4> QED BY <1>19, <3>1, <4>2, QueryingFinite DEF Query, FreeConn, Conns, process,
                                                       TypeOK
    <3>2. CASE Becomes(r, "failed")
      BY <1>19, <3>2, ConnsKept DEF Query, Becomes, Querying, process, TypeOK
    <3> QED BY <1>19, <3>1, <3>2 DEF Query
  <2> QED BY <1>19, <2>1 DEF Query, Becomes, process, Running, Ended, TypeOK
<1>20. ASSUME NEW r \in Request, QueryReturns(r)
      PROVE  TypeOK'
  <2>1. Conns' <= MaxConns
    BY <1>20, ConnsKept DEF QueryReturns, Becomes, process, Querying, TypeOK
  <2> QED BY <1>20, <2>1 DEF QueryReturns, Becomes, process, Running, Ended, TypeOK,
                             Starting, Closing
<1>21. ASSUME NEW r \in Request, Publish(r)
      PROVE  TypeOK'
  <2>1. Conns' <= MaxConns
    BY <1>21, ConnsKept DEF Publish, Becomes, process, Querying, TypeOK
  <2> QED BY <1>21, <2>1 DEF Publish, Becomes, process, Running, Ended, TypeOK, Starting,
                             Closing
<1>22. CASE ProbeBegins
  <2>1. Conns' <= MaxConns
    BY <1>22, ConnsKept DEF ProbeBegins, process, Querying, TypeOK
  <2> QED BY <1>22, <2>1 DEF ProbeBegins, process, TypeOK, Starting, Closing
<1>23. CASE ProbeEnds
  <2>1. Conns' <= MaxConns
    BY <1>23, ConnsKept DEF ProbeEnds, process, Querying, TypeOK
  <2>2. probe' \in BOOLEAN /\ listed' \in BOOLEAN
    BY <1>23, Zenon DEF ProbeEnds, TypeOK
  <2> QED BY <1>23, <2>1, <2>2 DEF ProbeEnds, process, TypeOK, Starting, Closing
<1>24. CASE ServeFails
  <2>1. Conns' <= MaxConns
    BY <1>24, ConnsKept DEF ServeFails, Querying, TypeOK
  <2>2. public' \in BOOLEAN /\ admin' \in BOOLEAN
    BY <1>24, Zenon DEF ServeFails, TypeOK
  <2> QED BY <1>24, <2>1, <2>2 DEF ServeFails, TypeOK, Starting, Closing
<1>25. CASE Unlist
  <2>1. Conns' <= MaxConns
    BY <1>25, ConnsKept DEF Unlist, process, Querying, TypeOK
  <2>2. listed' \in BOOLEAN
    BY <1>25, Zenon DEF Unlist
  <2> QED BY <1>25, <2>1, <2>2 DEF Unlist, process, TypeOK, Starting, Closing
<1>26. CASE Tick
  <2>1. Conns' <= MaxConns
    BY <1>26, ConnsKept DEF Tick, process, Querying, TypeOK
  <2> QED BY <1>26, <2>1 DEF Tick, process, TypeOK, Starting, Closing
<1>27. CASE Sigterm
  <2>1. CASE UNCHANGED <<process, request, probe, listed, now, trouble>>
    <3>1. Conns' <= MaxConns
      BY <2>1, ConnsKept DEF Querying, process, TypeOK
    <3> QED BY <1>27, <2>1, <3>1 DEF Sigterm, process, TypeOK
  <2>2. CASE Exit /\ trouble' = trouble \cup {"early"}
    BY <1>27, <2>2, ExitTypeOK DEF Sigterm, TypeOK
  <2> QED BY <1>27, <2>1, <2>2 DEF Sigterm
<1>28. CASE Kill
  BY <1>28, ExitTypeOK DEF Kill, TypeOK
<1>29. CASE UNCHANGED vars
  BY <1>29 DEF vars, process, Conns, Querying, TypeOK
<1> QED BY <1>1, <1>2, <1>3, <1>4, <1>5, <1>6, <1>7, <1>8, <1>9, <1>10, <1>11, <1>12,
           <1>13, <1>14, <1>15, <1>16, <1>17, <1>18, <1>19, <1>20, <1>21, <1>22, <1>23,
           <1>24, <1>25, <1>26, <1>27, <1>28, <1>29
        DEF Next, Main, Handler

--------------------------------------------------------------------------------
(* The invariant.                                                          *)

\* A probe is only waited for, and requests only come, once the servers run.
LEMMA UnservedStep == TypeOK /\ Unserved /\ Timely /\ [Next]_vars => Unserved'
<1> SUFFICES ASSUME TypeOK, Unserved, Timely, [Next]_vars
             PROVE  Unserved'
  OBVIOUS
<1> USE LifecycleAssumption DEF world, goroutine, servers, TypeOK, Starting, Closing,
                                Unserved, Timely, Bound
<1>1. CASE Connect \/ StartBackground \/ Bind \/ Serve \/ Notify
  BY <1>1 DEF Connect, Go, StartBackground, Bind, Serve, Notify
<1>2. CASE SelectError
  BY <1>2 DEF SelectError, Go, AfterServers
<1>3. CASE SelectSignal
  BY <1>3 DEF SelectSignal, Go
<1>4. CASE DrainEnds
  BY <1>4 DEF DrainEnds, Go, DrainOver
<1>5. CASE PublicDown
  BY <1>5 DEF PublicDown, Go, AdminDeadline, HandlersDone
<1>6. CASE AdminDown
  BY <1>6 DEF AdminDown, Go, AfterServers
<1>7. CASE CloseBackground \/ BackgroundClosed \/ ClosePool
  BY <1>7 DEF CloseBackground, Told, BackgroundClosed, Go, ClosePool
<1>8. CASE Return
  BY <1>8 DEF Return, Exit, InFlight, Running
<1>9. CASE FlushBegins \/ FlushEnds \/ BackgroundStops
  BY <1>9 DEF FlushBegins, FlushEnds, BackgroundStops
<1>10. ASSUME NEW r \in Request, Send(r) \/ Query(r) \/ QueryReturns(r) \/ Publish(r)
      PROVE  Unserved'
  BY <1>10 DEF Send, Becomes, process, Query, QueryReturns, Publish
<1>11. CASE ProbeBegins \/ ProbeEnds \/ Unlist
  BY <1>11 DEF ProbeBegins, process, ProbeEnds, Unlist
<1>12. CASE ServeFails
  BY <1>12 DEF ServeFails
<1>13. CASE Sigterm
  BY <1>13 DEF Sigterm, process, Exit, InFlight, Running
<1>14. CASE Tick
  BY <1>14 DEF Tick, process, Waiting, HandlersDone
<1>15. CASE Kill
  BY <1>15 DEF Kill, Exit, InFlight, Running
<1>16. CASE UNCHANGED vars
  BY <1>16 DEF vars, process
<1> QED BY <1>1, <1>2, <1>3, <1>4, <1>5, <1>6, <1>7, <1>8,
           <1>9, <1>10, <1>11, <1>12, <1>13, <1>14, <1>15, <1>16
        DEF Next, Main, Handler

\* Every timer is set to the end of the wait it belongs to.
LEMMA TimelyStep == TypeOK /\ Timely /\ Unserved /\ [Next]_vars => Timely'
<1> SUFFICES ASSUME TypeOK, Timely, Unserved, [Next]_vars
             PROVE  Timely'
  OBVIOUS
<1> USE LifecycleAssumption DEF world, goroutine, servers, TypeOK, Starting, Closing,
                                Timely, Unserved, Bound
<1>1. CASE Connect \/ StartBackground \/ Bind \/ Serve \/ Notify
  BY <1>1 DEF Connect, Go, StartBackground, Bind, Serve, Notify
<1>2. CASE SelectError
  BY <1>2 DEF SelectError, Go, AfterServers
<1>3. CASE SelectSignal
  BY <1>3 DEF SelectSignal, Go
<1>4. CASE DrainEnds
  BY <1>4 DEF DrainEnds, Go, DrainOver
<1>5. CASE PublicDown
  BY <1>5 DEF PublicDown, Go, AdminDeadline, HandlersDone
<1>6. CASE AdminDown
  BY <1>6 DEF AdminDown, Go, AfterServers
<1>7. CASE CloseBackground \/ BackgroundClosed \/ ClosePool
  BY <1>7 DEF CloseBackground, Told, BackgroundClosed, Go, ClosePool
<1>8. CASE Return
  BY <1>8 DEF Return, Exit
<1>9. CASE FlushBegins \/ FlushEnds \/ BackgroundStops
  BY <1>9 DEF FlushBegins, FlushEnds, BackgroundStops
<1>10. ASSUME NEW r \in Request, Send(r) \/ Query(r) \/ QueryReturns(r) \/ Publish(r)
      PROVE  Timely'
  BY <1>10 DEF Send, Becomes, process, Query, QueryReturns, Publish
<1>11. CASE ProbeBegins \/ ProbeEnds \/ Unlist
  BY <1>11 DEF ProbeBegins, process, ProbeEnds, Unlist
<1>12. CASE ServeFails
  BY <1>12 DEF ServeFails
<1>13. CASE Sigterm
  BY <1>13 DEF Sigterm, process, Exit
<1>14. CASE Tick
  BY <1>14 DEF Tick, process, Waiting, HandlersDone
<1>15. CASE Kill
  BY <1>15 DEF Kill, Exit
<1>16. CASE UNCHANGED vars
  BY <1>16 DEF vars, process
<1> QED BY <1>1, <1>2, <1>3, <1>4, <1>5, <1>6, <1>7, <1>8,
           <1>9, <1>10, <1>11, <1>12, <1>13, <1>14, <1>15, <1>16
        DEF Next, Main, Handler

\* The pool is opened first and closed last.
LEMMA LayeredStep == TypeOK /\ Layered /\ [Next]_vars => Layered'
<1> SUFFICES ASSUME TypeOK, Layered, [Next]_vars
             PROVE  Layered'
  OBVIOUS
<1> USE LifecycleAssumption DEF world, goroutine, servers, TypeOK, Starting, Closing,
                                Layered, HasBackground
<1>1. CASE Connect \/ StartBackground \/ Bind \/ Serve \/ Notify
  BY <1>1 DEF Connect, Go, StartBackground, Bind, Serve, Notify
<1>2. CASE SelectError
  BY <1>2 DEF SelectError, Go, AfterServers
<1>3. CASE SelectSignal
  BY <1>3 DEF SelectSignal, Go
<1>4. CASE DrainEnds
  BY <1>4 DEF DrainEnds, Go, DrainOver
<1>5. CASE PublicDown
  BY <1>5 DEF PublicDown, Go, AdminDeadline, HandlersDone
<1>6. CASE AdminDown
  BY <1>6 DEF AdminDown, Go, AfterServers
<1>7. CASE CloseBackground \/ BackgroundClosed \/ ClosePool
  BY <1>7 DEF CloseBackground, Told, BackgroundClosed, Go, ClosePool
<1>8. CASE Return
  BY <1>8 DEF Return, Exit, InFlight, Running
<1>9. CASE FlushBegins \/ FlushEnds \/ BackgroundStops
  BY <1>9 DEF FlushBegins, FlushEnds, BackgroundStops
<1>10. ASSUME NEW r \in Request, Send(r) \/ Query(r) \/ QueryReturns(r) \/ Publish(r)
      PROVE  Layered'
  BY <1>10 DEF Send, Becomes, process, Query, QueryReturns, Publish
<1>11. CASE ProbeBegins \/ ProbeEnds \/ Unlist
  BY <1>11 DEF ProbeBegins, process, ProbeEnds, Unlist
<1>12. CASE ServeFails
  BY <1>12 DEF ServeFails
<1>13. CASE Sigterm
  BY <1>13 DEF Sigterm, process, Exit, InFlight, Running
<1>14. CASE Tick
  BY <1>14 DEF Tick, process, Waiting, HandlersDone
<1>15. CASE Kill
  BY <1>15 DEF Kill, Exit, InFlight, Running
<1>16. CASE UNCHANGED vars
  BY <1>16 DEF vars, process
<1> QED BY <1>1, <1>2, <1>3, <1>4, <1>5, <1>6, <1>7, <1>8,
           <1>9, <1>10, <1>11, <1>12, <1>13, <1>14, <1>15, <1>16
        DEF Next, Main, Handler

\* The end of the sleep finds the pod unlisted; the rest follows in order.
LEMMA QuietStep ==
    TypeOK /\ Quiet /\ Unserved /\ Timely /\ Layered /\ [Next]_vars => Quiet'
<1> SUFFICES ASSUME TypeOK, Quiet, Unserved, Timely, Layered, [Next]_vars
             PROVE  Quiet'
  OBVIOUS
<1> USE LifecycleAssumption DEF world, goroutine, servers, TypeOK, Starting, Closing,
                                OrderlyShutdown, InFlight, Running, Quiet, Unserved,
                                  Timely, Layered, Bound,
                                HasBackground
<1>1. CASE Connect \/ StartBackground \/ Bind \/ Serve \/ Notify
  BY <1>1 DEF Connect, Go, StartBackground, Bind, Serve, Notify
<1>2. CASE SelectError
  BY <1>2 DEF SelectError, Go, AfterServers
<1>3. CASE SelectSignal
  BY <1>3 DEF SelectSignal, Go
<1>4. CASE DrainEnds
  BY <1>4 DEF DrainEnds, Go, DrainOver
<1>5. CASE PublicDown
  BY <1>5 DEF PublicDown, Go, AdminDeadline, HandlersDone
<1>6. CASE AdminDown
  BY <1>6 DEF AdminDown, Go, AfterServers
<1>7. CASE CloseBackground \/ BackgroundClosed \/ ClosePool
  BY <1>7 DEF CloseBackground, Told, BackgroundClosed, Go, ClosePool
<1>8. CASE Return
  BY <1>8 DEF Return, Exit
<1>9. CASE FlushBegins \/ FlushEnds \/ BackgroundStops
  BY <1>9 DEF FlushBegins, FlushEnds, BackgroundStops
<1>10. ASSUME NEW r \in Request, Send(r) \/ Query(r) \/ QueryReturns(r) \/ Publish(r)
      PROVE  Quiet'
  BY <1>10 DEF Send, Becomes, process, Query, QueryReturns, Publish
<1>11. CASE ProbeBegins \/ ProbeEnds \/ Unlist
  BY <1>11 DEF ProbeBegins, process, ProbeEnds, Unlist
<1>12. CASE ServeFails
  BY <1>12 DEF ServeFails
<1>13. CASE Sigterm
  BY <1>13 DEF Sigterm, process, Exit
<1>14. CASE Tick
  BY <1>14 DEF Tick, process, Waiting, HandlersDone
<1>15. CASE Kill
  BY <1>15 DEF Kill, Exit
<1>16. CASE UNCHANGED vars
  BY <1>16 DEF vars, process
<1> QED BY <1>1, <1>2, <1>3, <1>4, <1>5, <1>6, <1>7, <1>8,
           <1>9, <1>10, <1>11, <1>12, <1>13, <1>14, <1>15, <1>16
        DEF Next, Main, Handler

LEMMA InitIInv == Init => IInv
<1> SUFFICES ASSUME Init
             PROVE  IInv
  OBVIOUS
<1>1. Conns = 0
  <2>1. Querying = {} /\ flushing = FALSE
    BY DEF Init, Querying
  <2> QED BY <2>1, FS_EmptySet DEF Conns
<1>2. TypeOK
  <2>1. /\ flushing \in BOOLEAN /\ flushFailed \in BOOLEAN /\ public \in BOOLEAN
        /\ admin \in BOOLEAN /\ draining \in BOOLEAN /\ probe \in BOOLEAN
        /\ listed \in BOOLEAN /\ terminating \in BOOLEAN
    BY Zenon DEF Init
  <2> QED BY <1>1, <2>1, LifecycleAssumption DEF Init, TypeOK, Starting
<1>3. Unserved /\ Timely /\ Quiet /\ Layered
  BY LifecycleAssumption DEF Init, Unserved, Timely, Quiet, Layered, Bound, Starting,
                             Closing, OrderlyShutdown
<1> QED BY <1>2, <1>3 DEF IInv

THEOREM Invariance == Spec => []IInv
<1>1. IInv /\ [Next]_vars => IInv'
  BY TypeStep, UnservedStep, TimelyStep, LayeredStep, QuietStep DEF IInv
<1> QED BY <1>1, InitIInv, PTL DEF Spec

\* Without trouble no client notices the end of the pod.
THEOREM ShutdownIsOrderly == Spec => []OrderlyShutdown
<1>1. IInv => OrderlyShutdown
  BY DEF IInv, Quiet, OrderlyShutdown
<1> QED BY <1>1, Invariance, PTL

\* The consumer's flushes never meet a closed pool.
THEOREM FlushesHavePool == Spec => []FlushHasPool
<1>1. IInv => FlushHasPool
  BY DEF IInv, Layered, FlushHasPool
<1> QED BY <1>1, Invariance, PTL

\* The waits of the shutdown are over before the kill.
THEOREM StopsAreTimely == Spec => []ToldToStopInTime
<1>1. IInv => ToldToStopInTime
  BY LifecycleAssumption DEF IInv, TypeOK, Timely, ToldToStopInTime, Starting, Closing
<1> QED BY <1>1, Invariance, PTL

\* No more connections are in use than the pool has, at any stage.
THEOREM TypesLifecycle == Spec => []TypeOK
<1>1. IInv => TypeOK
  BY DEF IInv
<1> QED BY <1>1, Invariance, PTL

================================================================================
