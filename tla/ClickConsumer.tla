----------------------------- MODULE ClickConsumer -----------------------------
(***************************************************************************)
(* The click consumer of the analytics-service                             *)
(* (internal/consumers/click_consumer.go): every replica keeps one AMQP    *)
(* session open, collects deliveries into a batch, stores the batch in one *)
(* database round trip and then acknowledges, or on an error requeues,     *)
(* everything up to the last delivery of the batch.                        *)
(*                                                                         *)
(* Around it, modelled from how the code uses them: the RabbitMQ queue     *)
(* with its unacknowledged deliveries per session, the clicks table, and   *)
(* the processes being killed, stopped and started again.                  *)
(*                                                                         *)
(* A delivery is the pair of its tag and its message.  Tags grow by one    *)
(* within a session, so sets of deliveries carry their own order and stand *)
(* for the Go channel and the Go slice.                                    *)
(***************************************************************************)
EXTENDS Naturals, FiniteSets

CONSTANTS
    Replica,      \* pods of the analytics-service
    Msg,          \* click events published to the exchange
    Malformed,    \* those json.Unmarshal refuses
    Prefetch,     \* CONSUMER_PREFETCH; the broker takes 0 as no limit
    BatchSize,    \* BATCH_SIZE
    MaxFaults,    \* bound: session losses, crashes, broker restarts, lost commits
    MaxFailures,  \* bound: failed dials and rolled back inserts
    MaxCloses     \* bound: graceful shutdowns

ASSUME ConsumerAssumption ==
    /\ Malformed \subseteq Msg
    /\ Prefetch \in Nat
    /\ BatchSize \in Nat
    /\ MaxFaults \in Nat
    /\ MaxFailures \in Nat
    /\ MaxCloses \in Nat

VARIABLES
    published,    \* events that reached the exchange
    bound,        \* the queue exists and is bound to the exchange
    ready,        \* queued events waiting to be delivered
    lost,         \* events the broker discarded
    unacked,      \* per session: deliveries the broker has no answer for
    nextTag,      \* per session: tag of the next delivery
    session,      \* the replica's connection: "none", "open" or "dead"
    inbox,        \* deliveries in the Go channel the loop reads from
    events,       \* the batch collected so far
    last,         \* tag of the latest delivery added to a batch, 0 if none
    pc,           \* where the consumer goroutine is
    leaving,      \* the flush in progress is the last one of the session
    result,       \* what InsertClickEventBatch returned
    done,         \* Close was called
    rows,         \* clicks table: number of rows stored for each event
    faults, failures, closes

broker == <<published, bound, ready, lost, unacked, nextTag>>
client == <<session, inbox, events, last, pc, leaving, result, done>>
budget == <<faults, failures, closes>>
vars == <<broker, client, rows, budget>>

Delivery == [tag : Nat, msg : Msg]
Msgs(ds) == {d.msg : d \in ds}
Valid == Msg \ Malformed

Where == {"dial", "wait", "loop", "insert", "settle", "return", "stopped"}

TypeOK ==
    /\ published \in SUBSET Msg
    /\ bound \in BOOLEAN
    /\ ready \in SUBSET Msg
    /\ lost \in SUBSET Msg
    /\ unacked \in [Replica -> SUBSET Delivery]
    /\ nextTag \in [Replica -> Nat]
    /\ session \in [Replica -> {"none", "open", "dead"}]
    /\ inbox \in [Replica -> SUBSET Delivery]
    /\ events \in [Replica -> SUBSET Delivery]
    /\ last \in [Replica -> Nat]
    /\ pc \in [Replica -> Where]
    /\ leaving \in [Replica -> BOOLEAN]
    /\ result \in [Replica -> {"none", "ok", "err"}]
    /\ done \in [Replica -> BOOLEAN]
    /\ rows \in [Msg -> Nat]
    /\ faults \in Nat
    /\ failures \in Nat
    /\ closes \in Nat

Init ==
    /\ published = {}
    /\ bound = FALSE
    /\ ready = {}
    /\ lost = {}
    /\ unacked = [r \in Replica |-> {}]
    /\ nextTag = [r \in Replica |-> 1]
    /\ session = [r \in Replica |-> "none"]
    /\ inbox = [r \in Replica |-> {}]
    /\ events = [r \in Replica |-> {}]
    /\ last = [r \in Replica |-> 0]
    /\ pc = [r \in Replica |-> "dial"]
    /\ leaving = [r \in Replica |-> FALSE]
    /\ result = [r \in Replica |-> "none"]
    /\ done = [r \in Replica |-> FALSE]
    /\ rows = [m \in Msg |-> 0]
    /\ faults = 0
    /\ failures = 0
    /\ closes = 0

--------------------------------------------------------------------------------
(* The broker.                                                             *)

\* A publisher's event reaches the exchange, which drops it when no queue is
\* bound yet: the binding is made by the consumer, the exchange by both sides.
Arrive(m) ==
    /\ m \notin published
    /\ published' = published \cup {m}
    /\ IF bound
       THEN ready' = ready \cup {m} /\ UNCHANGED lost
       ELSE lost' = lost \cup {m} /\ UNCHANGED ready
    /\ UNCHANGED <<bound, unacked, nextTag, client, rows, budget>>

Deliver(r) ==
    /\ session[r] = "open"
    /\ Prefetch = 0 \/ Cardinality(unacked[r]) < Prefetch
    /\ \E m \in ready :
         LET d == [tag |-> nextTag[r], msg |-> m] IN
         /\ ready' = ready \ {m}
         /\ unacked' = [unacked EXCEPT ![r] = @ \cup {d}]
         /\ inbox' = [inbox EXCEPT ![r] = @ \cup {d}]
    /\ nextTag' = [nextTag EXCEPT ![r] = @ + 1]
    /\ UNCHANGED <<published, bound, lost, session, events, last, pc, leaving,
                   result, done, rows, budget>>

\* The broker gives up a session: what it had not been answered is queued again.
Requeue(r) ==
    /\ ready' = ready \cup Msgs(unacked[r])
    /\ unacked' = [unacked EXCEPT ![r] = {}]

SessionLoss(r) ==
    /\ faults < MaxFaults
    /\ session[r] = "open"
    /\ session' = [session EXCEPT ![r] = "dead"]
    /\ Requeue(r)
    /\ faults' = faults + 1
    /\ UNCHANGED <<published, bound, lost, nextTag, inbox, events, last, pc,
                   leaving, result, done, rows, failures, closes>>

\* The publisher leaves DeliveryMode at its zero value, transient: a restart
\* empties the queue.  The durable queue itself survives unless the broker's
\* disk does not, as in docker-compose where rabbitmq has no volume.
BrokerRestart ==
    /\ faults < MaxFaults
    /\ lost' = lost \cup ready \cup UNION {Msgs(unacked[r]) : r \in Replica}
    /\ ready' = {}
    /\ unacked' = [r \in Replica |-> {}]
    /\ session' = [r \in Replica |-> IF session[r] = "open" THEN "dead"
                                                            ELSE session[r]]
    /\ bound' \in {bound, FALSE}
    /\ faults' = faults + 1
    /\ UNCHANGED <<published, nextTag, inbox, events, last, pc, leaving, result,
                   done, rows, failures, closes>>

--------------------------------------------------------------------------------
(* Slips that the definitions below could have been written with; the      *)
(* properties at the end tell each of them from the code.                  *)

\* Malformed deliveries acknowledged with multiple=true, or not at all.
AckOneAsMultiple(r, d) == {e \in unacked[r] : e.tag > d.tag}
AckOneForgotten(r, d) == unacked[r]

\* A multiple answer that stops short of the last delivery.
UpToLastExclusive(r) == {d \in unacked[r] : d.tag < last[r]}

\* A ticker that flushes full batches only.
TickFlushesFullOnly(r) == events[r] # {} /\ Cardinality(events[r]) >= BatchSize

\* Break where return is meant: it leaves the select and not the loop.
LeaveSelectOnly(r) ==
    /\ pc' = [pc EXCEPT ![r] = IF events[r] = {} THEN "loop" ELSE "insert"]
    /\ UNCHANGED <<broker, session, inbox, events, last, leaving, result, done,
                   rows, budget>>

\* A failed batch acknowledged all the same, or requeued as deliveries.
RequeuedNever(r) == {}
RequeuedDeliveries(r) == IF result[r] = "ok" THEN {}
                         ELSE {d \in unacked[r] : d.tag <= last[r]}

\* The missing events = events[:0].
AfterFlushKept(r) == events[r]

--------------------------------------------------------------------------------
(* The consumer goroutine: run, consume, loop and flush.                   *)

\* Dial, open a channel, declare, Consume: a session with nothing delivered yet.
Connect(r) ==
    /\ pc[r] = "dial"
    /\ pc' = [pc EXCEPT ![r] = "loop"]
    /\ bound' = TRUE
    /\ session' = [session EXCEPT ![r] = "open"]
    /\ nextTag' = [nextTag EXCEPT ![r] = 1]
    /\ UNCHANGED <<published, ready, lost, unacked, inbox, events, last, leaving,
                   result, done, rows, budget>>

\* Any step of consume up to Consume itself may fail, the binding made or not.
DialFails(r) ==
    /\ pc[r] = "dial"
    /\ failures < MaxFailures
    /\ pc' = [pc EXCEPT ![r] = "wait"]
    /\ bound' \in {bound, TRUE}
    /\ failures' = failures + 1
    /\ UNCHANGED <<published, ready, lost, unacked, nextTag, session, inbox,
                   events, last, leaving, result, done, rows, faults, closes>>

\* What stays unacknowledged after basic.ack of one delivery, and the deliveries
\* a multiple answer to last[r] covers.
AckOne(r, d) == unacked[r] \ {d}
UpToLast(r) == {d \in unacked[r] : d.tag <= last[r]}

BatchFull(es) == Cardinality(es) >= BatchSize

\* case delivery, ok := <-deliveries, with ok.
Receive(r) ==
    /\ pc[r] = "loop"
    /\ \E d \in inbox[r] :
         /\ \A e \in inbox[r] : d.tag <= e.tag
         /\ inbox' = [inbox EXCEPT ![r] = @ \ {d}]
         /\ \/ /\ d.msg \in Malformed
               /\ unacked' = [unacked EXCEPT ![r] = AckOne(r, d)]
               /\ UNCHANGED <<events, last, pc>>
            \/ /\ d.msg \notin Malformed
               /\ events' = [events EXCEPT ![r] = @ \cup {d}]
               /\ last' = [last EXCEPT ![r] = d.tag]
               /\ pc' = [pc EXCEPT ![r] = IF BatchFull(events'[r])
                                          THEN "insert" ELSE "loop"]
               /\ UNCHANGED unacked
    /\ UNCHANGED <<published, bound, ready, lost, nextTag, session, leaving,
                   result, done, rows, budget>>

\* case <-ticker.C: flush a partial batch.
TickFlushes(r) == events[r] # {}

Tick(r) ==
    /\ pc[r] = "loop"
    /\ TickFlushes(r)
    /\ pc' = [pc EXCEPT ![r] = "insert"]
    /\ UNCHANGED <<broker, session, inbox, events, last, leaving, result, done,
                   rows, budget>>

\* Both exits of the loop flush once more, and flush ignores an empty batch.
Leave(r) ==
    /\ pc' = [pc EXCEPT ![r] = IF events[r] = {} THEN "return" ELSE "insert"]
    /\ leaving' = [leaving EXCEPT ![r] = TRUE]
    /\ UNCHANGED <<broker, session, inbox, events, last, result, done, rows, budget>>

\* case <-c.done.
SeeDone(r) ==
    /\ pc[r] = "loop"
    /\ done[r]
    /\ Leave(r)

\* The deliveries channel is closed.  The amqp library closes it without
\* draining its own buffer, so deliveries of a dead session may go unseen.
SeeClosed(r) ==
    /\ pc[r] = "loop"
    /\ session[r] = "dead"
    /\ Leave(r)

\* The rows of one more batch: every event of it, once.
WithBatch(r) ==
    [m \in Msg |-> rows[m] + Cardinality({d \in events[r] : d.msg = m})]

\* InsertClickEventBatch: one pgx batch, an implicit transaction.  It commits, it
\* fails and leaves nothing, or the answer to a commit is lost or times out.
Insert(r) ==
    /\ pc[r] = "insert"
    /\ \/ /\ rows' = WithBatch(r)
          /\ result' = [result EXCEPT ![r] = "ok"]
          /\ UNCHANGED budget
       \/ /\ failures < MaxFailures
          /\ result' = [result EXCEPT ![r] = "err"]
          /\ failures' = failures + 1
          /\ UNCHANGED <<rows, faults, closes>>
       \/ /\ faults < MaxFaults
          /\ rows' = WithBatch(r)
          /\ result' = [result EXCEPT ![r] = "err"]
          /\ faults' = faults + 1
          /\ UNCHANGED <<failures, closes>>
    /\ pc' = [pc EXCEPT ![r] = "settle"]
    /\ UNCHANGED <<broker, session, inbox, events, last, leaving, done>>

\* Ack(multiple) takes the deliveries for good, Nack(multiple, requeue) gives
\* them back to the queue.
Requeued(r) == IF result[r] = "ok" THEN {} ELSE Msgs(UpToLast(r))

\* events[:0] after a flush inside the loop; the slice dies with the session.
AfterFlush(r) == {}

\* The answer to the broker at the end of flush.  On a dead session it changes
\* nothing: the broker has no unacknowledged delivery of it any more.
Settle(r) ==
    /\ pc[r] = "settle"
    /\ unacked' = [unacked EXCEPT ![r] = @ \ UpToLast(r)]
    /\ ready' = ready \cup Requeued(r)
    /\ events' = [events EXCEPT ![r] = AfterFlush(r)]
    /\ result' = [result EXCEPT ![r] = "none"]
    /\ pc' = [pc EXCEPT ![r] = IF leaving[r] THEN "return" ELSE "loop"]
    /\ UNCHANGED <<published, bound, lost, nextTag, session, inbox, last,
                   leaving, done, rows, budget>>

\* consume returns: the deferred closes end the session, and the broker takes
\* back what was delivered and never answered, received or not.
Return(r) ==
    /\ pc[r] = "return"
    /\ pc' = [pc EXCEPT ![r] = "wait"]
    /\ Requeue(r)
    /\ session' = [session EXCEPT ![r] = "none"]
    /\ inbox' = [inbox EXCEPT ![r] = {}]
    /\ events' = [events EXCEPT ![r] = {}]
    /\ last' = [last EXCEPT ![r] = 0]
    /\ leaving' = [leaving EXCEPT ![r] = FALSE]
    /\ UNCHANGED <<published, bound, lost, nextTag, result, done, rows, budget>>

\* select in run: after the delay a new session, even if done was closed during it.
Redial(r) ==
    /\ pc[r] = "wait"
    /\ pc' = [pc EXCEPT ![r] = "dial"]
    /\ UNCHANGED <<broker, session, inbox, events, last, leaving, result, done,
                   rows, budget>>

StopRun(r) ==
    /\ pc[r] = "wait"
    /\ done[r]
    /\ pc' = [pc EXCEPT ![r] = "stopped"]
    /\ UNCHANGED <<broker, session, inbox, events, last, leaving, result, done,
                   rows, budget>>

--------------------------------------------------------------------------------
(* The process around the goroutine.                                       *)

\* The deferred Close of main closes done and waits for pc[r] = "stopped".
Close(r) ==
    /\ closes < MaxCloses
    /\ ~done[r]
    /\ done' = [done EXCEPT ![r] = TRUE]
    /\ closes' = closes + 1
    /\ UNCHANGED <<broker, session, inbox, events, last, pc, leaving, result,
                   rows, faults, failures>>

\* Kubernetes replaces a process that stopped; New and Start again.
Restart(r) ==
    /\ pc[r] = "stopped"
    /\ pc' = [pc EXCEPT ![r] = "dial"]
    /\ done' = [done EXCEPT ![r] = FALSE]
    /\ UNCHANGED <<broker, session, inbox, events, last, leaving, result, rows,
                   budget>>

\* The process is killed, perhaps with its batch on the way to the database.
Crash(r) ==
    /\ pc[r] # "stopped"
    /\ faults < MaxFaults
    /\ Requeue(r)
    /\ \/ UNCHANGED rows
       \/ pc[r] = "insert" /\ rows' = WithBatch(r)
    /\ session' = [session EXCEPT ![r] = "none"]
    /\ inbox' = [inbox EXCEPT ![r] = {}]
    /\ events' = [events EXCEPT ![r] = {}]
    /\ last' = [last EXCEPT ![r] = 0]
    /\ pc' = [pc EXCEPT ![r] = "dial"]
    /\ leaving' = [leaving EXCEPT ![r] = FALSE]
    /\ result' = [result EXCEPT ![r] = "none"]
    /\ done' = [done EXCEPT ![r] = FALSE]
    /\ faults' = faults + 1
    /\ UNCHANGED <<published, bound, lost, nextTag, failures, closes>>

--------------------------------------------------------------------------------
Goroutine(r) ==
    \/ Connect(r) \/ DialFails(r) \/ Receive(r) \/ Tick(r) \/ SeeDone(r)
    \/ SeeClosed(r) \/ Insert(r) \/ Settle(r) \/ Return(r) \/ Redial(r)
    \/ StopRun(r)

Environment(r) ==
    \/ Deliver(r) \/ SessionLoss(r) \/ Close(r) \/ Restart(r) \/ Crash(r)

Next ==
    \/ \E m \in Msg : Arrive(m)
    \/ \E r \in Replica : Goroutine(r) \/ Environment(r)
    \/ BrokerRestart

\* The broker keeps delivering, the goroutine keeps running and the ticker keeps
\* ticking; faults, failures and Close owe nothing.  Go's select picks among its
\* ready cases at random, so a closed done cannot be passed over for ever.
Fairness ==
    /\ \A r \in Replica :
         /\ WF_vars(Deliver(r)) /\ WF_vars(Restart(r))
         /\ WF_vars(Connect(r)) /\ WF_vars(Receive(r)) /\ WF_vars(Tick(r))
         /\ WF_vars(SeeDone(r)) /\ WF_vars(SeeClosed(r))
         /\ WF_vars(Insert(r)) /\ WF_vars(Settle(r)) /\ WF_vars(Return(r))
         /\ WF_vars(Redial(r)) /\ SF_vars(StopRun(r))

Spec == Init /\ [][Next]_vars
FairSpec == Spec /\ Fairness

--------------------------------------------------------------------------------
(* Properties.                                                             *)

InFlight == UNION {Msgs(unacked[r]) : r \in Replica}

\* No well-formed event disappears between the exchange and the table: until it
\* has a row the broker still holds it, ready or unacknowledged, unless the
\* broker itself discarded it.  The multiple acknowledgement of flush, the single
\* one of malformed events, the requeueing and every crash have to respect it.
NoLoss ==
    \A m \in published \cap Valid :
        m \in ready \/ m \in InFlight \/ rows[m] > 0 \/ m \in lost

\* Ack(multiple) answers for every delivery up to the last of the batch, by tag:
\* on a live session those are exactly the deliveries in the batch, and
\* whatever lies beyond has not been read from the channel yet.
AckCoversBatchOnly ==
    \A r \in Replica : \A d \in unacked[r] :
        IF d.tag <= last[r] THEN d \in events[r] ELSE d \in inbox[r]

\* The broker closes a channel on which an unknown tag is acknowledged: when
\* flush answers on a live session, the last delivery is still outstanding.
AnswersOutstandingTag ==
    \A r \in Replica :
        pc[r] = "settle" /\ session[r] = "open" =>
            \E d \in UpToLast(r) : d.tag = last[r]

\* A click is counted more than once only as often as something failed between
\* its insert and its acknowledgement: orderly reconnects, shutdowns and rolled
\* back inserts never duplicate a row.
DuplicatesNeedFaults == \A m \in Msg : rows[m] <= 1 + faults

\* What the consumer, the broker and the table do together is what ClickSink
\* promises: an event leaves the queue only once it is stored.
Sink == INSTANCE ClickSink WITH
    queued <- ready \cup InFlight,
    stored <- {m \in Msg : rows[m] > 0}
ImplementsSink == Sink!Spec

\* Every well-formed event the broker does not discard gets its row, batch full or
\* not: a partial batch cannot wait for deliveries the prefetch limit holds back.
EventuallyStored ==
    \A m \in Valid : m \in published ~> (rows[m] > 0 \/ m \in lost)

\* A malformed event does not stay in the queue, nor come back to it for ever.
MalformedDrains ==
    \A m \in Malformed : m \in published ~> [](m \notin ready \cup InFlight)

\* Close returns: the goroutine stops, wherever closing done found it.
CloseReturns ==
    \A r \in Replica : done[r] ~> (pc[r] = "stopped" \/ ~done[r])

================================================================================
