-------------------------- MODULE ClickConsumerProofs --------------------------
(***************************************************************************)
(* Proofs about ClickConsumer, for any number of replicas and events, any  *)
(* prefetch window and batch size, and any budget of faults.               *)
(*                                                                         *)
(* NoLoss and AnswersOutstandingTag are not inductive: they rest on how    *)
(* tags order what is in the batch, in the Go channel and with the broker. *)
(* IInv adds that.                                                         *)
(***************************************************************************)
EXTENDS ClickConsumer, FiniteSetTheorems, TLAPS

Idle == {"dial", "wait", "stopped"}

\* Between sessions nothing of the previous one is left.
IdleIsClean(r) ==
    pc[r] \in Idle =>
        /\ session[r] = "none"
        /\ inbox[r] = {}
        /\ events[r] = {}
        /\ last[r] = 0

\* Every delivery of the session has a tag the broker has handed out, and the
\* tags in the channel are those after last[r], each of them once.
TagsOrdered(r) ==
    /\ last[r] < nextTag[r]
    /\ \A d \in inbox[r] : last[r] < d.tag /\ d.tag < nextTag[r]
    /\ \A d, e \in inbox[r] : d.tag = e.tag => d = e

\* What the broker remembers of the session.
OutstandingOf(r) ==
    /\ session[r] # "open" => unacked[r] = {}
    /\ session[r] = "open" => inbox[r] \subseteq unacked[r]
    /\ session[r] = "open" /\ events[r] # {} =>
           \E d \in unacked[r] : d.tag = last[r]
    /\ \A d \in unacked[r] :
           IF d.tag <= last[r] THEN d \in events[r] ELSE d \in inbox[r]

\* What is in the batch, before and after it was inserted.
BatchOf(r) ==
    /\ IsFiniteSet(events[r])
    /\ \A d \in events[r] : d.msg \in Valid
    /\ pc[r] \in {"insert", "settle"} => events[r] # {}
    /\ pc[r] = "settle" /\ result[r] = "ok" =>
           \A d \in events[r] : rows[d.msg] > 0

SessionInv(r) ==
    IdleIsClean(r) /\ TagsOrdered(r) /\ OutstandingOf(r) /\ BatchOf(r)

IInv ==
    /\ TypeOK
    /\ \A r \in Replica : SessionInv(r)
    /\ NoLoss

--------------------------------------------------------------------------------
\* A replica that an action does not touch keeps its invariant: rows only grow.
LEMMA Untouched ==
    ASSUME TypeOK, NEW q \in Replica, SessionInv(q),
           session'[q] = session[q], inbox'[q] = inbox[q],
           events'[q] = events[q], last'[q] = last[q], pc'[q] = pc[q],
           result'[q] = result[q], unacked'[q] = unacked[q],
           nextTag'[q] = nextTag[q],
           rows' \in [Msg -> Nat], \A m \in Msg : rows'[m] >= rows[m]
    PROVE  SessionInv(q)'
<1>1. IdleIsClean(q)' /\ TagsOrdered(q)' /\ OutstandingOf(q)'
  BY DEF SessionInv, IdleIsClean, TagsOrdered, OutstandingOf
<1>2. BatchOf(q)'
  <2>1. \A d \in events[q] : d.msg \in Msg
    BY DEF SessionInv, BatchOf, Valid
  <2>2. ASSUME NEW d \in events[q], rows[d.msg] > 0
        PROVE  rows'[d.msg] > 0
    BY <2>1, <2>2 DEF TypeOK
  <2> QED BY <2>2 DEF SessionInv, BatchOf
<1> QED BY <1>1, <1>2 DEF SessionInv

\* Inserting a batch adds rows, never removes one, and gives each event one.
LEMMA BatchRows ==
    ASSUME TypeOK, NEW r \in Replica, IsFiniteSet(events[r])
    PROVE  /\ WithBatch(r) \in [Msg -> Nat]
           /\ \A m \in Msg : WithBatch(r)[m] >= rows[m]
           /\ \A d \in events[r] : d.msg \in Msg => WithBatch(r)[d.msg] > 0
<1> DEFINE Copies(m) == {d \in events[r] : d.msg = m}
<1>1. \A m \in Msg : IsFiniteSet(Copies(m)) /\ Cardinality(Copies(m)) \in Nat
  BY FS_Subset, FS_CardinalityType
<1>2. \A m \in Msg : Copies(m) # {} => Cardinality(Copies(m)) > 0
  BY <1>1, FS_EmptySet
<1> HIDE DEF Copies
<1>3. WithBatch(r) = [m \in Msg |-> rows[m] + Cardinality(Copies(m))]
  BY DEF WithBatch, Copies
<1>4. \A m \in Msg : rows[m] \in Nat
  BY DEF TypeOK
<1>5. ASSUME NEW d \in events[r], d.msg \in Msg
      PROVE  WithBatch(r)[d.msg] > 0
  <2>1. d \in Copies(d.msg)
    BY DEF Copies
  <2> QED BY <2>1, <1>1, <1>2, <1>3, <1>4, <1>5
<1> QED BY <1>1, <1>3, <1>4, <1>5

--------------------------------------------------------------------------------
(* One lemma per action, or per group of actions that touch the same state. *)

LEMMA ArriveStep ==
    ASSUME IInv, NEW m \in Msg, Arrive(m)
    PROVE  IInv'
<1> USE DEF IInv, Arrive, client, budget
<1>1. TypeOK'
  BY DEF TypeOK
<1>2. \A q \in Replica : SessionInv(q)'
  BY Untouched DEF TypeOK
<1>3. NoLoss'
  BY DEF NoLoss, InFlight, Valid
<1> QED BY <1>1, <1>2, <1>3

LEMMA DeliverStep ==
    ASSUME IInv, NEW r \in Replica, Deliver(r)
    PROVE  IInv'
<1> USE DEF IInv
<1>1. PICK m \in ready :
          LET d == [tag |-> nextTag[r], msg |-> m] IN
          /\ ready' = ready \ {m}
          /\ unacked' = [unacked EXCEPT ![r] = @ \cup {d}]
          /\ inbox' = [inbox EXCEPT ![r] = @ \cup {d}]
  BY DEF Deliver
<1> DEFINE d == [tag |-> nextTag[r], msg |-> m]
<1>2. d \in Delivery /\ d.tag = nextTag[r] /\ d.msg = m
  BY DEF TypeOK, Delivery
<1>3. /\ unacked'[r] = unacked[r] \cup {d}
      /\ inbox'[r] = inbox[r] \cup {d}
      /\ nextTag'[r] = nextTag[r] + 1
      /\ session[r] = "open"
      /\ UNCHANGED <<session, events, last, pc, result, rows, published, lost>>
  BY <1>1 DEF Deliver, TypeOK
<1> HIDE DEF d
<1>4. TypeOK'
  BY <1>1, <1>2 DEF Deliver, TypeOK, budget, d
<1>5. SessionInv(r)'
  <2>1. IdleIsClean(r)' /\ BatchOf(r)'
    BY <1>3 DEF SessionInv, IdleIsClean, BatchOf
  <2>2. TagsOrdered(r)'
    BY <1>2, <1>3 DEF SessionInv, TagsOrdered, TypeOK, Delivery
  <2>3. OutstandingOf(r)'
    BY <1>2, <1>3 DEF SessionInv, OutstandingOf, TagsOrdered, TypeOK, Delivery
  <2> QED BY <2>1, <2>2, <2>3 DEF SessionInv
<1>6. ASSUME NEW q \in Replica, q # r
      PROVE  SessionInv(q)'
  BY <1>1, <1>3, <1>6, Untouched DEF TypeOK, Deliver
<1>7. NoLoss'
  <2>1. InFlight' = InFlight \cup {m}
    BY <1>1, <1>2 DEF InFlight, Msgs, TypeOK, d
  <2> QED BY <2>1, <1>1, <1>3 DEF NoLoss
<1> QED BY <1>4, <1>5, <1>6, <1>7

\* Requeueing moves the unacknowledged messages of one session to the queue.
LEMMA RequeueKeepsHeld ==
    ASSUME TypeOK, NEW r \in Replica, Requeue(r)
    PROVE  /\ ready' \in SUBSET Msg
           /\ unacked' \in [Replica -> SUBSET Delivery]
           /\ unacked'[r] = {}
           /\ \A q \in Replica : q # r => unacked'[q] = unacked[q]
           /\ ready \cup InFlight \subseteq ready' \cup InFlight'
  BY DEF Requeue, TypeOK, InFlight, Msgs, Delivery

LEMMA SessionLossStep ==
    ASSUME IInv, NEW r \in Replica, SessionLoss(r)
    PROVE  IInv'
<1> USE DEF IInv
<1>1. Requeue(r)
  BY DEF SessionLoss
<1>2. TypeOK'
  BY <1>1, RequeueKeepsHeld DEF SessionLoss, TypeOK
<1>3. SessionInv(r)'
  <2>1. IdleIsClean(r)' /\ BatchOf(r)' /\ TagsOrdered(r)'
    BY DEF SessionLoss, SessionInv, IdleIsClean, BatchOf, TagsOrdered, Idle, TypeOK
  <2>2. OutstandingOf(r)'
    BY <1>1, RequeueKeepsHeld DEF SessionLoss, OutstandingOf, TypeOK
  <2> QED BY <2>1, <2>2 DEF SessionInv
<1>4. ASSUME NEW q \in Replica, q # r
      PROVE  SessionInv(q)'
  BY <1>1, <1>4, RequeueKeepsHeld, Untouched DEF SessionLoss, TypeOK
<1>5. NoLoss'
  BY <1>1, RequeueKeepsHeld DEF NoLoss, SessionLoss
<1> QED BY <1>2, <1>3, <1>4, <1>5

LEMMA BrokerRestartStep ==
    ASSUME IInv, BrokerRestart
    PROVE  IInv'
<1> USE DEF IInv
<1>1. TypeOK'
  <2>1. UNION {Msgs(unacked[r]) : r \in Replica} \subseteq Msg
    BY DEF TypeOK, Msgs, Delivery
  <2>2. lost' \in SUBSET Msg /\ bound' \in BOOLEAN
    BY <2>1 DEF BrokerRestart, TypeOK
  <2>3. /\ unacked' \in [Replica -> SUBSET Delivery]
        /\ session' \in [Replica -> {"none", "open", "dead"}]
    BY DEF BrokerRestart, TypeOK
  <2> QED BY <2>2, <2>3 DEF BrokerRestart, TypeOK
<1>2. ASSUME NEW q \in Replica
      PROVE  SessionInv(q)'
  <2>1. /\ unacked'[q] = {}
        /\ session'[q] = IF session[q] = "open" THEN "dead" ELSE session[q]
        /\ UNCHANGED <<nextTag, inbox, events, last, pc, result, rows>>
    BY DEF BrokerRestart
  <2>2. IdleIsClean(q)' /\ BatchOf(q)' /\ TagsOrdered(q)' /\ OutstandingOf(q)'
    BY <2>1 DEF SessionInv, IdleIsClean, BatchOf, TagsOrdered, OutstandingOf
  <2> QED BY <2>2 DEF SessionInv
<1>3. NoLoss'
  BY DEF BrokerRestart, NoLoss, InFlight
<1> QED BY <1>1, <1>2, <1>3

LEMMA ConnectStep ==
    ASSUME IInv, NEW r \in Replica, Connect(r)
    PROVE  IInv'
<1> USE DEF IInv, Connect, budget
<1>1. TypeOK'
  BY DEF TypeOK, Where
<1>2. SessionInv(r)'
  <2>1. /\ session[r] = "none" /\ inbox[r] = {} /\ events[r] = {} /\ last[r] = 0
        /\ unacked[r] = {}
    BY DEF SessionInv, IdleIsClean, Idle, OutstandingOf
  <2>2. /\ session'[r] = "open" /\ nextTag'[r] = 1 /\ pc'[r] = "loop"
        /\ UNCHANGED <<unacked, inbox, events, last, result, rows>>
    BY DEF TypeOK
  <2>3. IdleIsClean(r)' /\ TagsOrdered(r)' /\ OutstandingOf(r)'
    BY <2>1, <2>2 DEF IdleIsClean, Idle, TagsOrdered, OutstandingOf
  <2>4. BatchOf(r)'
    BY <2>1, <2>2 DEF SessionInv, BatchOf
  <2> QED BY <2>3, <2>4 DEF SessionInv
<1>3. ASSUME NEW q \in Replica, q # r
      PROVE  SessionInv(q)'
  BY <1>3, Untouched DEF TypeOK
<1>4. NoLoss'
  BY DEF NoLoss, InFlight
<1> QED BY <1>1, <1>2, <1>3, <1>4

\* The goroutine moves on, or Close and Restart set done: no delivery moves.
LEMMA ControlStep ==
    ASSUME IInv, NEW r \in Replica,
           \/ DialFails(r) \/ Tick(r) \/ SeeDone(r) \/ SeeClosed(r)
           \/ Redial(r) \/ StopRun(r) \/ Close(r) \/ Restart(r)
    PROVE  IInv'
<1> USE DEF IInv
<1>1. /\ UNCHANGED <<published, ready, lost, unacked, nextTag, session, inbox,
                     events, last, result, rows>>
      /\ pc' \in [Replica -> Where]
      /\ \A q \in Replica : q # r => pc'[q] = pc[q]
      /\ pc'[r] \in Idle => pc[r] \in Idle
      /\ pc'[r] # "settle" \/ pc'[r] = pc[r]
      /\ pc'[r] = "insert" => pc[r] = "insert" \/ events[r] # {}
  BY DEF DialFails, Tick, TickFlushes, SeeDone, SeeClosed, Leave, Redial, StopRun,
         Close, Restart, TypeOK, Where, Idle, broker, budget
<1>2. TypeOK'
  <2>1. bound' \in BOOLEAN
    BY DEF DialFails, Tick, SeeDone, SeeClosed, Leave, Redial, StopRun, Close,
           Restart, TypeOK, broker
  <2>2. leaving' \in [Replica -> BOOLEAN] /\ done' \in [Replica -> BOOLEAN]
    BY DEF DialFails, Tick, SeeDone, SeeClosed, Leave, Redial, StopRun, Close,
           Restart, TypeOK
  <2>3. faults' \in Nat /\ failures' \in Nat /\ closes' \in Nat
    <3>1. CASE DialFails(r)
      BY <3>1 DEF DialFails, TypeOK
    <3>2. CASE Close(r)
      BY <3>2 DEF Close, TypeOK
    <3>3. CASE ~(DialFails(r) \/ Close(r))
      BY <3>3 DEF Tick, SeeDone, SeeClosed, Leave, Redial, StopRun, Restart,
                  TypeOK, budget
    <3> QED BY <3>1, <3>2, <3>3
  <2> QED BY <1>1, <2>1, <2>2, <2>3 DEF TypeOK
<1>3. SessionInv(r)'
  <2>1. IdleIsClean(r)' /\ TagsOrdered(r)' /\ OutstandingOf(r)'
    BY <1>1 DEF SessionInv, IdleIsClean, TagsOrdered, OutstandingOf
  <2>2. BatchOf(r)'
    BY <1>1 DEF SessionInv, BatchOf
  <2> QED BY <2>1, <2>2 DEF SessionInv
<1>4. ASSUME NEW q \in Replica, q # r
      PROVE  SessionInv(q)'
  BY <1>1, <1>4, Untouched DEF TypeOK
<1>5. NoLoss'
  BY <1>1 DEF NoLoss, InFlight
<1> QED BY <1>2, <1>3, <1>4, <1>5

\* A malformed delivery is acknowledged by itself; the others are not.
LEMMA ReceiveStep ==
    ASSUME IInv, NEW r \in Replica, Receive(r)
    PROVE  IInv'
<1> USE DEF IInv
<1>1. PICK d \in inbox[r] :
         /\ \A e \in inbox[r] : d.tag <= e.tag
         /\ inbox' = [inbox EXCEPT ![r] = @ \ {d}]
         /\ \/ /\ d.msg \in Malformed
               /\ unacked' = [unacked EXCEPT ![r] = AckOne(r, d)]
               /\ UNCHANGED <<events, last, pc>>
            \/ /\ d.msg \notin Malformed
               /\ events' = [events EXCEPT ![r] = @ \cup {d}]
               /\ last' = [last EXCEPT ![r] = d.tag]
               /\ pc' = [pc EXCEPT ![r] = IF BatchFull(events'[r])
                                          THEN "insert" ELSE "loop"]
               /\ UNCHANGED unacked
  BY DEF Receive
<1>2. /\ d \in Delivery /\ d.tag \in Nat /\ d.msg \in Msg
      /\ inbox'[r] = inbox[r] \ {d}
      /\ pc[r] = "loop"
      /\ UNCHANGED <<published, bound, ready, lost, nextTag, session, leaving,
                     result, done, rows, budget>>
  BY <1>1 DEF Receive, TypeOK, Delivery
<1>3. last[r] < d.tag /\ d.tag < nextTag[r]
  BY DEF SessionInv, TagsOrdered
<1>4. \A e \in inbox'[r] : d.tag < e.tag
  <2>1. \A e \in inbox[r] : e.tag \in Nat /\ d.tag <= e.tag
    BY <1>1 DEF TypeOK, Delivery
  <2>2. \A e \in inbox[r] : d.tag = e.tag => d = e
    BY DEF SessionInv, TagsOrdered
  <2> QED BY <1>2, <2>1, <2>2
<1>5. CASE d.msg \in Malformed
  <2>1. /\ unacked' = [unacked EXCEPT ![r] = @ \ {d}]
        /\ UNCHANGED <<events, last, pc>>
    BY <1>1, <1>5 DEF AckOne
  <2>2. unacked'[r] = unacked[r] \ {d}
    BY <2>1 DEF TypeOK
  <2>3. TypeOK'
    BY <1>1, <1>2, <2>1 DEF TypeOK, budget
  <2>4. SessionInv(r)'
    <3>1. IdleIsClean(r)' /\ BatchOf(r)'
      BY <1>2, <2>1 DEF SessionInv, IdleIsClean, Idle, BatchOf
    <3>2. TagsOrdered(r)'
      BY <1>2, <2>1 DEF SessionInv, TagsOrdered
    <3>3. OutstandingOf(r)'
      BY <1>2, <1>3, <2>1, <2>2 DEF SessionInv, OutstandingOf, TypeOK
    <3> QED BY <3>1, <3>2, <3>3 DEF SessionInv
  <2>5. ASSUME NEW q \in Replica, q # r
        PROVE  SessionInv(q)'
    BY <1>1, <1>2, <2>1, <2>5, Untouched DEF TypeOK
  <2>6. NoLoss'
    <3>1. InFlight \cap Valid \subseteq InFlight'
      <4>1. ASSUME NEW q \in Replica, NEW e \in unacked[q], e.msg \in Valid
            PROVE  e \in unacked'[q]
        BY <1>5, <2>1, <4>1 DEF TypeOK, Valid
      <4> QED BY <4>1 DEF InFlight, Msgs
    <3> QED BY <3>1, <1>2 DEF NoLoss
  <2> QED BY <2>3, <2>4, <2>5, <2>6
<1>6. CASE d.msg \notin Malformed
  <2>1. /\ events' = [events EXCEPT ![r] = @ \cup {d}]
        /\ last' = [last EXCEPT ![r] = d.tag]
        /\ pc' = [pc EXCEPT ![r] = IF BatchFull(events'[r])
                                   THEN "insert" ELSE "loop"]
        /\ UNCHANGED unacked
    BY <1>1, <1>6
  <2>2. /\ events'[r] = events[r] \cup {d}
        /\ last'[r] = d.tag
        /\ pc'[r] \in {"insert", "loop"}
    BY <2>1 DEF TypeOK
  <2>3. TypeOK'
    BY <1>1, <1>2, <2>1 DEF TypeOK, Where, budget
  <2>4. SessionInv(r)'
    <3>1. IdleIsClean(r)'
      BY <2>2 DEF IdleIsClean, Idle
    <3>2. TagsOrdered(r)'
      BY <1>2, <1>3, <1>4, <2>2 DEF SessionInv, TagsOrdered
    <3>3. OutstandingOf(r)'
      <4>1. session[r] = "open" => d \in unacked[r]
        BY DEF SessionInv, OutstandingOf
      <4>2. ASSUME NEW e \in unacked[r]
            PROVE  IF e.tag <= d.tag THEN e \in events'[r] ELSE e \in inbox'[r]
        <5>1. e.tag \in Nat /\ last[r] \in Nat
          BY DEF TypeOK, Delivery
        <5>2. IF e.tag <= last[r] THEN e \in events[r] ELSE e \in inbox[r]
          BY DEF SessionInv, OutstandingOf
        <5> QED BY <5>1, <5>2, <1>2, <1>3, <1>4, <2>2
      <4> QED BY <4>1, <4>2, <1>2, <2>1, <2>2 DEF SessionInv, OutstandingOf
    <3>4. BatchOf(r)'
      <4>1. IsFiniteSet(events'[r])
        BY <2>2, FS_AddElement DEF SessionInv, BatchOf
      <4> QED BY <4>1, <1>2, <1>6, <2>2 DEF SessionInv, BatchOf, Valid
    <3> QED BY <3>1, <3>2, <3>3, <3>4 DEF SessionInv
  <2>5. ASSUME NEW q \in Replica, q # r
        PROVE  SessionInv(q)'
    BY <1>1, <1>2, <2>1, <2>5, Untouched DEF TypeOK
  <2>6. NoLoss'
    BY <1>2, <2>1 DEF NoLoss, InFlight
  <2> QED BY <2>3, <2>4, <2>5, <2>6
<1> QED BY <1>5, <1>6

LEMMA InsertStep ==
    ASSUME IInv, NEW r \in Replica, Insert(r)
    PROVE  IInv'
<1> USE DEF IInv
<1>1. /\ UNCHANGED <<published, bound, ready, lost, unacked, nextTag, session,
                     inbox, events, last, leaving, done>>
      /\ pc' = [pc EXCEPT ![r] = "settle"]
      /\ pc[r] = "insert"
  BY DEF Insert, broker
<1>2. /\ \/ rows' = WithBatch(r) /\ result' = [result EXCEPT ![r] = "ok"]
         \/ rows' = rows /\ result' = [result EXCEPT ![r] = "err"]
         \/ rows' = WithBatch(r) /\ result' = [result EXCEPT ![r] = "err"]
  BY DEF Insert
<1>3. faults' \in Nat /\ failures' \in Nat /\ closes' \in Nat
  BY DEF Insert, budget, TypeOK
<1>4. /\ IsFiniteSet(events[r])
      /\ \A d \in events[r] : d.msg \in Valid /\ d.msg \in Msg
  BY DEF SessionInv, BatchOf, Valid
<1>5. /\ rows' \in [Msg -> Nat]
      /\ \A m \in Msg : rows'[m] >= rows[m]
      /\ result'[r] = "ok" => \A d \in events[r] : rows'[d.msg] > 0
  <2>1. \A m \in Msg : rows[m] \in Nat
    BY DEF TypeOK
  <2>2. result'[r] = "ok" => rows' = WithBatch(r)
    BY <1>2 DEF TypeOK
  <2> QED BY <1>2, <1>4, <2>1, <2>2, BatchRows DEF TypeOK
<1>6. TypeOK'
  <2>1. result' \in [Replica -> {"none", "ok", "err"}]
    BY <1>2 DEF TypeOK
  <2>2. pc' \in [Replica -> Where]
    BY <1>1 DEF TypeOK, Where
  <2> QED BY <1>1, <1>3, <1>5, <2>1, <2>2 DEF TypeOK
<1>7. SessionInv(r)'
  <2>1. pc'[r] = "settle"
    BY <1>1 DEF TypeOK
  <2>2. IdleIsClean(r)' /\ TagsOrdered(r)' /\ OutstandingOf(r)'
    BY <1>1, <2>1 DEF SessionInv, IdleIsClean, Idle, TagsOrdered, OutstandingOf
  <2>3. BatchOf(r)'
    BY <1>1, <1>4, <1>5, <2>1 DEF SessionInv, BatchOf
  <2> QED BY <2>2, <2>3 DEF SessionInv
<1>8. ASSUME NEW q \in Replica, q # r
      PROVE  SessionInv(q)'
  <2>1. pc'[q] = pc[q] /\ result'[q] = result[q]
    BY <1>1, <1>2, <1>8 DEF TypeOK
  <2> QED BY <1>1, <1>5, <2>1, Untouched DEF TypeOK
<1>9. NoLoss'
  <2>1. ASSUME NEW m \in Msg, rows[m] > 0
        PROVE  rows'[m] > 0
    BY <1>5, <2>1 DEF TypeOK
  <2> QED BY <1>1, <2>1 DEF NoLoss, InFlight, TypeOK
<1> QED BY <1>6, <1>7, <1>8, <1>9

\* What leaves the broker for good is in the batch, and the batch has its rows.
LEMMA SettleStep ==
    ASSUME IInv, NEW r \in Replica, Settle(r)
    PROVE  IInv'
<1> USE DEF IInv
<1>1. /\ unacked' = [unacked EXCEPT ![r] = @ \ UpToLast(r)]
      /\ ready' = ready \cup Requeued(r)
      /\ events' = [events EXCEPT ![r] = {}]
      /\ result' = [result EXCEPT ![r] = "none"]
      /\ pc' = [pc EXCEPT ![r] = IF leaving[r] THEN "return" ELSE "loop"]
      /\ pc[r] = "settle"
      /\ UNCHANGED <<published, bound, lost, nextTag, session, inbox, last,
                     leaving, done, rows, budget>>
  BY DEF Settle, AfterFlush
<1>2. /\ unacked'[r] = unacked[r] \ UpToLast(r)
      /\ events'[r] = {}
      /\ pc'[r] \in {"return", "loop"}
  BY <1>1 DEF TypeOK
<1>3. TypeOK'
  <2>1. Requeued(r) \subseteq Msg
    BY DEF Requeued, UpToLast, Msgs, TypeOK, Delivery
  <2> QED BY <1>1, <2>1 DEF TypeOK, Where, budget
<1>4. SessionInv(r)'
  <2>1. IdleIsClean(r)'
    BY <1>2 DEF IdleIsClean, Idle
  <2>2. TagsOrdered(r)'
    BY <1>1 DEF SessionInv, TagsOrdered
  <2>3. OutstandingOf(r)'
    <3>1. inbox[r] \cap UpToLast(r) = {}
      <4>1. \A d \in inbox[r] : ~(d.tag <= last[r])
        BY DEF SessionInv, TagsOrdered, TypeOK, Delivery
      <4> QED BY <4>1 DEF UpToLast
    <3> QED BY <3>1, <1>1, <1>2 DEF SessionInv, OutstandingOf, UpToLast
  <2>4. BatchOf(r)'
    BY <1>2, FS_EmptySet DEF BatchOf
  <2> QED BY <2>1, <2>2, <2>3, <2>4 DEF SessionInv
<1>5. ASSUME NEW q \in Replica, q # r
      PROVE  SessionInv(q)'
  BY <1>1, <1>5, Untouched DEF TypeOK
<1>6. NoLoss'
  <2> SUFFICES ASSUME NEW m \in published \cap Valid
               PROVE  m \in ready' \/ m \in InFlight' \/ rows'[m] > 0 \/ m \in lost'
    BY <1>1 DEF NoLoss
  <2>1. CASE m \in ready \/ rows[m] > 0 \/ m \in lost
    BY <1>1, <2>1
  <2>2. CASE m \in InFlight
    <3>1. PICK q \in Replica : \E e \in unacked[q] : e.msg = m
      BY <2>2 DEF InFlight, Msgs
    <3>2. PICK d \in unacked[q] : d.msg = m
      BY <3>1
    <3>3. CASE q = r /\ d \in UpToLast(r)
      <4>1. CASE result[r] = "ok"
        <5>1. d \in events[r]
          BY <3>3 DEF SessionInv, OutstandingOf, UpToLast
        <5>2. rows[m] > 0
          BY <1>1, <3>2, <4>1, <5>1 DEF SessionInv, BatchOf
        <5> QED BY <5>2, <1>1
      <4>2. CASE result[r] # "ok"
        BY <1>1, <3>2, <3>3, <4>2 DEF Requeued, Msgs
      <4> QED BY <4>1, <4>2
    <3>4. CASE ~(q = r /\ d \in UpToLast(r))
      <4>1. d \in unacked'[q]
        BY <1>1, <3>4 DEF TypeOK
      <4> QED BY <3>2, <4>1 DEF InFlight, Msgs
    <3> QED BY <3>3, <3>4
  <2> QED BY <2>1, <2>2 DEF NoLoss
<1> QED BY <1>3, <1>4, <1>5, <1>6

\* The end of a session, by returning or by dying, leaves a clean replica.
LEMMA EndOfSessionStep ==
    ASSUME IInv, NEW r \in Replica, Return(r) \/ Crash(r)
    PROVE  IInv'
<1> USE DEF IInv
<1>1. /\ Requeue(r)
      /\ session' = [session EXCEPT ![r] = "none"]
      /\ inbox' = [inbox EXCEPT ![r] = {}]
      /\ events' = [events EXCEPT ![r] = {}]
      /\ last' = [last EXCEPT ![r] = 0]
      /\ leaving' = [leaving EXCEPT ![r] = FALSE]
      /\ pc' = [pc EXCEPT ![r] = "wait"] \/ pc' = [pc EXCEPT ![r] = "dial"]
      /\ result' = result \/ result' = [result EXCEPT ![r] = "none"]
      /\ done' = done \/ done' = [done EXCEPT ![r] = FALSE]
      /\ rows' = rows \/ rows' = WithBatch(r)
      /\ UNCHANGED <<published, bound, lost, nextTag>>
      /\ faults' \in Nat /\ failures' \in Nat /\ closes' \in Nat
  BY DEF Return, Crash, budget, TypeOK
<1>2. /\ rows' \in [Msg -> Nat]
      /\ \A m \in Msg : rows'[m] >= rows[m]
  <2>1. \A m \in Msg : rows[m] \in Nat
    BY DEF TypeOK
  <2> QED BY <1>1, <2>1, BatchRows DEF TypeOK, SessionInv, BatchOf
<1>3. TypeOK'
  <2>1. pc' \in [Replica -> Where] /\ result' \in [Replica -> {"none", "ok", "err"}]
    BY <1>1 DEF TypeOK, Where
  <2>2. done' \in [Replica -> BOOLEAN] /\ leaving' \in [Replica -> BOOLEAN]
    BY <1>1 DEF TypeOK
  <2> QED BY <1>1, <1>2, <2>1, <2>2, RequeueKeepsHeld DEF TypeOK
<1>4. SessionInv(r)'
  <2>1. /\ unacked'[r] = {} /\ session'[r] = "none" /\ inbox'[r] = {}
        /\ events'[r] = {} /\ last'[r] = 0 /\ pc'[r] \in {"wait", "dial"}
    BY <1>1, RequeueKeepsHeld DEF TypeOK
  <2>2. last'[r] < nextTag'[r]
    BY <1>1, <2>1 DEF SessionInv, TagsOrdered, TypeOK
  <2>3. IdleIsClean(r)' /\ TagsOrdered(r)' /\ OutstandingOf(r)'
    BY <2>1, <2>2 DEF IdleIsClean, TagsOrdered, OutstandingOf
  <2>4. BatchOf(r)'
    BY <2>1, FS_EmptySet DEF BatchOf
  <2> QED BY <2>3, <2>4 DEF SessionInv
<1>5. ASSUME NEW q \in Replica, q # r
      PROVE  SessionInv(q)'
  <2>1. /\ session'[q] = session[q] /\ inbox'[q] = inbox[q]
        /\ events'[q] = events[q] /\ last'[q] = last[q] /\ pc'[q] = pc[q]
        /\ result'[q] = result[q] /\ nextTag'[q] = nextTag[q]
    BY <1>1, <1>5 DEF TypeOK
  <2>2. unacked'[q] = unacked[q]
    BY <1>1, <1>5, RequeueKeepsHeld
  <2> QED BY <1>2, <2>1, <2>2, Untouched
<1>6. NoLoss'
  <2>1. ASSUME NEW m \in Msg, rows[m] > 0
        PROVE  rows'[m] > 0
    BY <1>2, <2>1 DEF TypeOK
  <2>2. ready \cup InFlight \subseteq ready' \cup InFlight'
    BY <1>1, RequeueKeepsHeld
  <2> QED BY <1>1, <2>1, <2>2 DEF NoLoss, TypeOK
<1> QED BY <1>3, <1>4, <1>5, <1>6

--------------------------------------------------------------------------------
LEMMA InitEstablishesIInv == Init => IInv
<1> SUFFICES ASSUME Init PROVE IInv
  OBVIOUS
<1>1. TypeOK
  BY DEF Init, TypeOK, Where
<1>2. ASSUME NEW r \in Replica PROVE SessionInv(r)
  <2>1. /\ unacked[r] = {} /\ session[r] = "none" /\ inbox[r] = {}
        /\ events[r] = {} /\ last[r] = 0 /\ nextTag[r] = 1 /\ pc[r] = "dial"
    BY DEF Init
  <2>2. IdleIsClean(r) /\ TagsOrdered(r) /\ OutstandingOf(r)
    BY <2>1 DEF IdleIsClean, TagsOrdered, OutstandingOf
  <2>3. BatchOf(r)
    BY <2>1, FS_EmptySet DEF BatchOf
  <2> QED BY <2>2, <2>3 DEF SessionInv
<1>3. NoLoss
  BY DEF Init, NoLoss
<1> QED BY <1>1, <1>2, <1>3 DEF IInv

LEMMA StutterStep == IInv /\ UNCHANGED vars => IInv'
<1> SUFFICES ASSUME IInv, UNCHANGED vars PROVE IInv'
  OBVIOUS
<1> USE DEF IInv, vars, broker, client, budget
<1>1. TypeOK' /\ NoLoss'
  BY DEF TypeOK, NoLoss, InFlight
<1>2. ASSUME NEW q \in Replica PROVE SessionInv(q)'
  BY DEF SessionInv, IdleIsClean, TagsOrdered, OutstandingOf, BatchOf
<1> QED BY <1>1, <1>2

\* Every reachable state satisfies the inductive invariant: tags order the
\* deliveries of each session, and no event is lost.
THEOREM Invariance == Spec => []IInv
<1>1. Init => IInv
  BY InitEstablishesIInv
<1>2. IInv /\ [Next]_vars => IInv'
  <2> SUFFICES ASSUME IInv, Next PROVE IInv'
    BY StutterStep
  <2>1. CASE \E m \in Msg : Arrive(m)
    BY <2>1, ArriveStep
  <2>2. CASE BrokerRestart
    BY <2>2, BrokerRestartStep
  <2>3. ASSUME NEW r \in Replica, Goroutine(r)
        PROVE  IInv'
    BY <2>3, ConnectStep, ControlStep, ReceiveStep, InsertStep, SettleStep,
       EndOfSessionStep DEF Goroutine
  <2>4. ASSUME NEW r \in Replica, Environment(r)
        PROVE  IInv'
    BY <2>4, DeliverStep, SessionLossStep, ControlStep, EndOfSessionStep
       DEF Environment
  <2> QED BY <2>1, <2>2, <2>3, <2>4 DEF Next
<1> QED BY <1>1, <1>2, PTL DEF Spec

\* A well-formed click is in the queue, in the table or discarded by the broker,
\* whatever the consumers do.
THEOREM NeverLost == Spec => []NoLoss
BY Invariance, PTL DEF IInv

\* An answer with multiple=true covers the batch and nothing beyond it.
THEOREM AnswersCoverTheBatch == Spec => []AckCoversBatchOnly
<1>1. IInv => AckCoversBatchOnly
  BY DEF IInv, SessionInv, OutstandingOf, AckCoversBatchOnly
<1> QED BY <1>1, Invariance, PTL

\* flush never answers with a tag the broker does not know.
THEOREM AnswersAreKnown == Spec => []AnswersOutstandingTag
<1>1. IInv => AnswersOutstandingTag
  <2> SUFFICES ASSUME IInv, NEW r \in Replica, pc[r] = "settle", session[r] = "open"
               PROVE  \E d \in UpToLast(r) : d.tag = last[r]
    BY DEF AnswersOutstandingTag
  <2>1. PICK d \in unacked[r] : d.tag = last[r]
    BY DEF IInv, SessionInv, OutstandingOf, BatchOf
  <2>2. last[r] \in Nat
    BY DEF IInv, TypeOK
  <2> QED BY <2>1, <2>2 DEF UpToLast
<1> QED BY <1>1, Invariance, PTL

\* Deliveries, batches and answers are what the code takes them for.
THEOREM TypesConsumer == Spec => []TypeOK
<1>1. IInv => TypeOK
  BY DEF IInv
<1> QED BY <1>1, Invariance, PTL

================================================================================
