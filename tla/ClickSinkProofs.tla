---------------------------- MODULE ClickSinkProofs ----------------------------
(***************************************************************************)
(* More proofs about ClickConsumer: together with the queue and the table  *)
(* it implements ClickSink, and it stores a click twice only as often as   *)
(* something failed.                                                       *)
(*                                                                         *)
(* Both need to know where the copies of a click can be.  CopiesInv says   *)
(* that nobody holds a click that never reached the exchange, and that     *)
(* between the queue and the open sessions there is one copy of it; what a *)
(* dead session still holds is what its end cost.                          *)
(***************************************************************************)
EXTENDS ClickConsumerProofs

\* What the process of r has of its session.
Held(r) == events[r] \cup inbox[r]

\* Whoever has a click has it from the exchange.
Sourced ==
    /\ ready \subseteq published
    /\ \A r \in Replica : \A d \in unacked[r] \cup Held(r) : d.msg \in published
    /\ \A m \in Msg : rows[m] > 0 => m \in published

\* A click is queued or delivered, and delivered to one.
OneCopy ==
    /\ \A r \in Replica : \A d \in unacked[r] : d.msg \notin ready
    /\ \A r, q \in Replica : \A d \in unacked[r], e \in unacked[q] :
          d.msg = e.msg => r = q

\* Batch and channel are apart and have a click once; on an open session they are
\* what the broker waits for.
HeldOnce(r) ==
    /\ \A d, e \in Held(r) : d.msg = e.msg => d = e
    /\ \A d \in events[r] : d.tag <= last[r]
    /\ session[r] = "open" => unacked[r] = Held(r)
    /\ pc[r] = "return" => events[r] = {}

CopiesInv == Sourced /\ OneCopy /\ \A r \in Replica : HeldOnce(r)

--------------------------------------------------------------------------------
LEMMA InitCopies == Init => CopiesInv
BY DEF Init, CopiesInv, Sourced, OneCopy, HeldOnce, Held

\* A replica that a step leaves alone holds what it held.
LEMMA HeldElsewhere ==
    ASSUME NEW q \in Replica, HeldOnce(q), unacked'[q] = unacked[q],
           session'[q] = session[q], inbox'[q] = inbox[q], events'[q] = events[q],
           last'[q] = last[q], pc'[q] = pc[q]
    PROVE  HeldOnce(q)' /\ Held(q)' = Held(q)
BY DEF HeldOnce, Held

\* Batch and channel have no delivery in common.
LEMMA BatchNotInChannel ==
    ASSUME IInv, CopiesInv, NEW r \in Replica
    PROVE  events[r] \cap inbox[r] = {}
<1>1. \A d \in events[r] : d.tag \in Nat /\ d.tag <= last[r] /\ last[r] \in Nat
  BY DEF IInv, TypeOK, Delivery, CopiesInv, HeldOnce
<1>2. \A d \in inbox[r] : d.tag \in Nat /\ last[r] < d.tag
  BY DEF IInv, TypeOK, Delivery, SessionInv, TagsOrdered
<1> QED BY <1>1, <1>2

--------------------------------------------------------------------------------
LEMMA ArriveCopies ==
    ASSUME IInv, CopiesInv, NEW m \in Msg, Arrive(m)
    PROVE  CopiesInv'
<1> USE DEF CopiesInv
<1>1. /\ m \notin published /\ published' = published \cup {m}
      /\ ready' = ready \/ ready' = ready \cup {m}
      /\ UNCHANGED <<unacked, session, inbox, events, last, pc, rows>>
  BY DEF Arrive, client
<1>2. Sourced'
  BY <1>1 DEF Sourced, Held
<1>3. OneCopy'
  BY <1>1 DEF Sourced, OneCopy
<1>4. \A r \in Replica : HeldOnce(r)'
  BY <1>1 DEF HeldOnce, Held
<1> QED BY <1>2, <1>3, <1>4

LEMMA DeliverCopies ==
    ASSUME IInv, CopiesInv, NEW r \in Replica, Deliver(r)
    PROVE  CopiesInv'
<1> USE DEF CopiesInv
<1>1. PICK m \in ready :
          LET d == [tag |-> nextTag[r], msg |-> m] IN
          /\ ready' = ready \ {m}
          /\ unacked' = [unacked EXCEPT ![r] = @ \cup {d}]
          /\ inbox' = [inbox EXCEPT ![r] = @ \cup {d}]
  BY DEF Deliver
<1> DEFINE d == [tag |-> nextTag[r], msg |-> m]
<1>2. /\ d.msg = m /\ session[r] = "open"
      /\ ready' = ready \ {m}
      /\ unacked'[r] = unacked[r] \cup {d} /\ inbox'[r] = inbox[r] \cup {d}
      /\ \A q \in Replica : q # r => unacked'[q] = unacked[q] /\ inbox'[q] = inbox[q]
      /\ UNCHANGED <<published, session, events, last, pc, rows>>
  BY <1>1 DEF Deliver, IInv, TypeOK
<1> HIDE DEF d
<1>3. Held(r)' = Held(r) \cup {d} /\ unacked[r] = Held(r)
  BY <1>2 DEF Held, HeldOnce
<1>4. \A q \in Replica : \A e \in unacked[q] : e.msg # m
  BY DEF OneCopy
<1>5. HeldOnce(r)'
  BY <1>2, <1>3, <1>4 DEF HeldOnce
<1>6. \A q \in Replica : q # r => HeldOnce(q)' /\ Held(q)' = Held(q)
  BY <1>2, HeldElsewhere
<1>7. Sourced'
  BY <1>2, <1>3, <1>6 DEF Sourced
<1>8. OneCopy'
  BY <1>2, <1>4 DEF OneCopy
<1> QED BY <1>5, <1>6, <1>7, <1>8

\* The unacknowledged deliveries of a session become queued again.
LEMMA RequeueCopies ==
    ASSUME IInv, CopiesInv, NEW r \in Replica, Requeue(r), UNCHANGED published
    PROVE  /\ OneCopy' /\ ready' \subseteq published
           /\ unacked'[r] = {} /\ \A q \in Replica : q # r => unacked'[q] = unacked[q]
<1>1. /\ ready' = ready \cup Msgs(unacked[r])
      /\ unacked'[r] = {} /\ \A q \in Replica : q # r => unacked'[q] = unacked[q]
  BY DEF Requeue, IInv, TypeOK
<1>2. ASSUME NEW q \in Replica, NEW d \in unacked'[q]
      PROVE  d.msg \notin ready'
  <2>1. q # r /\ d \in unacked[q]
    BY <1>1, <1>2
  <2>2. d.msg \notin ready /\ d.msg \notin Msgs(unacked[r])
    BY <2>1 DEF CopiesInv, OneCopy, Msgs
  <2> QED BY <1>1, <2>2
<1>3. OneCopy'
  <2>1. \A q \in Replica : unacked'[q] \subseteq unacked[q]
    BY <1>1
  <2> QED BY <1>2, <2>1 DEF CopiesInv, OneCopy
<1>4. ready' \subseteq published
  BY <1>1 DEF CopiesInv, Sourced, Msgs
<1> QED BY <1>1, <1>3, <1>4

LEMMA SessionLossCopies ==
    ASSUME IInv, CopiesInv, NEW r \in Replica, SessionLoss(r)
    PROVE  CopiesInv'
<1> USE DEF CopiesInv
<1>1. /\ Requeue(r) /\ UNCHANGED <<published, inbox, events, last, pc, rows>>
      /\ session'[r] = "dead" /\ \A q \in Replica : q # r => session'[q] = session[q]
  BY DEF SessionLoss, IInv, TypeOK
<1>2. /\ OneCopy' /\ ready' \subseteq published
      /\ unacked'[r] = {} /\ \A q \in Replica : q # r => unacked'[q] = unacked[q]
  BY <1>1, RequeueCopies
<1>3. \A q \in Replica : Held(q)' = Held(q)
  BY <1>1 DEF Held
<1>4. Sourced'
  BY <1>1, <1>2, <1>3 DEF Sourced
<1>5. HeldOnce(r)'
  BY <1>1, <1>3 DEF HeldOnce
<1>6. \A q \in Replica : q # r => HeldOnce(q)'
  BY <1>1, <1>2, HeldElsewhere
<1> QED BY <1>2, <1>4, <1>5, <1>6

LEMMA BrokerRestartCopies ==
    ASSUME IInv, CopiesInv, BrokerRestart
    PROVE  CopiesInv'
<1> USE DEF CopiesInv
<1>1. /\ ready' = {} /\ \A q \in Replica : unacked'[q] = {} /\ session'[q] # "open"
      /\ UNCHANGED <<published, inbox, events, last, pc, rows>>
  BY DEF BrokerRestart, IInv, TypeOK
<1>2. Sourced' /\ OneCopy'
  BY <1>1 DEF Sourced, OneCopy, Held
<1>3. \A q \in Replica : HeldOnce(q)'
  BY <1>1 DEF HeldOnce, Held
<1> QED BY <1>2, <1>3

\* A new session has nothing yet.
LEMMA ConnectCopies ==
    ASSUME IInv, CopiesInv, NEW r \in Replica, Connect(r)
    PROVE  CopiesInv'
<1> USE DEF CopiesInv
<1>1. /\ inbox[r] = {} /\ events[r] = {} /\ unacked[r] = {}
      /\ pc'[r] = "loop"
      /\ \A q \in Replica : q # r => session'[q] = session[q] /\ pc'[q] = pc[q]
      /\ UNCHANGED <<published, ready, unacked, inbox, events, last, rows>>
  BY DEF Connect, IInv, TypeOK, SessionInv, IdleIsClean, OutstandingOf, Idle
<1>2. Sourced' /\ OneCopy'
  BY <1>1 DEF Sourced, OneCopy, Held
<1>3. HeldOnce(r)'
  BY <1>1 DEF HeldOnce, Held
<1>4. \A q \in Replica : q # r => HeldOnce(q)'
  BY <1>1, HeldElsewhere
<1> QED BY <1>2, <1>3, <1>4

\* The goroutine moves on, or Close and Restart set done: no delivery moves.
LEMMA ControlCopies ==
    ASSUME IInv, CopiesInv, NEW r \in Replica,
           \/ DialFails(r) \/ Tick(r) \/ SeeDone(r) \/ SeeClosed(r)
           \/ Redial(r) \/ StopRun(r) \/ Close(r) \/ Restart(r)
    PROVE  CopiesInv'
<1> USE DEF CopiesInv
<1>1. /\ UNCHANGED <<published, ready, unacked, session, inbox, events, last, rows>>
      /\ \A q \in Replica : q # r => pc'[q] = pc[q]
      /\ pc'[r] = "return" => pc[r] = "return" \/ events[r] = {}
  BY DEF DialFails, Tick, SeeDone, SeeClosed, Leave, Redial, StopRun, Close, Restart,
         IInv, TypeOK, broker, budget
<1>2. Sourced' /\ OneCopy'
  BY <1>1 DEF Sourced, OneCopy, Held
<1>3. HeldOnce(r)'
  BY <1>1 DEF HeldOnce, Held
<1>4. \A q \in Replica : q # r => HeldOnce(q)'
  BY <1>1, HeldElsewhere
<1> QED BY <1>2, <1>3, <1>4

\* A delivery goes from the channel to the batch, or, malformed, to nobody.
LEMMA ReceiveMoves ==
    ASSUME IInv, CopiesInv, NEW r \in Replica, Receive(r)
    PROVE  \E d \in inbox[r] :
              /\ inbox'[r] = inbox[r] \ {d}
              /\ \/ /\ d.msg \in Malformed
                    /\ events'[r] = events[r]
                    /\ unacked'[r] = unacked[r] \ {d}
                    /\ Held(r)' = Held(r) \ {d}
                    /\ pc'[r] = "loop" /\ last'[r] = last[r]
                 \/ /\ events'[r] = events[r] \cup {d}
                    /\ unacked'[r] = unacked[r]
                    /\ Held(r)' = Held(r)
                    /\ pc'[r] \in {"loop", "insert"} /\ last'[r] = d.tag
                    /\ last[r] < d.tag
              /\ \A q \in Replica : q # r =>
                    /\ unacked'[q] = unacked[q] /\ session'[q] = session[q]
                    /\ inbox'[q] = inbox[q] /\ events'[q] = events[q]
                    /\ last'[q] = last[q] /\ pc'[q] = pc[q]
<1>1. PICK d \in inbox[r] :
         /\ inbox' = [inbox EXCEPT ![r] = @ \ {d}]
         /\ \/ /\ d.msg \in Malformed
               /\ unacked' = [unacked EXCEPT ![r] = AckOne(r, d)]
               /\ UNCHANGED <<events, last, pc>>
            \/ /\ d.msg \notin Malformed
               /\ events' = [events EXCEPT ![r] = @ \cup {d}]
               /\ last' = [last EXCEPT ![r] = d.tag]
               /\ pc' = [pc EXCEPT ![r] = IF BatchFull(events'[r])
                                          THEN "insert" ELSE "loop"]
               /\ UNCHANGED unacked
  BY DEF Receive
<1>2. inbox'[r] = inbox[r] \ {d} /\ pc[r] = "loop" /\ UNCHANGED session
  BY <1>1 DEF Receive, IInv, TypeOK
<1>3. last[r] < d.tag
  BY DEF IInv, SessionInv, TagsOrdered
<1>4. CASE d.msg \in Malformed /\ UNCHANGED <<events, last, pc>>
           /\ unacked' = [unacked EXCEPT ![r] = AckOne(r, d)]
  <2>1. d \notin events[r]
    BY BatchNotInChannel
  <2>2. unacked'[r] = unacked[r] \ {d}
    BY <1>4 DEF AckOne, IInv, TypeOK
  <2> QED BY <1>1, <1>2, <1>4, <2>1, <2>2 DEF Held, IInv, TypeOK
<1>5. CASE /\ events' = [events EXCEPT ![r] = @ \cup {d}]
           /\ last' = [last EXCEPT ![r] = d.tag]
           /\ pc' = [pc EXCEPT ![r] = IF BatchFull(events'[r]) THEN "insert" ELSE "loop"]
           /\ UNCHANGED unacked
  BY <1>1, <1>2, <1>3, <1>5 DEF Held, IInv, TypeOK
<1> QED BY <1>1, <1>4, <1>5

LEMMA ReceiveCopies ==
    ASSUME IInv, CopiesInv, NEW r \in Replica, Receive(r)
    PROVE  CopiesInv'
<1> USE DEF CopiesInv
<1>1. UNCHANGED <<published, ready, session, rows>>
  BY DEF Receive
<1>2. /\ \A q \in Replica : q # r =>
            /\ unacked'[q] = unacked[q] /\ session'[q] = session[q]
            /\ inbox'[q] = inbox[q] /\ events'[q] = events[q]
            /\ last'[q] = last[q] /\ pc'[q] = pc[q]
      /\ unacked'[r] \subseteq unacked[r] /\ Held(r)' \subseteq Held(r)
      /\ pc'[r] # "return"
  BY ReceiveMoves
<1>3. \A q \in Replica : q # r => HeldOnce(q)' /\ Held(q)' = Held(q)
  BY <1>2, HeldElsewhere
<1>4. Sourced'
  BY <1>1, <1>2, <1>3 DEF Sourced
<1>5. OneCopy'
  <2>1. \A q \in Replica : unacked'[q] \subseteq unacked[q]
    BY <1>2
  <2> QED BY <1>1, <2>1 DEF OneCopy
<1>6. HeldOnce(r)'
  <2>1. \A e \in events'[r] : e.tag <= last'[r]
    <3>1. last[r] \in Nat /\ \A e \in Held(r) : e.tag \in Nat
      BY DEF IInv, TypeOK, Delivery, Held
    <3>2. \A e \in events[r] : e.tag <= last[r] /\ e \in Held(r)
      BY DEF HeldOnce, Held
    <3>3. inbox[r] \subseteq Held(r)
      BY DEF Held
    <3> QED BY <3>1, <3>2, <3>3, ReceiveMoves
  <2>2. session[r] = "open" => unacked'[r] = Held(r)'
    BY ReceiveMoves DEF HeldOnce
  <2> QED BY <1>1, <1>2, <2>1, <2>2 DEF HeldOnce
<1> QED BY <1>3, <1>4, <1>5, <1>6

\* A batch gives a row to its own clicks and to no other.
LEMMA BatchSourced ==
    ASSUME IInv, CopiesInv, NEW r \in Replica, NEW m \in Msg, WithBatch(r)[m] > 0
    PROVE  m \in published
<1>1. CASE \E d \in events[r] : d.msg = m
  BY <1>1 DEF CopiesInv, Sourced, Held
<1>2. CASE ~\E d \in events[r] : d.msg = m
  <2>1. {d \in events[r] : d.msg = m} = {} /\ rows[m] \in Nat
    BY <1>2 DEF IInv, TypeOK
  <2>2. WithBatch(r)[m] = rows[m]
    BY <2>1, FS_EmptySet DEF WithBatch
  <2> QED BY <2>2 DEF CopiesInv, Sourced
<1> QED BY <1>1, <1>2

LEMMA InsertCopies ==
    ASSUME IInv, CopiesInv, NEW r \in Replica, Insert(r)
    PROVE  CopiesInv'
<1> USE DEF CopiesInv
<1>1. /\ UNCHANGED <<published, ready, unacked, session, inbox, events, last>>
      /\ pc'[r] = "settle" /\ \A q \in Replica : q # r => pc'[q] = pc[q]
      /\ rows' = rows \/ rows' = WithBatch(r)
  BY DEF Insert, IInv, TypeOK, broker
<1>2. \A m \in Msg : rows'[m] > 0 => m \in published
  BY <1>1, BatchSourced DEF Sourced
<1>3. Sourced'
  BY <1>1, <1>2 DEF Sourced, Held
<1>4. OneCopy'
  BY <1>1 DEF OneCopy
<1>5. \A q \in Replica : HeldOnce(q)'
  BY <1>1 DEF HeldOnce, Held
<1> QED BY <1>3, <1>4, <1>5

\* flush answers for the batch, and what it does not answer for is in the channel.
LEMMA SettleMoves ==
    ASSUME IInv, CopiesInv, NEW r \in Replica, Settle(r)
    PROVE  /\ events'[r] = {} /\ Held(r)' = inbox[r]
           /\ unacked'[r] = unacked[r] \ UpToLast(r)
           /\ \A d \in UpToLast(r) : d \in unacked[r] /\ d \in events[r]
           /\ pc'[r] \in {"return", "loop"}
           /\ ready' = ready \cup Requeued(r)
           /\ UNCHANGED <<published, session, inbox, last, rows, lost, faults>>
           /\ \A q \in Replica : q # r =>
                 /\ unacked'[q] = unacked[q] /\ events'[q] = events[q]
                 /\ pc'[q] = pc[q] /\ result'[q] = result[q]
<1>1. /\ unacked' = [unacked EXCEPT ![r] = @ \ UpToLast(r)]
      /\ ready' = ready \cup Requeued(r)
      /\ events' = [events EXCEPT ![r] = {}]
      /\ result' = [result EXCEPT ![r] = "none"]
      /\ pc' = [pc EXCEPT ![r] = IF leaving[r] THEN "return" ELSE "loop"]
      /\ UNCHANGED <<published, session, inbox, last, rows, lost, faults>>
  BY DEF Settle, AfterFlush, budget
<1>2. \A d \in UpToLast(r) : d \in unacked[r] /\ d \in events[r]
  BY DEF IInv, SessionInv, OutstandingOf, UpToLast
<1> QED BY <1>1, <1>2 DEF Held, IInv, TypeOK

LEMMA SettleCopies ==
    ASSUME IInv, CopiesInv, NEW r \in Replica, Settle(r)
    PROVE  CopiesInv'
<1> USE DEF CopiesInv
<1>1. Requeued(r) \subseteq Msgs(UpToLast(r))
  BY DEF Requeued
<1>2. \A q \in Replica : q # r => HeldOnce(q)' /\ Held(q)' = Held(q)
  BY SettleMoves, HeldElsewhere
<1>3. Sourced'
  <2>1. ready' \subseteq published
    BY <1>1, SettleMoves DEF Sourced, Msgs
  <2>2. unacked'[r] \cup Held(r)' \subseteq unacked[r] \cup Held(r)
    BY SettleMoves DEF Held
  <2> QED BY <1>2, <2>1, <2>2, SettleMoves DEF Sourced
<1>4. OneCopy'
  <2>1. \A q \in Replica : unacked'[q] \subseteq unacked[q]
    BY SettleMoves
  <2>2. ASSUME NEW q \in Replica, NEW d \in unacked'[q]
        PROVE  d.msg \notin Msgs(UpToLast(r))
    <3> SUFFICES ASSUME NEW e \in UpToLast(r), e.msg = d.msg PROVE FALSE
      BY DEF Msgs
    <3>1. e \in unacked[r] /\ d \in unacked[q]
      BY <2>1, SettleMoves
    <3>2. q = r /\ session[r] = "open"
      BY <3>1 DEF OneCopy, IInv, SessionInv, OutstandingOf
    <3>3. d = e
      BY <3>1, <3>2 DEF HeldOnce
    <3> QED BY <2>2, <3>2, <3>3, SettleMoves
  <2> QED BY <1>1, <2>1, <2>2, SettleMoves DEF OneCopy
<1>5. HeldOnce(r)'
  <2>1. session[r] = "open" => unacked'[r] = inbox[r]
    <3>1. \A d \in inbox[r] : d \notin events[r]
      BY BatchNotInChannel
    <3>2. \A d \in events[r] : d.tag <= last[r]
      BY DEF HeldOnce
    <3>3. session[r] = "open" => unacked[r] = events[r] \cup inbox[r]
      BY DEF HeldOnce, Held
    <3> QED BY <3>1, <3>2, <3>3, SettleMoves DEF UpToLast
  <2>2. Held(r)' \subseteq Held(r)
    BY SettleMoves DEF Held
  <2> QED BY <2>1, <2>2, SettleMoves DEF HeldOnce
<1> QED BY <1>2, <1>3, <1>4, <1>5

LEMMA EndOfSessionCopies ==
    ASSUME IInv, CopiesInv, NEW r \in Replica, Return(r) \/ Crash(r)
    PROVE  CopiesInv'
<1> USE DEF CopiesInv
<1>1. /\ Requeue(r) /\ UNCHANGED published
      /\ session'[r] = "none" /\ inbox'[r] = {} /\ events'[r] = {}
      /\ pc'[r] \in {"wait", "dial"}
      /\ rows' = rows \/ rows' = WithBatch(r)
      /\ \A q \in Replica : q # r =>
            /\ session'[q] = session[q] /\ inbox'[q] = inbox[q]
            /\ events'[q] = events[q] /\ last'[q] = last[q] /\ pc'[q] = pc[q]
  BY DEF Return, Crash, IInv, TypeOK
<1>2. /\ OneCopy' /\ ready' \subseteq published
      /\ unacked'[r] = {} /\ \A q \in Replica : q # r => unacked'[q] = unacked[q]
  BY <1>1, RequeueCopies
<1>3. \A q \in Replica : q # r => HeldOnce(q)' /\ Held(q)' = Held(q)
  BY <1>1, <1>2, HeldElsewhere
<1>4. \A m \in Msg : rows'[m] > 0 => m \in published
  BY <1>1, BatchSourced DEF Sourced
<1>5. Held(r)' = {}
  BY <1>1 DEF Held
<1>6. Sourced'
  BY <1>1, <1>2, <1>3, <1>4, <1>5 DEF Sourced
<1>7. HeldOnce(r)'
  BY <1>1, <1>2, <1>5 DEF HeldOnce
<1> QED BY <1>2, <1>3, <1>6, <1>7

LEMMA NextCopies == IInv /\ CopiesInv /\ [Next]_vars => CopiesInv'
<1> SUFFICES ASSUME IInv, CopiesInv, [Next]_vars PROVE CopiesInv'
  OBVIOUS
<1>1. CASE UNCHANGED vars
  BY <1>1 DEF vars, broker, client, CopiesInv, Sourced, OneCopy, HeldOnce, Held
<1>2. CASE BrokerRestart \/ \E m \in Msg : Arrive(m)
  BY <1>2, BrokerRestartCopies, ArriveCopies
<1>3. ASSUME NEW r \in Replica, Goroutine(r) \/ Environment(r)
      PROVE  CopiesInv'
  BY <1>3, ConnectCopies, ControlCopies, ReceiveCopies, InsertCopies, SettleCopies,
     EndOfSessionCopies, DeliverCopies, SessionLossCopies DEF Goroutine, Environment
<1> QED BY <1>1, <1>2, <1>3 DEF Next

\* One copy of a click is with the broker, and nobody has one it did not get there.
THEOREM CopiesInvariance == Spec => [](IInv /\ CopiesInv)
BY InitCopies, NextCopies, Invariance, PTL DEF Spec

--------------------------------------------------------------------------------
(* The refinement of ClickSink.                                            *)

Queue == ready \cup InFlight
Table == {m \in Msg : rows[m] > 0}

\* An inserted batch is in the table, with all that was there before.
LEMMA BatchStored ==
    ASSUME IInv, CopiesInv, NEW r \in Replica, rows' = WithBatch(r)
    PROVE  /\ Table' = Table \cup Msgs(events[r])
           /\ Msgs(events[r]) \subseteq published \ Malformed
<1>1. /\ IsFiniteSet(events[r])
      /\ \A d \in events[r] : d.msg \in Msg /\ d.msg \notin Malformed /\ d.msg \in published
  BY DEF IInv, SessionInv, BatchOf, Valid, CopiesInv, Sourced, Held
<1>2. \A m \in Msg : rows[m] \in Nat
  BY DEF IInv, TypeOK
<1>3. \A m \in Msg : rows'[m] \in Nat /\ rows'[m] >= rows[m]
  BY <1>1, BatchRows DEF IInv
<1>4. \A d \in events[r] : rows'[d.msg] > 0
  BY <1>1, BatchRows DEF IInv
<1>5. ASSUME NEW m \in Msg, m \notin Msgs(events[r])
      PROVE  rows'[m] = rows[m]
  <2>1. {d \in events[r] : d.msg = m} = {}
    BY <1>5 DEF Msgs
  <2> QED BY <1>2, <2>1, FS_EmptySet DEF WithBatch
<1>6. Table' = Table \cup Msgs(events[r])
  BY <1>1, <1>2, <1>3, <1>4, <1>5 DEF Table, Msgs
<1> QED BY <1>1, <1>6 DEF Msgs

\* What a session gives up stays queued.
LEMMA RequeueKeepsQueue ==
    ASSUME IInv, NEW r \in Replica, Requeue(r)
    PROVE  Queue' = Queue
<1>1. \A q \in Replica : q # r => unacked'[q] = unacked[q]
  BY DEF Requeue, IInv, TypeOK
<1>2. unacked'[r] = {} /\ ready' = ready \cup Msgs(unacked[r])
  BY DEF Requeue, IInv, TypeOK
<1> QED BY <1>1, <1>2 DEF Queue, InFlight, Msgs

\* Storing a batch, or part of a step that did not come to it.
LEMMA StoreStep ==
    ASSUME IInv, CopiesInv, NEW r \in Replica, Queue' = Queue,
           UNCHANGED <<published, lost>>, rows' = rows \/ rows' = WithBatch(r)
    PROVE  [Sink!Next]_(Sink!sinkVars)
<1>1. CASE rows' = rows
  <2>1. (ready \cup InFlight)' = ready \cup InFlight
    BY DEF Queue
  <2>2. {m \in Msg : rows[m] > 0}' = {m \in Msg : rows[m] > 0}
    BY <1>1
  <2> QED BY <2>1, <2>2 DEF Sink!sinkVars
<1>2. CASE rows' = WithBatch(r)
  <2>1. Msgs(events[r]) \in SUBSET Msg
    BY DEF IInv, TypeOK, Delivery, Msgs
  <2>2. PICK S \in SUBSET Msg : S = Msgs(events[r])
    BY <2>1
  <2>3. Sink!Store(S)
    BY <1>2, <2>2, BatchStored DEF Sink!Store, Queue, Table
  <2> QED BY <2>3 DEF Sink!Next
<1> QED BY <1>1, <1>2

\* What leaves the queue for good is in the table or malformed.
LEMMA SettledStep ==
    ASSUME IInv, UNCHANGED <<published, lost, rows>>, Queue' \subseteq Queue,
           Queue \ Queue' \subseteq Table \cup Malformed
    PROVE  [Sink!Next]_(Sink!sinkVars)
<1>1. Queue \ Queue' \in SUBSET Msg
  BY DEF IInv, TypeOK, Queue, InFlight, Msgs, Delivery
<1>2. PICK S \in SUBSET Msg : S = Queue \ Queue'
  BY <1>1
<1>3. Sink!Settle(S)
  BY <1>2 DEF Sink!Settle, Queue, Table
<1> QED BY <1>3 DEF Sink!Next

LEMMA NextSink ==
    ASSUME IInv, CopiesInv, IInv', [Next]_vars
    PROVE  [Sink!Next]_(Sink!sinkVars)
<1>1. CASE UNCHANGED vars
  BY <1>1 DEF vars, broker, Sink!sinkVars, InFlight
<1>2. ASSUME NEW m \in Msg, Arrive(m)
      PROVE  Sink!Next
  <2>1. InFlight' = InFlight
    BY <1>2 DEF Arrive, InFlight
  <2> QED BY <1>2, <2>1 DEF Arrive, Sink!Next, Sink!Publish
<1>3. CASE BrokerRestart
  <2>1. /\ InFlight' = {} /\ ready' = {} /\ lost' = lost \cup (ready \cup InFlight)
        /\ UNCHANGED <<published, rows>>
    BY <1>3 DEF BrokerRestart, InFlight, Msgs
  <2> QED BY <2>1 DEF Sink!Next, Sink!Wipe
<1>4. ASSUME NEW r \in Replica, Deliver(r)
      PROVE  [Sink!Next]_(Sink!sinkVars)
  <2>1. PICK m \in ready :
          LET d == [tag |-> nextTag[r], msg |-> m] IN
          /\ ready' = ready \ {m}
          /\ unacked' = [unacked EXCEPT ![r] = @ \cup {d}]
    BY <1>4 DEF Deliver
  <2> DEFINE d == [tag |-> nextTag[r], msg |-> m]
  <2>2. InFlight' = InFlight \cup {m}
    <3>1. /\ unacked'[r] = unacked[r] \cup {d} /\ d.msg = m
          /\ \A q \in Replica : q # r => unacked'[q] = unacked[q]
      BY <2>1 DEF IInv, TypeOK
    <3> HIDE DEF d
    <3> QED BY <3>1 DEF InFlight, Msgs
  <2>3. Queue' = Queue /\ UNCHANGED <<published, lost, rows>>
    BY <1>4, <2>1, <2>2 DEF Queue, Deliver
  <2> QED BY <2>3, StoreStep
<1>5. ASSUME NEW r \in Replica,
             Return(r) \/ Crash(r) \/ SessionLoss(r)
      PROVE  [Sink!Next]_(Sink!sinkVars)
  <2>1. /\ Requeue(r) /\ UNCHANGED <<published, lost>>
        /\ rows' = rows \/ rows' = WithBatch(r)
    BY <1>5 DEF Return, Crash, SessionLoss
  <2> QED BY <2>1, RequeueKeepsQueue, StoreStep
<1>6. ASSUME NEW r \in Replica,
             \/ DialFails(r) \/ Tick(r) \/ SeeDone(r) \/ SeeClosed(r) \/ Connect(r)
             \/ Redial(r) \/ StopRun(r) \/ Close(r) \/ Restart(r) \/ Insert(r)
      PROVE  [Sink!Next]_(Sink!sinkVars)
  <2>1. /\ UNCHANGED <<published, lost, ready, unacked>>
        /\ rows' = rows \/ rows' = WithBatch(r)
    BY <1>6 DEF DialFails, Tick, SeeDone, SeeClosed, Leave, Connect, Redial, StopRun,
                Close, Restart, Insert, broker
  <2>2. Queue' = Queue
    BY <2>1 DEF Queue, InFlight
  <2> QED BY <2>1, <2>2, StoreStep
<1>7. ASSUME NEW r \in Replica, Receive(r)
      PROVE  [Sink!Next]_(Sink!sinkVars)
  <2>1. UNCHANGED <<published, lost, rows, ready>>
    BY <1>7 DEF Receive
  <2>2. PICK d \in inbox[r] :
           /\ \/ unacked'[r] = unacked[r]
              \/ unacked'[r] = unacked[r] \ {d} /\ d.msg \in Malformed
           /\ \A q \in Replica : q # r => unacked'[q] = unacked[q]
    BY <1>7, ReceiveMoves
  <2>3. InFlight' \subseteq InFlight /\ InFlight \ InFlight' \subseteq Malformed
    BY <2>2 DEF InFlight, Msgs
  <2>4. Queue' \subseteq Queue /\ Queue \ Queue' \subseteq Malformed
    BY <2>1, <2>3 DEF Queue
  <2> QED BY <2>1, <2>4, SettledStep
<1>8. ASSUME NEW r \in Replica, Settle(r)
      PROVE  [Sink!Next]_(Sink!sinkVars)
  <2>1. /\ UNCHANGED <<published, lost, rows>>
        /\ ready' = ready \cup Requeued(r)
        /\ unacked'[r] = unacked[r] \ UpToLast(r)
        /\ UpToLast(r) \subseteq unacked[r] \cap events[r]
        /\ \A q \in Replica : q # r => unacked'[q] = unacked[q]
    BY <1>8, SettleMoves
  <2>2. InFlight' \subseteq InFlight /\ InFlight \subseteq InFlight' \cup Msgs(UpToLast(r))
        /\ Msgs(UpToLast(r)) \subseteq InFlight
    BY <2>1 DEF InFlight, Msgs
  <2>3. result[r] # "ok" => Requeued(r) = Msgs(UpToLast(r))
    BY DEF Requeued
  <2>4. result[r] = "ok" => Requeued(r) = {} /\ Msgs(UpToLast(r)) \subseteq Table
    <3>1. pc[r] = "settle"
      BY <1>8 DEF Settle
    <3>2. result[r] = "ok" => \A d \in events[r] : rows[d.msg] > 0 /\ d.msg \in Msg
      BY <3>1 DEF IInv, SessionInv, BatchOf, Valid
    <3> QED BY <2>1, <3>2 DEF Requeued, Table, Msgs
  <2>5. Queue' \subseteq Queue /\ Queue \ Queue' \subseteq Table
    BY <2>1, <2>2, <2>3, <2>4 DEF Queue
  <2> QED BY <2>1, <2>5, SettledStep
<1>9. ASSUME NEW r \in Replica, Goroutine(r) \/ Environment(r)
      PROVE  [Sink!Next]_(Sink!sinkVars)
  BY <1>4, <1>5, <1>6, <1>7, <1>8, <1>9 DEF Goroutine, Environment
<1> QED BY <1>1, <1>2, <1>3, <1>9 DEF Next

\* Sessions, tags, batches and replicas never show: a click leaves the queue only for
\* the table, or because the broker forgot it.
THEOREM SinkImplemented == Spec => ImplementsSink
<1>1. Init => Sink!Init
  BY DEF Init, Sink!Init, InFlight, Msgs
<1> QED BY <1>1, CopiesInvariance, NextSink, PTL DEF Spec, ImplementsSink, Sink!Spec

\* What the broker discarded was published, and it has no copy of it left.
Discarded == lost \subseteq published /\ lost \cap Queue = {}

LEMMA NextDiscarded ==
    ASSUME IInv, CopiesInv, IInv', Discarded, [Next]_vars
    PROVE  Discarded'
<1>1. Queue \subseteq published
  BY DEF Queue, InFlight, Msgs, CopiesInv, Sourced
<1>2. [Sink!Next]_(Sink!sinkVars)
  BY NextSink
<1>3. Sink!Next \/ UNCHANGED <<published, Queue, lost>>
  BY <1>2 DEF Sink!sinkVars, Queue
<1>4. ASSUME NEW m \in Msg, Sink!Publish(m)
      PROVE  Discarded'
  BY <1>1, <1>4 DEF Discarded, Sink!Publish, Queue
<1>5. ASSUME NEW S \in SUBSET Msg, Sink!Store(S) \/ Sink!Settle(S)
      PROVE  Discarded'
  BY <1>5 DEF Discarded, Sink!Store, Sink!Settle, Queue
<1>6. CASE Sink!Wipe
  BY <1>1, <1>6 DEF Discarded, Sink!Wipe, Queue
<1>7. CASE UNCHANGED <<published, Queue, lost>>
  BY <1>7 DEF Discarded
<1> QED BY <1>3, <1>4, <1>5, <1>6, <1>7 DEF Sink!Next

THEOREM DiscardedInvariance == Spec => [](IInv /\ CopiesInv /\ Discarded)
<1>1. Init => Discarded
  BY DEF Init, Discarded
<1> QED BY <1>1, CopiesInvariance, NextDiscarded, PTL DEF Spec

\* What left the queue never comes back to it, what was stored or discarded stays so:
\* an acknowledged click is not delivered again, by no requeueing, reconnect or crash.
\* Of MalformedDrains this is the half that needs no fairness.
THEOREM SettledForGood ==
    Spec => [][\A m \in published :
                  /\ m \notin ready \cup InFlight => m \notin (ready \cup InFlight)'
                  /\ rows[m] > 0 => rows'[m] > 0
                  /\ m \in lost => m \in lost']_vars
<1> DEFINE Settled == \A m \in published :
              /\ m \notin ready \cup InFlight => m \notin (ready \cup InFlight)'
              /\ rows[m] > 0 => rows'[m] > 0
              /\ m \in lost => m \in lost'
<1>1. ASSUME IInv, CopiesInv, IInv', [Next]_vars
      PROVE  Settled
  <2> DEFINE Onwards == /\ Queue' \cap published \subseteq Queue
                        /\ Table \subseteq Table' /\ lost \subseteq lost'
  <2>1. Onwards
    <3>1. [Sink!Next]_(Sink!sinkVars)
      BY <1>1, NextSink
    <3>2. Sink!Next \/ UNCHANGED <<published, Queue, Table, lost>>
      BY <3>1 DEF Sink!sinkVars, Queue, Table
    <3>3. ASSUME NEW m \in Msg, Sink!Publish(m)
          PROVE  Onwards
      BY <3>3 DEF Sink!Publish, Queue, Table
    <3>4. ASSUME NEW S \in SUBSET Msg, Sink!Store(S) \/ Sink!Settle(S)
          PROVE  Onwards
      BY <3>4 DEF Sink!Store, Sink!Settle, Queue, Table
    <3>5. CASE Sink!Wipe
      BY <3>5 DEF Sink!Wipe, Queue, Table
    <3>6. CASE UNCHANGED <<published, Queue, Table, lost>>
      BY <3>6
    <3> QED BY <3>2, <3>3, <3>4, <3>5, <3>6 DEF Sink!Next
  <2>2. published \subseteq Msg
    BY <1>1 DEF IInv, TypeOK
  <2> QED BY <2>1, <2>2 DEF Queue, Table
<1>2. IInv /\ CopiesInv /\ IInv' /\ [Next]_vars => [Settled]_vars
  BY <1>1
<1> QED BY <1>2, CopiesInvariance, PTL DEF Spec

--------------------------------------------------------------------------------
(* Rows beyond the first.  A copy that is queued, or held and not yet      *)
(* stored, is a row to come; what there is of both grows with faults only. *)

\* What r holds and has not stored for good.
Unstored(r) == IF pc[r] = "settle" /\ result[r] = "ok" THEN inbox[r] ELSE Held(r)

Holders(m) == {r \in Replica : m \in Msgs(Unstored(r))}

One(b) == IF b THEN 1 ELSE 0

Counted(m) ==
    /\ IsFiniteSet(Holders(m))
    /\ rows[m] + One(m \in ready) + Cardinality(Holders(m)) <= 1 + faults

\* Only r changes what it holds, and the sum grows by the faults of the step at most.
LEMMA CountedLocally ==
    ASSUME IInv, IInv', NEW m \in Msg, NEW r \in Replica, Counted(m),
           \A q \in Replica : q # r => Unstored(q)' = Unstored(q),
           rows'[m] + One(m \in ready') + One(m \in Msgs(Unstored(r)')) + faults
             <= rows[m] + One(m \in ready) + One(m \in Msgs(Unstored(r))) + faults'
    PROVE  Counted(m)'
<1> DEFINE H == Holders(m)
           rest == H \ {r}
<1>1. Holders(m)' \ {r} = rest
  BY DEF Holders, Msgs
<1>2. (r \in H <=> m \in Msgs(Unstored(r))) /\ (r \in Holders(m)' <=> m \in Msgs(Unstored(r)'))
  BY DEF Holders, Msgs
<1>3. IsFiniteSet(H)
  BY DEF Counted
<1> HIDE DEF H
<1>4. /\ IsFiniteSet(rest) /\ Cardinality(rest) \in Nat
      /\ Cardinality(rest) = Cardinality(H) - One(r \in H) /\ Cardinality(H) \in Nat
  BY <1>3, FS_RemoveElement, FS_CardinalityType DEF One
<1>5. /\ r \in Holders(m)' => Holders(m)' = rest \cup {r}
      /\ r \notin Holders(m)' => Holders(m)' = rest
  BY <1>1
<1>6. r \notin rest
  OBVIOUS
<1> HIDE DEF rest
<1>7. /\ IsFiniteSet(Holders(m)')
      /\ Cardinality(Holders(m)') = Cardinality(rest) + One(r \in Holders(m)')
  <2>1. /\ IsFiniteSet(rest \cup {r})
        /\ Cardinality(rest \cup {r}) = Cardinality(rest) + 1
    BY <1>4, <1>6, FS_AddElement
  <2>2. CASE r \in Holders(m)'
    <3>1. One(r \in Holders(m)') = 1
      BY <2>2 DEF One
    <3>2. Holders(m)' = rest \cup {r}
      BY <1>5, <2>2
    <3> QED BY <2>1, <3>1, <3>2
  <2>3. CASE r \notin Holders(m)'
    <3>1. One(r \in Holders(m)') = 0
      BY <2>3 DEF One
    <3>2. Holders(m)' = rest
      BY <1>5, <2>3
    <3>3. Cardinality(rest) + 0 = Cardinality(rest)
      BY <1>4
    <3> QED BY <1>4, <3>1, <3>2, <3>3
  <2> QED BY <2>2, <2>3
<1>8. /\ rows[m] \in Nat /\ rows'[m] \in Nat /\ faults \in Nat /\ faults' \in Nat
  BY DEF IInv, TypeOK
<1>9. rows[m] + One(m \in ready) + Cardinality(H) <= 1 + faults
  BY DEF Counted, H
<1> QED BY <1>2, <1>4, <1>7, <1>8, <1>9 DEF Counted, One

\* The rows a batch adds to one event.
LEMMA BatchAddsOne ==
    ASSUME IInv, CopiesInv, NEW r \in Replica, NEW m \in Msg
    PROVE  WithBatch(r)[m] = rows[m] + One(m \in Msgs(events[r]))
<1> DEFINE copies == {d \in events[r] : d.msg = m}
<1>1. WithBatch(r)[m] = rows[m] + Cardinality(copies) /\ rows[m] \in Nat
  BY DEF WithBatch, IInv, TypeOK
<1>2. CASE m \in Msgs(events[r])
  <2>1. PICK d \in events[r] : d.msg = m
    BY <1>2 DEF Msgs
  <2>2. copies = {d}
    BY <2>1 DEF CopiesInv, HeldOnce, Held
  <2>3. Cardinality(copies) = 1
    BY <2>2, FS_Singleton
  <2> QED BY <1>1, <1>2, <2>3 DEF One
<1>3. CASE m \notin Msgs(events[r])
  <2>1. copies = {}
    BY <1>3 DEF Msgs
  <2>2. Cardinality(copies) = 0
    BY <2>1, FS_EmptySet
  <2> QED BY <1>1, <1>3, <2>2 DEF One
<1> QED BY <1>2, <1>3

\* A copy in the batch is none in the channel.
LEMMA HeldInOnePlace ==
    ASSUME IInv, CopiesInv, NEW r \in Replica
    PROVE  Msgs(events[r]) \cap Msgs(inbox[r]) = {}
<1> SUFFICES ASSUME NEW d \in events[r], NEW e \in inbox[r], d.msg = e.msg PROVE FALSE
  BY DEF Msgs
<1>1. d = e
  BY DEF CopiesInv, HeldOnce, Held
<1> QED BY <1>1, BatchNotInChannel

--------------------------------------------------------------------------------
LEMMA ArriveCounted ==
    ASSUME IInv, IInv', CopiesInv, NEW n \in Msg, Arrive(n), NEW m \in Msg, Counted(m)
    PROVE  Counted(m)'
<1>1. /\ n \notin published /\ ready' \subseteq ready \cup {n} /\ ready \subseteq ready'
      /\ UNCHANGED <<inbox, events, pc, result, rows, faults>>
  BY DEF Arrive, client, budget
<1>2. Holders(m)' = Holders(m)
  BY <1>1 DEF Holders, Unstored, Held
<1>3. CASE m = n
  <2>1. \A r \in Replica : m \notin Msgs(Unstored(r))
    BY <1>1, <1>3 DEF CopiesInv, Sourced, Unstored, Held, Msgs
  <2>2. Holders(m) = {}
    BY <2>1 DEF Holders
  <2>3. rows[m] = 0
    BY <1>1, <1>3 DEF CopiesInv, Sourced, IInv, TypeOK
  <2>4. faults \in Nat
    BY DEF IInv, TypeOK
  <2> QED BY <1>1, <1>2, <2>2, <2>3, <2>4, FS_EmptySet DEF Counted, One
<1>4. CASE m # n
  <2>1. m \in ready' <=> m \in ready
    BY <1>1, <1>4
  <2> QED BY <1>1, <1>2, <2>1 DEF Counted
<1> QED BY <1>3, <1>4

LEMMA BrokerRestartCounted ==
    ASSUME IInv, BrokerRestart, NEW m \in Msg, Counted(m)
    PROVE  Counted(m)'
<1>1. /\ ready' = {} /\ faults' = faults + 1
      /\ UNCHANGED <<inbox, events, pc, result, rows>>
  BY DEF BrokerRestart
<1>2. Holders(m)' = Holders(m)
  BY <1>1 DEF Holders, Unstored, Held
<1>3. rows[m] \in Nat /\ faults \in Nat /\ Cardinality(Holders(m)) \in Nat
  BY FS_CardinalityType DEF IInv, TypeOK, Counted
<1> QED BY <1>1, <1>2, <1>3 DEF Counted, One

LEMMA DeliverCounted ==
    ASSUME IInv, IInv', NEW r \in Replica, Deliver(r), NEW m \in Msg, Counted(m)
    PROVE  Counted(m)'
<1>1. PICK n \in ready :
          LET d == [tag |-> nextTag[r], msg |-> n] IN
          /\ ready' = ready \ {n}
          /\ inbox' = [inbox EXCEPT ![r] = @ \cup {d}]
  BY DEF Deliver
<1> DEFINE d == [tag |-> nextTag[r], msg |-> n]
<1>2. /\ d.msg = n /\ ready' = ready \ {n}
      /\ inbox'[r] = inbox[r] \cup {d}
      /\ \A q \in Replica : q # r => inbox'[q] = inbox[q]
      /\ UNCHANGED <<events, pc, result, rows, faults>>
  BY <1>1 DEF Deliver, IInv, TypeOK, budget
<1> HIDE DEF d
<1>3. Unstored(r)' = Unstored(r) \cup {d}
  BY <1>2 DEF Unstored, Held
<1>4. \A q \in Replica : q # r => Unstored(q)' = Unstored(q)
  BY <1>2 DEF Unstored, Held
<1>5. Msgs(Unstored(r)') = Msgs(Unstored(r)) \cup {n}
  BY <1>2, <1>3 DEF Msgs
<1>6. rows[m] \in Nat /\ faults \in Nat
  BY DEF IInv, TypeOK
<1> QED BY <1>2, <1>4, <1>5, <1>6, CountedLocally DEF One

LEMMA SessionLossCounted ==
    ASSUME IInv, IInv', NEW r \in Replica, SessionLoss(r), NEW m \in Msg, Counted(m)
    PROVE  Counted(m)'
<1>1. /\ faults' = faults + 1 /\ UNCHANGED <<inbox, events, pc, result, rows>>
      /\ rows[m] \in Nat /\ faults \in Nat
  BY DEF SessionLoss, IInv, TypeOK
<1>2. \A q \in Replica : Unstored(q)' = Unstored(q)
  BY <1>1 DEF Unstored, Held
<1> QED BY <1>1, <1>2, CountedLocally DEF One

LEMMA ControlCounted ==
    ASSUME IInv, IInv', NEW r \in Replica,
           \/ DialFails(r) \/ Tick(r) \/ SeeDone(r) \/ SeeClosed(r) \/ Connect(r)
           \/ Redial(r) \/ StopRun(r) \/ Close(r) \/ Restart(r),
           NEW m \in Msg, Counted(m)
    PROVE  Counted(m)'
<1>1. /\ UNCHANGED <<ready, inbox, events, result, rows, faults>>
      /\ \A q \in Replica :
            \/ pc'[q] = pc[q]
            \/ pc[q] # "settle" /\ pc'[q] # "settle"
  <2> USE DEF IInv, TypeOK, broker, budget
  <2>1. CASE DialFails(r)
    BY <2>1 DEF DialFails
  <2>2. CASE Tick(r)
    BY <2>2 DEF Tick
  <2>3. CASE SeeDone(r) \/ SeeClosed(r)
    BY <2>3 DEF SeeDone, SeeClosed, Leave
  <2>4. CASE Connect(r) \/ Redial(r) \/ StopRun(r)
    BY <2>4 DEF Connect, Redial, StopRun
  <2>5. CASE Close(r) \/ Restart(r)
    BY <2>5 DEF Close, Restart
  <2> QED BY <2>1, <2>2, <2>3, <2>4, <2>5
<1>2. \A q \in Replica : Unstored(q)' = Unstored(q)
  BY <1>1 DEF Unstored, Held
<1>3. rows[m] \in Nat /\ faults \in Nat
  BY DEF IInv, TypeOK
<1> QED BY <1>1, <1>2, <1>3, CountedLocally DEF One

LEMMA ReceiveCounted ==
    ASSUME IInv, IInv', CopiesInv, NEW r \in Replica, Receive(r),
           NEW m \in Msg, Counted(m)
    PROVE  Counted(m)'
<1>1. /\ UNCHANGED <<ready, rows, result, faults>> /\ pc[r] = "loop"
      /\ rows[m] \in Nat /\ faults \in Nat
  BY DEF Receive, IInv, TypeOK, budget
<1>2. /\ Held(r)' \subseteq Held(r) /\ pc'[r] \in {"loop", "insert"}
      /\ \A q \in Replica : q # r =>
            inbox'[q] = inbox[q] /\ events'[q] = events[q] /\ pc'[q] = pc[q]
  BY ReceiveMoves
<1>3. \A q \in Replica : q # r => Unstored(q)' = Unstored(q)
  BY <1>1, <1>2 DEF Unstored, Held
<1>4. Unstored(r)' = Held(r)' /\ Unstored(r) = Held(r)
  BY <1>1, <1>2 DEF Unstored
<1>5. m \in Msgs(Unstored(r)') => m \in Msgs(Unstored(r))
  BY <1>2, <1>4 DEF Msgs
<1> QED BY <1>1, <1>3, <1>5, CountedLocally DEF One

LEMMA InsertCounted ==
    ASSUME IInv, IInv', CopiesInv, NEW r \in Replica, Insert(r),
           NEW m \in Msg, Counted(m)
    PROVE  Counted(m)'
<1>1. /\ UNCHANGED <<ready, inbox, events>> /\ pc[r] = "insert" /\ pc'[r] = "settle"
      /\ \A q \in Replica : q # r => pc'[q] = pc[q] /\ result'[q] = result[q]
      /\ \/ rows' = WithBatch(r) /\ result'[r] = "ok" /\ faults' = faults
         \/ rows' = rows /\ result'[r] = "err" /\ faults' = faults
         \/ rows' = WithBatch(r) /\ result'[r] = "err" /\ faults' = faults + 1
      /\ rows[m] \in Nat /\ faults \in Nat
  BY DEF Insert, IInv, TypeOK, broker, budget
<1>2. \A q \in Replica : q # r => Unstored(q)' = Unstored(q)
  BY <1>1 DEF Unstored, Held
<1>3. Unstored(r) = events[r] \cup inbox[r]
  BY <1>1 DEF Unstored, Held
<1>4. Unstored(r)' = IF result'[r] = "ok" THEN inbox[r] ELSE events[r] \cup inbox[r]
  BY <1>1 DEF Unstored, Held
<1> DEFINE inBatch == m \in Msgs(events[r])
           inChannel == m \in Msgs(inbox[r])
<1>5. /\ (m \in Msgs(Unstored(r)) <=> inBatch \/ inChannel)
      /\ (m \in Msgs(Unstored(r)') <=> inChannel \/ (result'[r] # "ok" /\ inBatch))
      /\ ~(inBatch /\ inChannel)
  BY <1>3, <1>4, HeldInOnePlace DEF Msgs
<1>6. rows' = WithBatch(r) => rows'[m] = rows[m] + One(inBatch)
  BY BatchAddsOne
<1> HIDE DEF inBatch, inChannel
<1>7. rows'[m] + One(m \in ready') + One(m \in Msgs(Unstored(r)')) + faults
        <= rows[m] + One(m \in ready) + One(m \in Msgs(Unstored(r))) + faults'
  <2>1. UNCHANGED ready
    BY <1>1
  <2>2. CASE rows' = WithBatch(r) /\ result'[r] = "ok" /\ faults' = faults
    BY <1>1, <1>5, <1>6, <2>1, <2>2 DEF One
  <2>3. CASE rows' = rows /\ result'[r] = "err" /\ faults' = faults
    BY <1>1, <1>5, <2>1, <2>3 DEF One
  <2>4. CASE rows' = WithBatch(r) /\ result'[r] = "err" /\ faults' = faults + 1
    BY <1>1, <1>5, <1>6, <2>1, <2>4 DEF One
  <2> QED BY <1>1, <2>2, <2>3, <2>4
<1> QED BY <1>2, <1>7, CountedLocally

LEMMA SettleCounted ==
    ASSUME IInv, IInv', CopiesInv, NEW r \in Replica, Settle(r),
           NEW m \in Msg, Counted(m)
    PROVE  Counted(m)'
<1>1. /\ Held(r)' = inbox[r] /\ pc'[r] \in {"return", "loop"} /\ pc[r] = "settle"
      /\ inbox' = inbox
      /\ ready' = ready \cup Requeued(r) /\ UNCHANGED <<rows, faults>>
      /\ UpToLast(r) \subseteq events[r]
      /\ \A q \in Replica : q # r =>
            events'[q] = events[q] /\ pc'[q] = pc[q] /\ result'[q] = result[q]
      /\ rows[m] \in Nat /\ faults \in Nat
  <2>1. pc[r] = "settle"
    BY DEF Settle
  <2>2. UpToLast(r) \subseteq events[r]
    BY SettleMoves
  <2>3. rows[m] \in Nat /\ faults \in Nat
    BY DEF IInv, TypeOK
  <2> QED BY <2>1, <2>2, <2>3, SettleMoves
<1>2. \A q \in Replica : q # r => Unstored(q)' = Unstored(q)
  BY <1>1 DEF Unstored, Held
<1>3. Unstored(r)' = inbox[r]
  BY <1>1 DEF Unstored
<1>4. Unstored(r) = IF result[r] = "ok" THEN inbox[r] ELSE events[r] \cup inbox[r]
  BY <1>1 DEF Unstored, Held
<1>5. /\ m \in Requeued(r) => m \in Msgs(events[r]) /\ result[r] # "ok"
      /\ ~(m \in Msgs(events[r]) /\ m \in Msgs(inbox[r]))
  BY <1>1, HeldInOnePlace DEF Requeued, Msgs
<1>6. /\ m \in Msgs(Unstored(r)') <=> m \in Msgs(inbox[r])
      /\ m \in Msgs(inbox[r]) => m \in Msgs(Unstored(r))
      /\ m \in Requeued(r) => m \in Msgs(Unstored(r)) /\ m \notin Msgs(inbox[r])
  BY <1>3, <1>4, <1>5 DEF Msgs
<1>7. One(m \in ready') + One(m \in Msgs(Unstored(r)'))
        <= One(m \in ready) + One(m \in Msgs(Unstored(r)))
  BY <1>1, <1>6 DEF One
<1>8. rows'[m] + One(m \in ready') + One(m \in Msgs(Unstored(r)')) + faults
        <= rows[m] + One(m \in ready) + One(m \in Msgs(Unstored(r))) + faults'
  BY <1>1, <1>7 DEF One
<1> QED BY <1>2, <1>8, CountedLocally

LEMMA EndOfSessionCounted ==
    ASSUME IInv, IInv', CopiesInv, NEW r \in Replica, Return(r) \/ Crash(r),
           NEW m \in Msg, Counted(m)
    PROVE  Counted(m)'
<1>1. /\ Requeue(r) /\ Held(r)' = {} /\ pc'[r] \in {"wait", "dial"}
      /\ \A q \in Replica : q # r =>
            /\ inbox'[q] = inbox[q] /\ events'[q] = events[q]
            /\ pc'[q] = pc[q] /\ result'[q] = result[q]
      /\ rows[m] \in Nat /\ faults \in Nat
  BY DEF Return, Crash, IInv, TypeOK, Held
<1>2. \A q \in Replica : q # r => Unstored(q)' = Unstored(q)
  BY <1>1 DEF Unstored, Held
<1>3. m \notin Msgs(Unstored(r)')
  BY <1>1 DEF Unstored, Msgs
<1>4. ready' = ready \cup Msgs(unacked[r])
  BY <1>1 DEF Requeue
<1>5. CASE Return(r)
  <2>1. UNCHANGED <<rows, faults>> /\ pc[r] = "return"
    BY <1>5 DEF Return, budget
  <2>2. unacked[r] \subseteq Unstored(r)
    BY <2>1 DEF IInv, SessionInv, OutstandingOf, CopiesInv, HeldOnce, Unstored
  <2>3. m \in Msgs(unacked[r]) => m \in Msgs(Unstored(r))
    BY <2>2 DEF Msgs
  <2>4. rows'[m] + One(m \in ready') + One(m \in Msgs(Unstored(r)')) + faults
          <= rows[m] + One(m \in ready) + One(m \in Msgs(Unstored(r))) + faults'
    BY <1>1, <1>3, <1>4, <2>1, <2>3 DEF One
  <2> QED BY <1>2, <2>4, CountedLocally
<1>6. CASE Crash(r)
  <2>1. /\ faults' = faults + 1
        /\ \/ rows' = rows
           \/ pc[r] = "insert" /\ rows' = WithBatch(r)
    BY <1>6 DEF Crash
  <2>2. pc[r] = "insert" => (m \in Msgs(events[r]) => m \in Msgs(Unstored(r)))
    BY DEF Unstored, Held, Msgs
  <2>3. rows'[m] + One(m \in Msgs(Unstored(r)')) <= rows[m] + One(m \in Msgs(Unstored(r)))
    BY <1>1, <1>3, <2>1, <2>2, BatchAddsOne DEF One
  <2>4. rows'[m] + One(m \in ready') + One(m \in Msgs(Unstored(r)')) + faults
          <= rows[m] + One(m \in ready) + One(m \in Msgs(Unstored(r))) + faults'
    <3>1. rows'[m] \in Nat
      BY DEF IInv, TypeOK
    <3> QED BY <1>1, <2>1, <2>3, <3>1 DEF One
  <2> QED BY <1>2, <2>4, CountedLocally
<1> QED BY <1>5, <1>6

LEMMA NextCounted ==
    ASSUME IInv, IInv', CopiesInv, [Next]_vars, \A m \in Msg : Counted(m)
    PROVE  \A m \in Msg : Counted(m)'
<1> SUFFICES ASSUME NEW m \in Msg PROVE Counted(m)'
  OBVIOUS
<1>1. CASE UNCHANGED vars
  BY <1>1 DEF vars, broker, client, budget, Counted, Holders, Unstored, Held
<1>2. CASE BrokerRestart \/ \E n \in Msg : Arrive(n)
  BY <1>2, BrokerRestartCounted, ArriveCounted
<1>3. ASSUME NEW r \in Replica, Goroutine(r) \/ Environment(r)
      PROVE  Counted(m)'
  BY <1>3, ControlCounted, ReceiveCounted, InsertCounted, SettleCounted,
     EndOfSessionCounted, DeliverCounted, SessionLossCounted DEF Goroutine, Environment
<1> QED BY <1>1, <1>2, <1>3 DEF Next

\* Without a fault a click has one row at most, and each fault can add one.
THEOREM FewDuplicates == Spec => []DuplicatesNeedFaults
<1> DEFINE AllCounted == \A m \in Msg : Counted(m)
<1>1. Init => AllCounted
  <2> SUFFICES ASSUME Init, NEW m \in Msg PROVE Counted(m)
    OBVIOUS
  <2>1. Holders(m) = {}
    BY DEF Init, Holders, Unstored, Held, Msgs
  <2>2. rows[m] = 0 /\ faults = 0 /\ ready = {}
    BY DEF Init
  <2> QED BY <2>1, <2>2, FS_EmptySet DEF Counted, One
<1>2. IInv /\ IInv' /\ CopiesInv /\ AllCounted /\ [Next]_vars => AllCounted'
  BY NextCounted
<1>3. IInv /\ AllCounted => DuplicatesNeedFaults
  <2> SUFFICES ASSUME IInv, AllCounted, NEW m \in Msg PROVE rows[m] <= 1 + faults
    BY DEF DuplicatesNeedFaults
  <2>1. Cardinality(Holders(m)) \in Nat /\ rows[m] \in Nat /\ faults \in Nat
    BY FS_CardinalityType DEF Counted, IInv, TypeOK
  <2>2. rows[m] + One(m \in ready) + Cardinality(Holders(m)) <= 1 + faults
    BY DEF Counted
  <2> QED BY <2>1, <2>2 DEF One
<1> HIDE DEF AllCounted
<1> QED BY <1>1, <1>2, <1>3, CopiesInvariance, PTL DEF Spec

--------------------------------------------------------------------------------
(* What a replica keeps in memory.                                         *)

Largest == IF BatchSize = 0 THEN 1 ELSE BatchSize

\* The batch is inserted as soon as it is full, and what is with the process of a
\* session that was open is what the broker counted against the prefetch limit.
Bounded(r) ==
    /\ IsFiniteSet(Held(r))
    /\ Cardinality(events[r]) <= Largest
    /\ pc[r] = "loop" => events[r] = {} \/ Cardinality(events[r]) < BatchSize
    /\ Prefetch # 0 => Cardinality(Held(r)) <= Prefetch

\* A step that only takes from what r holds, and does not put it back into the loop
\* with a batch.
LEMMA FewerHeld ==
    ASSUME IInv, NEW r \in Replica, Bounded(r),
           inbox'[r] \subseteq inbox[r],
           events'[r] \in {events[r], {}},
           pc'[r] = "loop" => events'[r] = {} \/ pc[r] = "loop"
    PROVE  Bounded(r)'
<1>1. Held(r)' \subseteq Held(r)
  BY DEF Held
<1>2. IsFiniteSet(Held(r)') /\ Cardinality(Held(r)') <= Cardinality(Held(r))
  BY <1>1, FS_Subset DEF Bounded
<1>3. /\ Cardinality(Held(r)') \in Nat /\ Cardinality(Held(r)) \in Nat
      /\ Cardinality({}) = 0 /\ BatchSize \in Nat /\ Prefetch \in Nat
  BY <1>2, FS_CardinalityType, FS_EmptySet, ConsumerAssumption DEF Bounded
<1>4. Cardinality(events'[r]) <= Largest
  BY <1>3 DEF Bounded, Largest
<1>5. pc'[r] = "loop" => events'[r] = {} \/ Cardinality(events'[r]) < BatchSize
  BY DEF Bounded
<1>6. Prefetch # 0 => Cardinality(Held(r)') <= Prefetch
  BY <1>2, <1>3 DEF Bounded
<1> QED BY <1>2, <1>4, <1>5, <1>6 DEF Bounded

LEMMA DeliverBounded ==
    ASSUME IInv, CopiesInv, NEW r \in Replica, Bounded(r), Deliver(r)
    PROVE  Bounded(r)'
<1>1. PICK d : inbox'[r] = inbox[r] \cup {d}
  BY DEF Deliver, IInv, TypeOK
<1>2. UNCHANGED <<events, pc>> /\ unacked[r] = Held(r)
      /\ (Prefetch = 0 \/ Cardinality(unacked[r]) < Prefetch)
  BY DEF Deliver, CopiesInv, HeldOnce
<1>3. Held(r)' = Held(r) \cup {d}
  BY <1>1, <1>2 DEF Held
<1>4. IsFiniteSet(Held(r)') /\ Cardinality(Held(r)') <= Cardinality(Held(r)) + 1
      /\ Cardinality(Held(r)) \in Nat
  <2> DEFINE h == Held(r)
             h2 == Held(r)'
  <2>1. IsFiniteSet(h) /\ h2 = h \cup {d}
    BY <1>3 DEF Bounded
  <2> HIDE DEF h, h2
  <2>2. Cardinality(h) \in Nat
    BY <2>1, FS_CardinalityType
  <2>3. IsFiniteSet(h2) /\ (Cardinality(h2) = Cardinality(h) \/ Cardinality(h2) = Cardinality(h) + 1)
    BY <2>1, FS_AddElement
  <2>4. IsFiniteSet(h2) /\ Cardinality(h2) <= Cardinality(h) + 1 /\ Cardinality(h) \in Nat
    BY <2>2, <2>3
  <2> QED BY <2>4 DEF h, h2
<1>5. Prefetch # 0 => Cardinality(Held(r)') <= Prefetch
  <2>1. Cardinality(Held(r)') \in Nat
    BY <1>4, FS_CardinalityType
  <2> QED BY <1>2, <1>4, <2>1, ConsumerAssumption
<1> QED BY <1>2, <1>4, <1>5 DEF Bounded

LEMMA ReceiveBounded ==
    ASSUME IInv, CopiesInv, NEW r \in Replica, Bounded(r), Receive(r)
    PROVE  Bounded(r)'
<1>1. PICK d \in inbox[r] :
         /\ inbox' = [inbox EXCEPT ![r] = @ \ {d}]
         /\ \/ UNCHANGED <<events, pc>>
            \/ /\ events' = [events EXCEPT ![r] = @ \cup {d}]
               /\ pc' = [pc EXCEPT ![r] = IF BatchFull(events'[r])
                                          THEN "insert" ELSE "loop"]
  BY DEF Receive
<1>2. inbox'[r] = inbox[r] \ {d} /\ pc[r] = "loop"
  BY <1>1 DEF Receive, IInv, TypeOK
<1>3. CASE UNCHANGED <<events, pc>>
  BY <1>2, <1>3, FewerHeld
<1>4. CASE /\ events' = [events EXCEPT ![r] = @ \cup {d}]
           /\ pc' = [pc EXCEPT ![r] = IF BatchFull(events'[r]) THEN "insert" ELSE "loop"]
  <2>1. /\ events'[r] = events[r] \cup {d}
        /\ pc'[r] = "loop" => ~(Cardinality(events'[r]) >= BatchSize)
    BY <1>4 DEF BatchFull, IInv, TypeOK
  <2>2. Held(r)' = Held(r)
    BY <1>2, <2>1 DEF Held
  <2>3. d \notin events[r]
    BY BatchNotInChannel
  <2>4. IsFiniteSet(events[r])
    BY DEF IInv, SessionInv, BatchOf
  <2>5. /\ Cardinality(events'[r]) = Cardinality(events[r]) + 1
        /\ Cardinality(events[r]) \in Nat
    BY <2>1, <2>3, <2>4, FS_AddElement, FS_CardinalityType
  <2>6. Cardinality(events'[r]) <= Largest
    <3>1. Cardinality(events[r]) = 0 \/ Cardinality(events[r]) < BatchSize
      BY <1>2, FS_EmptySet DEF Bounded
    <3> QED BY <2>5, <3>1, ConsumerAssumption DEF Largest
  <2>7. pc'[r] = "loop" => Cardinality(events'[r]) < BatchSize
    BY <2>1, <2>5, ConsumerAssumption
  <2> QED BY <2>2, <2>6, <2>7 DEF Bounded
<1> QED BY <1>1, <1>3, <1>4

LEMMA NextBounded ==
    ASSUME IInv, CopiesInv, \A r \in Replica : Bounded(r), [Next]_vars
    PROVE  \A r \in Replica : Bounded(r)'
<1> DEFINE Alone(q) == inbox'[q] = inbox[q] /\ events'[q] = events[q] /\ pc'[q] = pc[q]
<1>1. ASSUME NEW q \in Replica, Alone(q)
      PROVE  Bounded(q)'
  BY <1>1, FewerHeld
<1>2. CASE (\E m \in Msg : Arrive(m)) \/ BrokerRestart \/ UNCHANGED vars
  <2>1. UNCHANGED <<inbox, events, pc>>
    BY <1>2 DEF Arrive, BrokerRestart, vars, client
  <2> QED BY <1>1, <2>1
<1>3. ASSUME NEW r \in Replica, Goroutine(r) \/ Environment(r)
      PROVE  \A q \in Replica : Bounded(q)'
  <2>1. \A q \in Replica : q # r => Alone(q)
    BY <1>3 DEF Goroutine, Environment, Connect, DialFails, Receive, Tick, SeeDone,
          SeeClosed, Leave, Insert, Settle, Return, Redial, StopRun, Deliver,
          SessionLoss, Close, Restart, Crash, IInv, TypeOK
  <2>2. ASSUME Deliver(r) PROVE Bounded(r)'
    BY <2>2, DeliverBounded
  <2>3. ASSUME Receive(r) PROVE Bounded(r)'
    BY <2>3, ReceiveBounded
  <2>4. ASSUME Connect(r) PROVE Bounded(r)'
    <3>1. UNCHANGED <<inbox, events>> /\ events[r] = {}
      BY <2>4 DEF Connect, IInv, SessionInv, IdleIsClean, Idle
    <3> QED BY <3>1, FewerHeld
  <2>5. ASSUME Settle(r) \/ Return(r) \/ Crash(r) PROVE Bounded(r)'
    <3>1. inbox'[r] \subseteq inbox[r] /\ events'[r] = {}
      BY <2>5 DEF Settle, Return, Crash, AfterFlush, IInv, TypeOK
    <3> QED BY <3>1, FewerHeld
  <2>6. ASSUME \/ DialFails(r) \/ Tick(r) \/ SeeDone(r) \/ SeeClosed(r) \/ Insert(r)
               \/ Redial(r) \/ StopRun(r) \/ SessionLoss(r) \/ Close(r) \/ Restart(r)
        PROVE  Bounded(r)'
    <3>1. /\ UNCHANGED <<inbox, events>>
          /\ pc'[r] = "loop" => pc[r] = "loop"
      BY <2>6 DEF DialFails, Tick, SeeDone, SeeClosed, Leave, Insert, Redial, StopRun,
            SessionLoss, Close, Restart, IInv, TypeOK
    <3> QED BY <3>1, FewerHeld
  <2>7. Bounded(r)'
    BY <1>3, <2>2, <2>3, <2>4, <2>5, <2>6 DEF Goroutine, Environment
  <2> QED BY <1>1, <2>1, <2>7
<1> QED BY <1>2, <1>3 DEF Next

\* A batch never outgrows BATCH_SIZE (a size of 0 makes batches of one), though it is
\* given up only after its insert, and with a prefetch limit channel and batch hold no
\* more deliveries than that, on a session that died included.  A prefetch below the
\* batch size thus makes every flush wait for the ticker.
THEOREM BatchesAreBounded ==
    Spec => [](\A r \in Replica :
                  /\ Cardinality(events[r]) <= Largest
                  /\ Prefetch # 0 => Cardinality(events[r] \cup inbox[r]) <= Prefetch)
<1> DEFINE AllBounded == \A r \in Replica : Bounded(r)
           Fits == \A r \in Replica :
                  /\ Cardinality(events[r]) <= Largest
                  /\ Prefetch # 0 => Cardinality(events[r] \cup inbox[r]) <= Prefetch
<1>1. Init => AllBounded
  <2>1. IsFiniteSet({}) /\ Cardinality({}) = 0
    BY FS_EmptySet
  <2> QED BY <2>1, ConsumerAssumption DEF Init, Bounded, Held, Largest
<1>2. IInv /\ CopiesInv /\ AllBounded /\ [Next]_vars => AllBounded'
  BY NextBounded
<1>3. AllBounded => Fits
  BY DEF Bounded, Held
<1> QED BY <1>1, <1>2, <1>3, CopiesInvariance, PTL DEF Spec
================================================================================
