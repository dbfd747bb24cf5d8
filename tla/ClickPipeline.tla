----------------------------- MODULE ClickPipeline -----------------------------
(***************************************************************************)
(* A click from the visitor to the clicks table: the publisher of one      *)
(* redirect-service pod, the exchange and the queue of RabbitMQ, and the   *)
(* consumers of the analytics-service.  This module extends ClickConsumer  *)
(* by the ClickPublisher that feeds it.  They meet in the broker: what it  *)
(* reads off the publisher's wire arrives at the exchange, and its restart *)
(* takes down the connections of both.                                     *)
(*                                                                         *)
(* The messages of the queue are the numbers of the clicks.                *)
(***************************************************************************)
EXTENDS ClickConsumer, Sequences

CONSTANTS BufferSize, MaxClicks, MaxOutages     \* those of ClickPublisher

\* Publish marshals every click itself: none arrives malformed.
ASSUME PipelineAssumption ==
    /\ BufferSize \in Nat \ {0}
    /\ MaxClicks \in Nat
    /\ MaxOutages \in Nat
    /\ Msg = 1..MaxClicks
    /\ Malformed = {}

\* The publisher's variables: events, pc, done and published of ClickPublisher are
\* called buffer, sender, closing and counted here.
VARIABLES
    offered, buffer, held, sender, channel, backoff, closing, dropped, counted,
    wire, received, lostOnWire, outages

Publisher == INSTANCE ClickPublisher WITH
    events <- buffer, pc <- sender, done <- closing, published <- counted

publisherVars == <<offered, buffer, held, sender, channel, backoff, closing,
                   dropped, counted, wire, received, lostOnWire, outages>>
pipeVars == <<publisherVars, vars>>

PipeInit == Publisher!Init /\ Init

--------------------------------------------------------------------------------
\* The redirect handler publishes a click for every link it resolved.
Redirect == Publisher!Publish /\ UNCHANGED vars

Send ==
    /\ \/ Publisher!Take \/ Publisher!Send \/ Publisher!Connect
       \/ Publisher!Write \/ Publisher!WriteFails \/ Publisher!Count
       \/ Publisher!Stop \/ Publisher!Disconnected
    /\ UNCHANGED vars

PublisherWorld ==
    /\ \/ Publisher!Close \/ Publisher!BackoffExpires
       \/ Publisher!Break \/ Publisher!Notice
    /\ UNCHANGED vars

\* The broker reads a click off the wire and routes it.
ReadOffWire == Publisher!BrokerReads /\ Arrive(Head(wire))

Consume ==
    /\ \E r \in Replica : Goroutine(r) \/ Environment(r)
    /\ UNCHANGED publisherVars

\* A restart is a lost connection to everybody.
RestartForBoth ==
    /\ BrokerRestart
    /\ IF channel = "up" THEN Publisher!Break ELSE UNCHANGED publisherVars

PipeNext ==
    Redirect \/ Send \/ PublisherWorld \/ ReadOffWire \/ Consume \/ RestartForBoth

PipeSpec == PipeInit /\ [][PipeNext]_pipeVars

\* The fairness of the parts, with the one step they take together.
PipeFairness ==
    /\ SF_pipeVars(Publisher!Take /\ UNCHANGED vars)
    /\ SF_pipeVars(Publisher!Stop /\ UNCHANGED vars)
    /\ WF_pipeVars((Publisher!Send \/ Publisher!Connect \/ Publisher!Disconnected
                   \/ Publisher!Write \/ Publisher!WriteFails \/ Publisher!Count)
               /\ UNCHANGED vars)
    /\ WF_pipeVars(Publisher!BackoffExpires /\ UNCHANGED vars)
    /\ WF_pipeVars(Publisher!Notice /\ UNCHANGED vars)
    /\ WF_pipeVars(ReadOffWire)
    /\ \A r \in Replica :
         /\ WF_pipeVars(Deliver(r) /\ UNCHANGED publisherVars)
         /\ WF_pipeVars(Restart(r) /\ UNCHANGED publisherVars)
         /\ WF_pipeVars(Connect(r) /\ UNCHANGED publisherVars)
         /\ WF_pipeVars(Receive(r) /\ UNCHANGED publisherVars)
         /\ WF_pipeVars(Tick(r) /\ UNCHANGED publisherVars)
         /\ WF_pipeVars(SeeDone(r) /\ UNCHANGED publisherVars)
         /\ WF_pipeVars(SeeClosed(r) /\ UNCHANGED publisherVars)
         /\ WF_pipeVars(Insert(r) /\ UNCHANGED publisherVars)
         /\ WF_pipeVars(Settle(r) /\ UNCHANGED publisherVars)
         /\ WF_pipeVars(Return(r) /\ UNCHANGED publisherVars)
         /\ WF_pipeVars(Redial(r) /\ UNCHANGED publisherVars)
         /\ SF_pipeVars(StopRun(r) /\ UNCHANGED publisherVars)

PipeFairSpec == PipeSpec /\ PipeFairness

--------------------------------------------------------------------------------
(* Properties.                                                             *)

Elements(s) == {s[i] : i \in 1..Len(s)}

\* Where a click is: with the publisher, which keeps none of them when its goroutine
\* has stopped, on its way, or past the exchange.
WithPublisher == (IF sender = "stopped" THEN {} ELSE Elements(buffer)) \cup ({held} \ {0})
Stranded == IF sender = "stopped" THEN Len(buffer) ELSE 0
Exchanged == Elements(received)

\* A click every trace of which is gone was dropped by the publisher, went down with
\* its connection, was left in the buffer by a publisher that stopped, or was
\* discarded by the broker: the first three as often as the counters and the buffer
\* say, the fourth never when it has a row.
EveryClickExplained ==
    /\ dropped + lostOnWire + Stranded =
         Cardinality((1..offered) \ (WithPublisher \cup Elements(wire) \cup Exchanged))
    /\ \A n \in Exchanged : n \in ready \/ n \in InFlight
                              \/ rows[n] > 0 \/ n \in lost

\* What was written: the counter, and the click written since it last moved.
Written == counted + Publisher!Uncounted
Stored == {n \in 1..MaxClicks : rows[n] > 0}

\* The publisher's counter against the table: every stored or discarded click, and
\* every one lost on the wire, was counted, but for one whose turn to be counted comes
\* later than its row; and what the counter has beyond those is still on its way.
CounterMeetsTable ==
    /\ Stored \cup lost \subseteq Exchanged
    /\ Cardinality(Stored \cup lost) + lostOnWire <= Written
    /\ Written <= Cardinality(Stored \cup lost \cup Elements(wire) \cup ready \cup InFlight)
                    + lostOnWire

\* While nothing breaks, what is written once the queue is bound is stored, though
\* neither side ever hears from the other.
WrittenIsStored ==
    \A n \in 1..MaxClicks :
        (n \in Elements(wire) /\ bound) ~> (rows[n] > 0 \/ outages + faults > 0)

================================================================================
