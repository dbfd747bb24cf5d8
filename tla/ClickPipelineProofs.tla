-------------------------- MODULE ClickPipelineProofs --------------------------
(***************************************************************************)
(* Proofs about ClickPipeline: from the visitor to the table, for any      *)
(* number of clicks and replicas, any sizes and any budget of faults.      *)
(*                                                                         *)
(* The consumer's half is proved by what ClickConsumerProofs and           *)
(* ClickSinkProofs say of it: a step of the pipeline is a step of          *)
(* ClickConsumer or leaves it alone.  The publisher's half is summed up in *)
(* the five moves clicks can make (Moves), and both halves meet in Linked: *)
(* the exchange has published to the queue what it received.               *)
(***************************************************************************)
EXTENDS ClickPipeline, ClickSinkProofs

--------------------------------------------------------------------------------
(* The publisher's half.                                                   *)

\* The goroutine has a click in hand exactly while it works on one.
Hand ==
    /\ held # 0 <=> sender \in {"send", "connect", "publish"}
    /\ counted \in Nat

\* Where clicks are with the publisher and on their way.
Places ==
    /\ offered \in 0..MaxClicks
    /\ buffer \in Seq(1..MaxClicks)
    /\ wire \in Seq(1..MaxClicks)
    /\ received \in Seq(1..MaxClicks)
    /\ held \in 0..MaxClicks
    /\ Hand
    /\ dropped \in Nat
    /\ Written \in Nat
    /\ lostOnWire \in Nat

\* The moves of a click: offered and buffered or dropped, taken in hand, written,
\* read by the broker; given up, or lost on the wire, or both at once.
Offer ==
    /\ offered' = offered + 1 /\ offered' \in 1..MaxClicks
    /\ \/ buffer' = Append(buffer, offered') /\ UNCHANGED dropped
       \/ dropped' = dropped + 1 /\ UNCHANGED buffer
    /\ UNCHANGED <<held, wire, received, Written, lostOnWire>>

TakeInHand ==
    /\ buffer # <<>> /\ held = 0
    /\ held' = Head(buffer)
    /\ buffer' = Tail(buffer)
    /\ UNCHANGED <<offered, wire, received, dropped, Written, lostOnWire>>

PutOnWire ==
    /\ held # 0 /\ held' = 0
    /\ wire' = Append(wire, held)
    /\ Written' = Written + 1
    /\ UNCHANGED <<offered, buffer, received, dropped, lostOnWire>>

ReadOff ==
    /\ wire # <<>>
    /\ received' = Append(received, Head(wire))
    /\ wire' = Tail(wire)
    /\ UNCHANGED <<offered, buffer, held, dropped, Written, lostOnWire>>

LetGo ==
    /\ \/ UNCHANGED <<held, dropped>>
       \/ held # 0 /\ held' = 0 /\ dropped' = dropped + 1
    /\ \/ UNCHANGED <<wire, lostOnWire>>
       \/ wire' = <<>> /\ lostOnWire' = lostOnWire + Len(wire)
    /\ UNCHANGED <<offered, buffer, received, Written>>

Moves == Offer \/ TakeInHand \/ PutOnWire \/ ReadOff \/ LetGo

LEMMA Lines ==
    ASSUME NEW S, NEW s \in Seq(S)
    PROVE  /\ <<>> \in Seq(S) /\ Len(s) \in Nat /\ \A i \in 1..Len(s) : s[i] \in S
           /\ \A x \in S : Append(s, x) \in Seq(S) /\ Len(Append(s, x)) = Len(s) + 1
           /\ s # <<>> => /\ Head(s) \in S /\ Tail(s) \in Seq(S)
                         /\ Len(s) = Len(Tail(s)) + 1
OBVIOUS

\* What the publisher and its surroundings do is a move.
LEMMA PublisherMoves ==
    ASSUME Places,
           \/ Publisher!Publish \/ Publisher!Close \/ Publisher!Take
           \/ Publisher!Send \/ Publisher!Connect \/ Publisher!Write
           \/ Publisher!WriteFails \/ Publisher!Count \/ Publisher!Stop
           \/ Publisher!Disconnected \/ Publisher!BackoffExpires
           \/ Publisher!Break \/ Publisher!Notice
    PROVE  (Offer \/ TakeInHand \/ PutOnWire \/ LetGo) /\ Hand'
<1> USE PipelineAssumption DEF Places, Hand, Written, Publisher!Uncounted,
        Publisher!None, Publisher!goroutine, Publisher!counters, Publisher!network
<1>1. CASE Publisher!Publish
  BY <1>1 DEF Publisher!Publish, Offer
<1>2. CASE Publisher!Take
  <2>1. Head(buffer) \in 1..MaxClicks
    BY <1>2 DEF Publisher!Take
  <2> QED BY <1>2, <2>1 DEF Publisher!Take, TakeInHand
<1>3. CASE Publisher!Write
  BY <1>3 DEF Publisher!Write, PutOnWire
<1>4. CASE Publisher!Send \/ Publisher!Connect \/ Publisher!WriteFails
  BY <1>4 DEF Publisher!Send, Publisher!Connect, Publisher!WriteFails,
              Publisher!GiveUp, Publisher!Disconnect, LetGo
<1>5. CASE \/ Publisher!Close \/ Publisher!Stop
           \/ Publisher!BackoffExpires \/ Publisher!Break
  BY <1>5 DEF Publisher!Close, Publisher!Stop,
              Publisher!BackoffExpires, Publisher!Break, LetGo
<1>6. CASE Publisher!Disconnected \/ Publisher!Notice
  BY <1>6 DEF Publisher!Disconnected, Publisher!Notice,
              Publisher!Disconnect, LetGo
<1>7. CASE Publisher!Count
  BY <1>7 DEF Publisher!Count, LetGo
<1> QED BY <1>1, <1>2, <1>3, <1>4, <1>5, <1>6, <1>7

LEMMA BrokerReadsMoves ==
    ASSUME Places, Publisher!BrokerReads
    PROVE  ReadOff /\ Hand' /\ Head(wire) \in 1..MaxClicks
<1>1. Head(wire) \in 1..MaxClicks
  <2>1. wire # <<>> /\ wire \in Seq(1..MaxClicks)
    BY DEF Places, Publisher!BrokerReads
  <2> QED BY <2>1, Lines
<1>2. ReadOff
  BY DEF Publisher!BrokerReads, Publisher!goroutine,
         Publisher!counters, Written, Publisher!Uncounted, ReadOff
<1>3. Hand'
  BY DEF Places, Hand, Publisher!BrokerReads, Publisher!goroutine, Publisher!counters
<1> QED BY <1>1, <1>2, <1>3

LEMMA MovesKeepPlaces ==
    ASSUME Places, Moves, Hand'
    PROVE  Places'
<1> USE PipelineAssumption DEF Places, Hand
<1>1. CASE Offer
  <2>1. offered' \in 1..MaxClicks /\ offered' \in 0..MaxClicks
    BY <1>1 DEF Offer
  <2>2. Append(buffer, offered') \in Seq(1..MaxClicks)
    BY <2>1
  <2>3. UNCHANGED <<held, wire, received, Written, lostOnWire>>
    BY <1>1 DEF Offer
  <2>4. buffer' \in Seq(1..MaxClicks) /\ dropped' \in Nat
    <3>1. \/ buffer' = Append(buffer, offered') /\ dropped' = dropped
          \/ dropped' = dropped + 1 /\ buffer' = buffer
      BY <1>1 DEF Offer
    <3>2. buffer \in Seq(1..MaxClicks) /\ dropped \in Nat
      OBVIOUS
    <3>3. buffer' \in Seq(1..MaxClicks)
      BY <2>2, <3>1, <3>2
    <3>4. dropped' \in Nat
      BY <3>1, <3>2
    <3> QED BY <3>3, <3>4
  <2> QED BY <2>1, <2>3, <2>4
<1>2. CASE TakeInHand
  <2>1. Head(buffer) \in 1..MaxClicks /\ Tail(buffer) \in Seq(1..MaxClicks)
    BY <1>2 DEF TakeInHand
  <2> QED BY <1>2, <2>1 DEF TakeInHand
<1>3. CASE PutOnWire
  BY <1>3 DEF PutOnWire
<1>4. CASE ReadOff
  <2>1. Head(wire) \in 1..MaxClicks /\ Tail(wire) \in Seq(1..MaxClicks)
    BY <1>4 DEF ReadOff
  <2> QED BY <1>4, <2>1 DEF ReadOff
<1>5. CASE LetGo
  <2>1. <<>> \in Seq(1..MaxClicks) /\ Len(wire) \in Nat
    OBVIOUS
  <2>2. UNCHANGED <<offered, buffer, received, Written>>
    BY <1>5 DEF LetGo
  <2>3. held' \in 0..MaxClicks /\ dropped' \in Nat
    BY <1>5 DEF LetGo
  <2>4. wire' \in Seq(1..MaxClicks) /\ lostOnWire' \in Nat
    <3>1. \/ wire' = wire /\ lostOnWire' = lostOnWire
          \/ wire' = <<>> /\ lostOnWire' = lostOnWire + Len(wire)
      BY <1>5 DEF LetGo
    <3>2. wire \in Seq(1..MaxClicks) /\ lostOnWire \in Nat
      OBVIOUS
    <3>3. wire' \in Seq(1..MaxClicks)
      BY <2>1, <3>1, <3>2
    <3>4. lostOnWire' \in Nat
      BY <2>1, <3>1, <3>2
    <3> QED BY <3>3, <3>4
  <2> QED BY <2>2, <2>3, <2>4
<1> QED BY <1>1, <1>2, <1>3, <1>4, <1>5 DEF Moves

--------------------------------------------------------------------------------
(* Both halves.                                                            *)

\* Nothing but a publisher's event at the exchange adds to what was published.
LEMMA OnlyArrivePublishes ==
    /\ \A r \in Replica : Goroutine(r) \/ Environment(r) => UNCHANGED published
    /\ BrokerRestart => UNCHANGED published
BY DEF Goroutine, Environment, Connect, DialFails, Receive, Tick, SeeDone, SeeClosed,
       Leave, Insert, Settle, Return, Redial, StopRun, Deliver, SessionLoss, Close,
       Restart, Crash, BrokerRestart, broker

\* What was published to the queue is what the exchange received.
Linked == published = Elements(received)

LEMMA PipeStep ==
    ASSUME Places, Linked, [PipeNext]_pipeVars
    PROVE  [Next]_vars /\ Moves /\ Hand' /\ Linked'
<1> USE DEF Moves
<1>1. CASE Redirect \/ Send \/ PublisherWorld
  <2>1. (Offer \/ TakeInHand \/ PutOnWire \/ LetGo) /\ Hand'
    BY <1>1, PublisherMoves DEF Redirect, Send, PublisherWorld
  <2>2. UNCHANGED vars
    BY <1>1 DEF Redirect, Send, PublisherWorld
  <2>3. UNCHANGED received
    BY <2>1 DEF Offer, TakeInHand, PutOnWire, LetGo
  <2>4. UNCHANGED vars /\ Linked'
    BY <2>2, <2>3 DEF vars, vars, broker, client, budget, Linked,
                      Elements
  <2> QED BY <2>1, <2>4
<1>2. CASE ReadOffWire
  <2>1. ReadOff /\ Hand' /\ Head(wire) \in Msg
    BY PipelineAssumption, <1>2, BrokerReadsMoves DEF ReadOffWire
  <2>2. Arrive(Head(wire)) /\ published' = published \cup {Head(wire)}
    BY <1>2 DEF ReadOffWire, Arrive
  <2>3. Linked'
    <3> DEFINE x == Head(wire)
    <3>1. received' = Append(received, x) /\ received \in Seq(1..MaxClicks)
      BY <2>1 DEF ReadOff, Places
    <3>2. x \in 1..MaxClicks
      BY PipelineAssumption, <2>1
    <3>3. published' = published \cup {x}
      BY <2>2
    <3> HIDE DEF x
    <3>4. Elements(Append(received, x)) = Elements(received) \cup {x}
      BY <3>1, <3>2 DEF Elements
    <3>5. Elements(received)' = Elements(Append(received, x))
      BY <3>1 DEF Elements
    <3> QED BY <3>3, <3>4, <3>5 DEF Linked
  <2> QED BY <2>1, <2>2, <2>3 DEF Next
<1>3. CASE Consume
  <2>1. UNCHANGED publisherVars
    BY <1>3 DEF Consume
  <2>2. LetGo /\ Hand' /\ UNCHANGED received
    BY <2>1 DEF publisherVars, LetGo, Hand, Places, Written, Publisher!Uncounted
  <2>3. PICK r \in Replica : Goroutine(r) \/ Environment(r)
    BY <1>3 DEF Consume
  <2>4. UNCHANGED published
    BY <2>3, OnlyArrivePublishes
  <2>5. Linked'
    BY <2>2, <2>4 DEF Linked, Elements
  <2> QED BY <2>2, <2>3, <2>5 DEF Next
<1>4. CASE RestartForBoth
  <2>1. BrokerRestart /\ UNCHANGED published
    BY <1>4, OnlyArrivePublishes DEF RestartForBoth
  <2>2. Publisher!Break \/ UNCHANGED publisherVars
    BY <1>4 DEF RestartForBoth
  <2>3. LetGo /\ Hand'
    BY <2>2 DEF Publisher!Break, publisherVars, Publisher!goroutine,
                Publisher!counters, Publisher!network, LetGo, Hand, Places,
                Written, Publisher!Uncounted
  <2>4. Linked'
    BY <2>1, <2>3 DEF LetGo, Linked, Elements
  <2> QED BY <2>1, <2>3, <2>4 DEF Next
<1>5. CASE UNCHANGED pipeVars
  <2>1. UNCHANGED vars /\ UNCHANGED publisherVars
    BY <1>5 DEF pipeVars, publisherVars, vars, vars, broker, client,
                budget
  <2>2. LetGo /\ Hand' /\ UNCHANGED received
    BY <2>1 DEF publisherVars, LetGo, Hand, Places, Written, Publisher!Uncounted
  <2>3. Linked'
    BY <2>1, <2>2 DEF vars, broker, Linked, Elements
  <2> QED BY <2>1, <2>2, <2>3
<1> QED BY <1>1, <1>2, <1>3, <1>4, <1>5 DEF PipeNext

--------------------------------------------------------------------------------
(* Where the clicks are, as sets.                                          *)

Waiting == Elements(buffer)
Underway == Elements(wire)
Arrived == Elements(received)
Gone == (1..offered) \ (Waiting \cup {held} \cup Underway \cup Arrived)

Distinct(s) == \A i, j \in 1..Len(s) : s[i] = s[j] => i = j

\* No click is in two places.
Apart ==
    /\ Distinct(buffer) /\ Distinct(wire)
    /\ Waiting \cup Underway \cup Arrived \subseteq 1..offered
    /\ held \in 0..offered
    /\ held \notin Waiting \cup Underway \cup Arrived
    /\ Waiting \cap Underway = {} /\ Waiting \cap Arrived = {}
    /\ Underway \cap Arrived = {}

\* The counters say how many are gone, and how many were written.
Tally ==
    /\ Cardinality(Gone) = dropped + lostOnWire
    /\ Cardinality(Underway) = Len(wire)
    /\ Cardinality(Arrived) = Len(received)
    /\ Written = Len(received) + Len(wire) + lostOnWire

LEMMA ElementsOf ==
    ASSUME NEW s \in Seq(1..MaxClicks)
    PROVE  /\ Elements(s) \subseteq 1..MaxClicks
           /\ \A x \in 1..MaxClicks :
                 /\ Elements(Append(s, x)) = Elements(s) \cup {x}
                 /\ Distinct(s) /\ x \notin Elements(s) => Distinct(Append(s, x))
<1>1. Elements(s) \subseteq 1..MaxClicks
  <2>1. \A i \in 1..Len(s) : s[i] \in 1..MaxClicks
    BY Lines
  <2> QED BY <2>1 DEF Elements
<1>2. ASSUME NEW x \in 1..MaxClicks
      PROVE  /\ Elements(Append(s, x)) = Elements(s) \cup {x}
             /\ Distinct(s) /\ x \notin Elements(s) => Distinct(Append(s, x))
  <2>1. Elements(Append(s, x)) = Elements(s) \cup {x}
    BY DEF Elements
  <2>2. Distinct(s) /\ x \notin Elements(s) => Distinct(Append(s, x))
    BY DEF Distinct, Elements
  <2> QED BY <2>1, <2>2
<1> QED BY <1>1, <1>2

LEMMA ElementsOfTail ==
    ASSUME NEW s \in Seq(1..MaxClicks), s # <<>>, Distinct(s)
    PROVE  /\ Elements(s) = Elements(Tail(s)) \cup {Head(s)}
           /\ Distinct(Tail(s)) /\ Head(s) \notin Elements(Tail(s))
<1> DEFINE t == Tail(s)
<1>1. /\ Head(s) = s[1] /\ Len(s) \in Nat /\ Len(s) >= 1 /\ Len(t) = Len(s) - 1
      /\ \A i \in 1..Len(t) : t[i] = s[i + 1] /\ i + 1 \in 1..Len(s)
  OBVIOUS
<1>2. \A i \in 1..Len(s) : i = 1 \/ (i - 1 \in 1..Len(t) /\ t[i - 1] = s[i])
  BY <1>1
<1> HIDE DEF t
<1>3. Elements(s) = Elements(t) \cup {Head(s)}
  <2>1. \A v \in Elements(s) : v \in Elements(t) \/ v = Head(s)
    <3> SUFFICES ASSUME NEW i \in 1..Len(s) PROVE s[i] \in Elements(t) \/ s[i] = Head(s)
      BY DEF Elements
    <3>1. CASE i = 1
      BY <1>1, <3>1
    <3>2. CASE i - 1 \in 1..Len(t) /\ t[i - 1] = s[i]
      BY <3>2 DEF Elements
    <3> QED BY <1>2, <3>1, <3>2
  <2>2. \A v \in Elements(t) : v \in Elements(s)
    BY <1>1 DEF Elements
  <2>3. Head(s) \in Elements(s)
    BY <1>1 DEF Elements
  <2> QED BY <2>1, <2>2, <2>3
<1>4. Distinct(t)
  BY <1>1 DEF Distinct
<1>5. Head(s) \notin Elements(t)
  BY <1>1 DEF Distinct, Elements
<1> QED BY <1>3, <1>4, <1>5 DEF t

\* The moves, as they change the sets.
LEMMA OfferSets ==
    ASSUME Places, Apart, Offer
    PROVE  /\ offered' = offered + 1 /\ offered' \notin Waiting
           /\ \/ Waiting' = Waiting \cup {offered'} /\ Distinct(buffer') /\ dropped' = dropped
              \/ Waiting' = Waiting /\ buffer' = buffer /\ dropped' = dropped + 1
           /\ Underway' = Underway /\ Arrived' = Arrived
<1>1. /\ offered' = offered + 1 /\ offered' \in 1..MaxClicks /\ offered \in Nat
      /\ UNCHANGED <<wire, received>>
  BY PipelineAssumption DEF Offer, Places
<1>2. offered' \notin Waiting
  BY <1>1 DEF Apart
<1>3. Underway' = Underway /\ Arrived' = Arrived
  BY <1>1 DEF Underway, Arrived
<1>4. CASE buffer' = Append(buffer, offered') /\ UNCHANGED dropped
  <2>1. /\ Elements(Append(buffer, offered')) = Waiting \cup {offered'}
        /\ Distinct(Append(buffer, offered'))
    BY <1>1, <1>2, ElementsOf DEF Places, Waiting, Apart
  <2>2. Waiting' = Elements(buffer')
    BY DEF Waiting
  <2> QED BY <1>1, <1>2, <1>3, <1>4, <2>1, <2>2
<1>5. CASE dropped' = dropped + 1 /\ UNCHANGED buffer
  BY <1>1, <1>2, <1>3, <1>5 DEF Waiting
<1> QED BY <1>4, <1>5 DEF Offer

LEMMA TakeInHandSets ==
    ASSUME Places, Apart, TakeInHand
    PROVE  /\ Waiting = Waiting' \cup {held'} /\ held' \notin Waiting' /\ Distinct(buffer')
           /\ Underway' = Underway /\ Arrived' = Arrived
<1>1. /\ Elements(buffer) = Elements(Tail(buffer)) \cup {Head(buffer)}
      /\ Distinct(Tail(buffer)) /\ Head(buffer) \notin Elements(Tail(buffer))
  <2>1. buffer \in Seq(1..MaxClicks) /\ buffer # <<>> /\ Distinct(buffer)
    BY DEF Places, Apart, TakeInHand
  <2> QED BY <2>1, ElementsOfTail
<1> QED BY <1>1 DEF TakeInHand, Waiting, Underway, Arrived

LEMMA PutOnWireSets ==
    ASSUME Places, Apart, PutOnWire
    PROVE  /\ Underway' = Underway \cup {held} /\ Distinct(wire')
           /\ Waiting' = Waiting /\ Arrived' = Arrived
<1>1. held \in 1..MaxClicks /\ held \notin Underway
  BY PipelineAssumption DEF Places, PutOnWire, Apart
<1>2. /\ Elements(Append(wire, held)) = Underway \cup {held}
      /\ Distinct(Append(wire, held))
  BY <1>1, ElementsOf DEF Places, Apart, Underway
<1> QED BY <1>2 DEF PutOnWire, Waiting, Underway, Arrived

LEMMA ReadOffSets ==
    ASSUME Places, Apart, ReadOff
    PROVE  /\ \E x : /\ Underway = Underway' \cup {x} /\ x \notin Underway'
                     /\ Arrived' = Arrived \cup {x}
           /\ Distinct(wire') /\ Waiting' = Waiting
           /\ Len(wire) = Len(wire') + 1 /\ Len(received') = Len(received) + 1
<1>1. wire # <<>> /\ wire \in Seq(1..MaxClicks) /\ received \in Seq(1..MaxClicks)
  BY DEF Places, ReadOff
<1>2. /\ Elements(wire) = Elements(Tail(wire)) \cup {Head(wire)}
      /\ Distinct(Tail(wire)) /\ Head(wire) \notin Elements(Tail(wire))
  <2>1. Distinct(wire)
    BY DEF Apart
  <2> QED BY <1>1, <2>1, ElementsOfTail
<1>3. Head(wire) \in 1..MaxClicks /\ Len(wire) = Len(Tail(wire)) + 1
  BY <1>1, Lines
<1>4. /\ Elements(Append(received, Head(wire))) = Arrived \cup {Head(wire)}
      /\ Len(Append(received, Head(wire))) = Len(received) + 1
  BY <1>1, <1>3, ElementsOf, Lines DEF Arrived
<1>5. received' = Append(received, Head(wire)) /\ wire' = Tail(wire) /\ buffer' = buffer
  BY DEF ReadOff
<1> QED BY <1>2, <1>3, <1>4, <1>5 DEF Waiting, Underway, Arrived

LEMMA LetGoSets ==
    ASSUME Places, Apart, LetGo
    PROVE  /\ Underway' = Underway \/ Underway' = {}
           /\ Distinct(wire') /\ Waiting' = Waiting /\ Arrived' = Arrived
<1>1. Distinct(<<>>) /\ Elements(<<>>) = {}
  BY DEF Distinct, Elements
<1> QED BY <1>1 DEF LetGo, Apart, Waiting, Underway, Arrived

LEMMA MovesKeepApart ==
    ASSUME Places, Apart, Moves
    PROVE  Apart'
<1>0. offered \in Nat /\ held \in Nat
  BY PipelineAssumption DEF Places
<1>1. CASE Offer
  <2>1. UNCHANGED <<held, wire, received>> /\ offered' = offered + 1
    BY <1>1 DEF Offer
  <2>2. /\ Waiting' \subseteq Waiting \cup {offered'} /\ Distinct(buffer')
        /\ Underway' = Underway /\ Arrived' = Arrived
    BY <1>1, OfferSets DEF Apart
  <2>3. 1..offered \subseteq 1..offered' /\ offered' \in 1..offered' /\ offered' \notin 1..offered
    BY <1>0, <2>1
  <2>4. held \in 0..offered' /\ offered' # held
    BY <1>0, <2>1 DEF Apart
  <2> QED BY <2>1, <2>2, <2>3, <2>4 DEF Apart
<1>2. CASE TakeInHand
  <2>1. /\ Waiting = Waiting' \cup {held'} /\ held' \notin Waiting' /\ Distinct(buffer')
        /\ Underway' = Underway /\ Arrived' = Arrived
    BY <1>2, TakeInHandSets
  <2>2. UNCHANGED <<offered, wire, received>>
    BY <1>2 DEF TakeInHand
  <2>3. held' \in 1..offered /\ held' \in 0..offered
    BY <1>0, <2>1 DEF Apart
  <2> QED BY <2>1, <2>2, <2>3 DEF Apart
<1>3. CASE PutOnWire
  <2>1. /\ Underway' = Underway \cup {held} /\ Distinct(wire')
        /\ Waiting' = Waiting /\ Arrived' = Arrived
    BY <1>3, PutOnWireSets
  <2>2. UNCHANGED <<offered, buffer>> /\ held # 0 /\ held' = 0
    BY <1>3 DEF PutOnWire
  <2>3. held \in 1..offered /\ 0 \notin 1..offered /\ 0 \in 0..offered
    BY <1>0, <2>2 DEF Apart
  <2>4. 0 \notin Waiting \cup Underway' \cup Arrived
    BY <2>1, <2>2, <2>3 DEF Apart
  <2> QED BY <2>1, <2>2, <2>3, <2>4 DEF Apart
<1>4. CASE ReadOff
  <2>1. PICK x : /\ Underway = Underway' \cup {x} /\ x \notin Underway'
                 /\ Arrived' = Arrived \cup {x}
    BY <1>4, ReadOffSets
  <2>2. Distinct(wire') /\ Waiting' = Waiting
    BY <1>4, ReadOffSets
  <2>3. UNCHANGED <<offered, buffer, held>>
    BY <1>4 DEF ReadOff
  <2> QED BY <2>1, <2>2, <2>3 DEF Apart
<1>5. CASE LetGo
  <2>1. /\ Underway' = Underway \/ Underway' = {}
        /\ Distinct(wire') /\ Waiting' = Waiting /\ Arrived' = Arrived
    BY <1>5, LetGoSets
  <2>2. UNCHANGED <<offered, buffer>> /\ held' \in {held, 0}
    BY <1>5 DEF LetGo
  <2>3. 0 \notin 1..offered /\ 0 \in 0..offered
    BY <1>0
  <2>4. held' \in 0..offered /\ held' \notin Waiting \cup Underway \cup Arrived
    BY <2>2, <2>3 DEF Apart
  <2> QED BY <2>1, <2>2, <2>4 DEF Apart
<1> QED BY <1>1, <1>2, <1>3, <1>4, <1>5 DEF Moves

\* As many elements as places, when none is twice in it.
LEMMA DistinctCount ==
    ASSUME NEW s \in Seq(1..MaxClicks), Distinct(s)
    PROVE  IsFiniteSet(Elements(s)) /\ Cardinality(Elements(s)) = Len(s)
<1>1. Len(s) \in Nat /\ s \in [1..Len(s) -> Elements(s)]
  BY DEF Elements
<1>2. s \in Bijection(1..Len(s), Elements(s))
  BY <1>1 DEF Bijection, Injection, Surjection, IsInjective, Distinct, Elements
<1>3. IsFiniteSet(1..Len(s)) /\ Cardinality(1..Len(s)) = Len(s)
  BY <1>1, FS_Interval
<1>4. ExistsBijection(1..Len(s), Elements(s))
  BY <1>2 DEF ExistsBijection
<1> QED BY <1>3, <1>4, FS_Bijection

LEMMA FinitePlaces ==
    ASSUME Places, Apart
    PROVE  /\ IsFiniteSet(Gone) /\ IsFiniteSet(Underway) /\ IsFiniteSet(Arrived)
           /\ Cardinality(Gone) \in Nat /\ Cardinality(Arrived) \in Nat
<1>1. IsFiniteSet(1..offered)
  BY PipelineAssumption, FS_Interval DEF Places
<1>2. Gone \subseteq 1..offered /\ Underway \subseteq 1..offered /\ Arrived \subseteq 1..offered
  BY DEF Gone, Apart
<1> QED BY <1>1, <1>2, FS_Subset, FS_CardinalityType

LEMMA MovesKeepTally ==
    ASSUME Places, Apart, Tally, Moves
    PROVE  Tally'
<1>0. /\ offered \in Nat /\ held \in Nat /\ dropped \in Nat /\ lostOnWire \in Nat
      /\ Written \in Nat /\ Len(wire) \in Nat /\ Len(received) \in Nat
      /\ 0 \notin 1..offered
  BY PipelineAssumption DEF Places
<1> USE FinitePlaces
<1>1. CASE Offer
  <2>1. UNCHANGED <<held, wire, received, Written, lostOnWire>> /\ offered' = offered + 1
    BY <1>1 DEF Offer
  <2>2. Underway' = Underway /\ Arrived' = Arrived
    BY <1>1, OfferSets
  <2>3. /\ 1..offered' = (1..offered) \cup {offered'} /\ offered' \notin 1..offered
        /\ offered' # held
    BY <1>0, <2>1 DEF Apart
  <2>4. offered' \notin Gone /\ offered' \notin Waiting \cup {held} \cup Underway \cup Arrived
    BY <2>3 DEF Gone, Apart
  <2>5. CASE Waiting' = Waiting \cup {offered'} /\ dropped' = dropped
    <3>1. Gone' = Gone
      BY <2>1, <2>2, <2>3, <2>4, <2>5 DEF Gone
    <3> QED BY <2>1, <2>2, <2>5, <3>1 DEF Tally
  <2>6. CASE Waiting' = Waiting /\ dropped' = dropped + 1
    <3>1. Gone' = Gone \cup {offered'}
      BY <2>1, <2>2, <2>3, <2>4, <2>6 DEF Gone
    <3>2. Cardinality(Gone') = Cardinality(Gone) + 1
      BY <2>4, <3>1, FS_AddElement
    <3> QED BY <1>0, <2>1, <2>2, <2>6, <3>2 DEF Tally
  <2> QED BY <1>1, <2>5, <2>6, OfferSets
<1>2. CASE TakeInHand
  <2>1. /\ Waiting = Waiting' \cup {held'} /\ Underway' = Underway /\ Arrived' = Arrived
    BY <1>2, TakeInHandSets
  <2>2. UNCHANGED <<offered, wire, received, Written, dropped, lostOnWire>> /\ held = 0
    BY <1>2 DEF TakeInHand
  <2>3. Gone' = Gone
    BY <1>0, <2>1, <2>2 DEF Gone
  <2> QED BY <2>1, <2>2, <2>3 DEF Tally
<1>3. CASE PutOnWire
  <2>1. Underway' = Underway \cup {held} /\ Waiting' = Waiting /\ Arrived' = Arrived
    BY <1>3, PutOnWireSets
  <2>2. /\ UNCHANGED <<offered, received, dropped, lostOnWire>> /\ held' = 0
        /\ Written' = Written + 1 /\ wire' = Append(wire, held)
    BY <1>3 DEF PutOnWire
  <2>3. Len(wire') = Len(wire) + 1
    BY <2>2, Lines DEF Places
  <2>4. Gone' = Gone
    BY <1>0, <2>1, <2>2 DEF Gone
  <2>5. Cardinality(Underway') = Cardinality(Underway) + 1
    BY <2>1, FS_AddElement DEF Apart
  <2> QED BY <1>0, <2>1, <2>2, <2>3, <2>4, <2>5 DEF Tally
<1>4. CASE ReadOff
  <2>1. PICK x : /\ Underway = Underway' \cup {x} /\ x \notin Underway'
                 /\ Arrived' = Arrived \cup {x}
    BY <1>4, ReadOffSets
  <2>2. /\ Waiting' = Waiting
        /\ Len(wire) = Len(wire') + 1 /\ Len(received') = Len(received) + 1
    BY <1>4, ReadOffSets
  <2>3. UNCHANGED <<offered, held, dropped, Written, lostOnWire>>
    BY <1>4 DEF ReadOff
  <2>4. Gone' = Gone
    BY <2>1, <2>2, <2>3 DEF Gone
  <2>5. IsFiniteSet(Underway') /\ Cardinality(Underway') \in Nat
    BY <2>1, FS_Subset, FS_CardinalityType
  <2>6. Cardinality(Underway) = Cardinality(Underway') + 1
    BY <2>1, <2>5, FS_AddElement
  <2>7. x \notin Arrived
    BY <2>1 DEF Apart
  <2>8. Cardinality(Arrived') = Cardinality(Arrived) + 1
    BY <2>1, <2>7, FS_AddElement
  <2>9. Len(wire') \in Nat /\ Len(received') \in Nat
    BY <1>0, <2>2, <2>5, <2>6 DEF Tally
  <2>10. Cardinality(Gone') = dropped' + lostOnWire'
    BY <2>3, <2>4 DEF Tally
  <2>11. Cardinality(Underway') = Len(wire') /\ Cardinality(Arrived') = Len(received')
    BY <1>0, <2>2, <2>5, <2>6, <2>8, <2>9 DEF Tally
  <2>12. Written' = Len(received') + Len(wire') + lostOnWire'
    BY <1>0, <2>2, <2>3, <2>9 DEF Tally
  <2> QED BY <2>10, <2>11, <2>12 DEF Tally
<1>5. CASE LetGo
  <2>1. /\ Underway' = Underway \/ Underway' = {}
        /\ Waiting' = Waiting /\ Arrived' = Arrived
    BY <1>5, LetGoSets
  <2>2. UNCHANGED <<offered, buffer, received, Written>>
    BY <1>5 DEF LetGo
  <2> DEFINE mid == (1..offered) \ (Waiting \cup {held'} \cup Underway \cup Arrived)
  <2>3. IsFiniteSet(mid) /\ Cardinality(mid) = dropped' + lostOnWire /\ dropped' \in Nat
    <3>1. CASE UNCHANGED <<held, dropped>>
      BY <1>0, <3>1 DEF Gone, Tally
    <3>2. CASE held # 0 /\ held' = 0 /\ dropped' = dropped + 1
      <4>1. held \in 1..offered /\ held \notin Gone
        BY <1>0, <3>2 DEF Apart, Gone
      <4>2. mid = Gone \cup {held}
        BY <1>0, <3>2, <4>1 DEF Gone, Apart
      <4> HIDE DEF mid
      <4>3. IsFiniteSet(mid) /\ Cardinality(mid) = Cardinality(Gone) + 1
        BY <4>1, <4>2, FS_AddElement
      <4> QED BY <1>0, <3>2, <4>3 DEF Tally
    <3> QED BY <1>5, <3>1, <3>2 DEF LetGo
  <2>4. CASE UNCHANGED <<wire, lostOnWire>>
    <3>1. Gone' = mid /\ Underway' = Underway
      BY <2>1, <2>2, <2>4 DEF Gone, Underway
    <3> HIDE DEF mid
    <3> QED BY <2>1, <2>2, <2>3, <2>4, <3>1 DEF Tally
  <2>5. CASE wire' = <<>> /\ lostOnWire' = lostOnWire + Len(wire)
    <3>1. Underway' = {} /\ Len(wire') = 0
      BY <2>5 DEF Underway, Elements
    <3>2. Gone' = mid \cup Underway /\ mid \cap Underway = {}
      <4>1. Underway \subseteq 1..offered /\ Underway \cap Arrived = {} /\ Waiting \cap Underway = {}
        BY DEF Apart
      <4>2. held' \notin Underway
        BY <1>0, <1>5 DEF LetGo, Apart
      <4> QED BY <2>1, <2>2, <3>1, <4>1, <4>2 DEF Gone
    <3> HIDE DEF mid
    <3>3. Cardinality(mid \cup Underway)
            = Cardinality(mid) + Cardinality(Underway) - Cardinality(mid \cap Underway)
      BY <2>3, FS_Union
    <3>4. Cardinality(mid \cap Underway) = 0 /\ Cardinality({}) = 0
      BY <3>2, FS_EmptySet
    <3>5. Cardinality(Gone') = dropped' + lostOnWire'
      BY <1>0, <2>3, <2>5, <3>2, <3>3, <3>4 DEF Tally
    <3>6. Cardinality(Underway') = Len(wire')
      BY <3>1, <3>4
    <3> QED BY <1>0, <2>1, <2>2, <2>5, <3>1, <3>5, <3>6 DEF Tally
  <2> QED BY <1>5, <2>4, <2>5 DEF LetGo
<1> QED BY <1>1, <1>2, <1>3, <1>4, <1>5 DEF Moves

--------------------------------------------------------------------------------
(* The theorems.                                                           *)

PipeInv == Places /\ Linked /\ Apart /\ Tally

LEMMA PipeStart ==
    ASSUME PipeInit
    PROVE  Init /\ PipeInv
<1>1. Init
  BY DEF PipeInit
<1>2. /\ offered = 0 /\ buffer = <<>> /\ held = 0 /\ sender = "select" /\ dropped = 0
      /\ counted = 0 /\ wire = <<>> /\ received = <<>> /\ lostOnWire = 0
  BY DEF PipeInit, Publisher!Init, Publisher!None
<1>3. Places
  BY PipelineAssumption, <1>2 DEF Places, Hand, Written, Publisher!Uncounted
<1>4. Waiting = {} /\ Underway = {} /\ Arrived = {}
  BY <1>2 DEF Waiting, Underway, Arrived, Elements
<1>5. Linked
  BY <1>1, <1>4 DEF Init, Linked, Arrived
<1>6. Apart
  BY <1>2, <1>4 DEF Apart, Distinct
<1>7. Gone = {}
  BY <1>2 DEF Gone
<1>8. Tally
  BY <1>2, <1>4, <1>7, FS_EmptySet DEF Tally, Written, Publisher!Uncounted
<1> QED BY <1>1, <1>3, <1>5, <1>6, <1>8 DEF PipeInv

\* A pipeline is a consumer whose clicks come from the publisher.
THEOREM PipelineInvariance ==
    PipeSpec => Spec /\ [](PipeInv /\ IInv /\ CopiesInv)
<1>1. PipeInit => Init /\ PipeInv
  BY PipeStart
<1>2. PipeInv /\ [PipeNext]_pipeVars => [Next]_vars /\ PipeInv'
  <2> SUFFICES ASSUME PipeInv, [PipeNext]_pipeVars PROVE [Next]_vars /\ PipeInv'
    OBVIOUS
  <2>1. [Next]_vars /\ Moves /\ Hand' /\ Linked'
    BY PipeStep DEF PipeInv
  <2>2. Places' /\ Apart' /\ Tally'
    BY <2>1, MovesKeepPlaces, MovesKeepApart, MovesKeepTally DEF PipeInv
  <2> QED BY <2>1, <2>2 DEF PipeInv
<1> QED BY <1>1, <1>2, CopiesInvariance, PTL DEF PipeSpec, Spec

\* From the visitor to the table no click vanishes unexplained: the publisher's
\* counters, the broken connections and the buffer of a publisher that stopped account
\* for those that never reached the exchange, and the queue, the consumers, the table
\* or a discarding broker have the others.
THEOREM ClicksExplained == PipeSpec => []EveryClickExplained
<1>1. PipeInv /\ IInv => EveryClickExplained
  <2> SUFFICES ASSUME PipeInv, IInv PROVE EveryClickExplained
    OBVIOUS
  <2> DEFINE gone == (1..offered) \ (WithPublisher \cup Elements(wire) \cup Exchanged)
  <2>1. dropped + lostOnWire = Cardinality(Gone) /\ IsFiniteSet(Gone) /\ 0 \notin 1..offered
    BY PipelineAssumption, FinitePlaces DEF PipeInv, Tally, Places
  <2>2. dropped + lostOnWire + Stranded = Cardinality(gone)
    <3>1. CASE sender # "stopped"
      <4>1. gone = Gone
        BY <2>1, <3>1 DEF WithPublisher, Exchanged, Gone, Waiting, Underway, Arrived
      <4>2. Stranded = 0 /\ dropped \in Nat /\ lostOnWire \in Nat
        BY <3>1 DEF Stranded, PipeInv, Places
      <4> HIDE DEF gone
      <4> QED BY <2>1, <4>1, <4>2
    <3>2. CASE sender = "stopped"
      <4>1. held = 0
        BY <3>2 DEF PipeInv, Places, Hand
      <4>2. gone = Gone \cup Waiting /\ Gone \cap Waiting = {}
        BY <2>1, <3>2, <4>1 DEF WithPublisher, Exchanged, Gone, Waiting, Underway, Arrived,
                                PipeInv, Apart
      <4>3. IsFiniteSet(Waiting) /\ Cardinality(Waiting) = Len(buffer)
        BY DistinctCount DEF PipeInv, Places, Apart, Waiting
      <4> HIDE DEF gone
      <4>4. Cardinality(gone) = Cardinality(Gone) + Cardinality(Waiting) - Cardinality({})
        BY <2>1, <4>2, <4>3, FS_Union
      <4>5. Stranded = Len(buffer) /\ Len(buffer) \in Nat /\ Cardinality({}) = 0
        BY <3>2, FS_EmptySet DEF Stranded, PipeInv, Places
      <4>6. dropped \in Nat /\ lostOnWire \in Nat
        BY DEF PipeInv, Places
      <4> QED BY <2>1, <4>3, <4>4, <4>5, <4>6
    <3> QED BY <3>1, <3>2
  <2>4. ASSUME NEW n \in Exchanged
        PROVE  n \in ready \/ n \in InFlight \/ rows[n] > 0 \/ n \in lost
    <3>1. n \in published /\ n \in 1..MaxClicks
      BY ElementsOf DEF PipeInv, Linked, Places, Exchanged
    <3>2. n \in published \cap Valid
      BY PipelineAssumption, <3>1 DEF Valid
    <3> QED BY <3>2 DEF IInv, NoLoss
  <2> QED BY <2>2, <2>4 DEF EveryClickExplained
<1> QED BY <1>1, PipelineInvariance, PTL

\* The publisher's counter meets the table: what is stored, discarded or lost on the
\* wire was counted, up to the one click written last, and the rest of the counter is
\* on its way.  The lower bound rests on the rows having come through the exchange, the
\* upper one on the consumers losing nothing.
THEOREM CounterMeetsTheTable == PipeSpec => []CounterMeetsTable
<1>1. PipeInv /\ IInv /\ CopiesInv /\ Discarded => CounterMeetsTable
  <2> SUFFICES ASSUME PipeInv, IInv, CopiesInv, Discarded
               PROVE  CounterMeetsTable
    OBVIOUS
  <2> DEFINE settled == Stored \cup lost
             all == settled \cup Underway \cup ready \cup InFlight
  <2>1. published = Arrived /\ Arrived \subseteq 1..MaxClicks
    BY ElementsOf DEF PipeInv, Linked, Places, Arrived
  <2>2. Stored \subseteq Arrived
    BY <2>1, PipelineAssumption DEF CopiesInv, Sourced, Stored
  <2>3. settled \subseteq Arrived
    BY <2>1, <2>2 DEF Discarded
  <2>4. Arrived \subseteq settled \cup ready \cup InFlight
    <3> SUFFICES ASSUME NEW n \in Arrived PROVE n \in settled \cup ready \cup InFlight
      OBVIOUS
    <3>1. n \in published \cap Valid /\ n \in 1..MaxClicks
      BY <2>1, PipelineAssumption DEF Valid
    <3> QED BY <3>1 DEF IInv, NoLoss, Stored
  <2>5. ready \cup InFlight \subseteq Arrived
    <3>1. ready \cup InFlight \subseteq published
      BY DEF InFlight, Msgs, CopiesInv, Sourced
    <3> QED BY <2>1, <3>1
  <2> HIDE DEF settled
  <2>6. all = Arrived \cup Underway /\ Arrived \cap Underway = {}
    BY <2>3, <2>4, <2>5 DEF PipeInv, Apart
  <2> HIDE DEF all
  <2>7. /\ IsFiniteSet(Arrived) /\ Cardinality(Arrived) = Len(received)
        /\ IsFiniteSet(Underway) /\ Cardinality(Underway) = Len(wire)
    BY FinitePlaces DEF PipeInv, Tally
  <2>8. Len(received) \in Nat /\ Len(wire) \in Nat /\ lostOnWire \in Nat
    BY DEF PipeInv, Places
  <2>9. Written = Len(received) + Len(wire) + lostOnWire
    BY DEF PipeInv, Tally
  <2>10. Cardinality(settled) \in Nat /\ Cardinality(settled) <= Len(received)
    BY <2>3, <2>7, FS_Subset, FS_CardinalityType
  <2>11. Cardinality(all) = Len(received) + Len(wire)
    <3>1. Cardinality(all) = Cardinality(Arrived) + Cardinality(Underway) - Cardinality({})
      BY <2>6, <2>7, FS_Union
    <3> QED BY <2>7, <2>8, <3>1, FS_EmptySet
  <2>12. Cardinality(settled) + lostOnWire <= Written
    BY <2>8, <2>9, <2>10
  <2>13. Written <= Cardinality(all) + lostOnWire
    BY <2>8, <2>9, <2>11
  <2> QED BY <2>3, <2>12, <2>13 DEF CounterMeetsTable, Exchanged, Arrived, Underway,
                                    settled, all
<1> QED BY <1>1, PipelineInvariance, DiscardedInvariance, PTL

--------------------------------------------------------------------------------
(* The parts in the whole.                                                 *)

\* The consumer is handed each click once, as ClickConsumer takes for granted of its
\* environment: a click the broker reads off the wire was never published before.
\* So Arrive never holds the broker back from a step it owes the publisher.
THEOREM ArrivalsAreNew ==
    PipeSpec => [](wire # <<>> => Head(wire) \notin published)
<1>1. PipeInv => (wire # <<>> => Head(wire) \notin published)
  <2> SUFFICES ASSUME PipeInv, wire # <<>> PROVE Head(wire) \notin published
    OBVIOUS
  <2>1. wire \in Seq(1..MaxClicks) /\ Distinct(wire)
    BY DEF PipeInv, Places, Apart
  <2>2. Head(wire) \in Underway
    BY <2>1, ElementsOfTail DEF Underway
  <2> QED BY <2>2 DEF PipeInv, Linked, Apart, Arrived
<1> QED BY <1>1, PipelineInvariance, PTL

\* Fed by the publisher, queue, consumers and table still keep what ClickSink
\* promises: a click that reached the queue leaves it stored or not at all.
THEOREM PipelineImplementsSink == PipeSpec => ImplementsSink
BY PipelineInvariance, SinkImplemented, PTL

\* A step of the pipeline is a step of the publisher or leaves it alone.
LEMMA PublisherStep ==
    ASSUME [PipeNext]_pipeVars
    PROVE  [Publisher!Next]_(Publisher!vars)
<1>1. UNCHANGED publisherVars => UNCHANGED Publisher!vars
  BY DEF publisherVars, Publisher!vars, Publisher!goroutine, Publisher!counters,
         Publisher!network
<1>2. CASE Redirect \/ Send \/ PublisherWorld
  BY <1>2 DEF Redirect, Send, PublisherWorld, Publisher!Next
<1>3. CASE ReadOffWire
  BY <1>3 DEF ReadOffWire, Publisher!Next
<1>4. CASE Consume \/ UNCHANGED pipeVars
  BY <1>1, <1>4 DEF Consume, pipeVars
<1>5. CASE RestartForBoth
  BY <1>1, <1>5 DEF RestartForBoth, Publisher!Next
<1> QED BY <1>2, <1>3, <1>4, <1>5 DEF PipeNext

\* The publisher in front of the queue behaves as ClickPublisher: whatever is proved
\* of that module, the order of the clicks among it, holds in the pipeline.
THEOREM PipelineImplementsPublisher == PipeSpec => Publisher!Spec
<1>1. PipeInit => Publisher!Init
  BY DEF PipeInit
<1> QED BY <1>1, PublisherStep, PTL DEF PipeSpec, Publisher!Spec

--------------------------------------------------------------------------------
(* What is written stays, while nothing breaks.                            *)

\* Of the publisher's channel: it breaks only in an outage, and without a channel
\* nothing is on the wire.
Connected ==
    /\ channel \in {"nil", "up", "broken", "closed"}
    /\ sender = "connect" => channel = "nil"
    /\ channel \in {"broken", "closed"} => outages > 0
    /\ channel = "nil" => wire = <<>>
    /\ outages \in Nat

\* What was written is still there unless an outage took it, or the broker read it.
WireKept ==
    \/ wire' = wire \/ PutOnWire
    \/ wire = <<>>
    \/ outages' > 0

LEMMA PublisherKeepsWire ==
    ASSUME Places, Connected,
           \/ Publisher!Publish \/ Publisher!Close \/ Publisher!Take
           \/ Publisher!Send \/ Publisher!Connect \/ Publisher!Write
           \/ Publisher!WriteFails \/ Publisher!Count \/ Publisher!Stop
           \/ Publisher!Disconnected \/ Publisher!BackoffExpires
           \/ Publisher!Break \/ Publisher!Notice
    PROVE  Connected' /\ WireKept
<1> USE DEF Connected, WireKept, Publisher!None, Publisher!goroutine,
        Publisher!counters, Publisher!network
<1>1. CASE \/ Publisher!Publish \/ Publisher!Close \/ Publisher!Take \/ Publisher!Stop
           \/ Publisher!BackoffExpires
  <2>1. sender' = "connect" => sender = "connect"
    BY <1>1 DEF Publisher!Publish, Publisher!Close, Publisher!Take, Publisher!Stop,
                Publisher!BackoffExpires
  <2>2. UNCHANGED <<wire, channel, outages>>
    BY <1>1 DEF Publisher!Publish, Publisher!Close, Publisher!Take, Publisher!Stop,
                Publisher!BackoffExpires
  <2> QED BY <2>1, <2>2
<1>2. CASE Publisher!Send \/ Publisher!Connect
  <2>1. /\ sender' = "connect" => channel' = "nil"
        /\ channel' = channel \/ (channel' = "up" /\ sender = "connect")
        /\ UNCHANGED <<wire, outages>>
    BY <1>2 DEF Publisher!Send, Publisher!Connect, Publisher!GiveUp
  <2> QED BY <2>1
<1>3. CASE Publisher!Write
  <2>1. PutOnWire
    BY <1>3 DEF Publisher!Write, PutOnWire, Places, Hand, Written, Publisher!Uncounted
  <2>2. /\ sender' = "count" /\ channel' = channel /\ channel \in {"up", "broken"}
        /\ outages' = outages
    BY <1>3 DEF Publisher!Write
  <2> QED BY <2>1, <2>2
<1>4. CASE Publisher!WriteFails
  <2>1. /\ sender' = "select" /\ channel' = "nil" /\ wire' = <<>>
        /\ channel \in {"broken", "closed"} /\ outages' = outages
    BY <1>4 DEF Publisher!WriteFails, Publisher!Disconnect, Publisher!GiveUp
  <2> QED BY <2>1
<1>5. CASE Publisher!Disconnected
  <2>1. /\ sender' = "stopped" /\ channel' = "nil" /\ wire' = <<>>
        /\ channel # "broken" /\ (channel = "up" => wire = <<>>)
        /\ outages' = outages
    BY <1>5 DEF Publisher!Disconnected, Publisher!Disconnect
  <2> QED BY <2>1
<1>6. CASE Publisher!Break
  BY <1>6 DEF Publisher!Break
<1>7. CASE Publisher!Notice
  <2>1. /\ sender' = sender /\ channel = "broken" /\ channel' = "closed"
        /\ wire' = <<>> /\ outages' = outages
    BY <1>7 DEF Publisher!Notice
  <2> QED BY <2>1
<1>8. CASE Publisher!Count
  <2>1. sender' = "select" /\ UNCHANGED <<wire, channel, outages>>
    BY <1>8 DEF Publisher!Count
  <2> QED BY <2>1
<1> QED BY <1>1, <1>2, <1>3, <1>4, <1>5, <1>6, <1>7, <1>8

LEMMA ConnectedStep ==
    ASSUME Places, Connected, [PipeNext]_pipeVars
    PROVE  Connected' /\ (WireKept \/ ReadOff)
<1>1. CASE Redirect \/ Send \/ PublisherWorld
  BY <1>1, PublisherKeepsWire DEF Redirect, Send, PublisherWorld
<1>2. CASE ReadOffWire
  <2>1. ReadOff
    BY <1>2, BrokerReadsMoves DEF ReadOffWire
  <2>2. UNCHANGED <<sender, channel, outages>> /\ channel = "up"
    BY <1>2 DEF ReadOffWire, Publisher!BrokerReads, Publisher!goroutine
  <2> QED BY <2>1, <2>2 DEF Connected
<1>3. CASE UNCHANGED publisherVars
  BY <1>3 DEF publisherVars, Connected, WireKept
<1>4. CASE Publisher!Break
  BY <1>4, PublisherKeepsWire
<1> QED BY <1>1, <1>2, <1>3, <1>4 DEF PipeNext, Consume, RestartForBoth, pipeVars

\* The broker discards an event when no queue is bound, or in a restart.
LEMMA BoundQueueKeeps ==
    ASSUME TypeOK, [Next]_vars, bound, faults' = 0
    PROVE  bound' /\ lost' = lost /\ published \subseteq published'
<1>0. faults \in Nat
  BY DEF TypeOK
<1>1. ASSUME NEW m \in Msg, Arrive(m) PROVE bound' /\ lost' = lost /\ published \subseteq published'
  BY <1>1 DEF Arrive
<1>2. ~BrokerRestart
  <2>1. BrokerRestart => faults' = faults + 1
    BY DEF BrokerRestart
  <2> QED BY <1>0, <2>1
<1>3. ASSUME NEW r \in Replica, Goroutine(r) \/ Environment(r)
      PROVE  bound' /\ lost' = lost /\ published \subseteq published'
  BY <1>3 DEF Goroutine, Environment, Connect, DialFails, Receive, Tick, SeeDone,
       SeeClosed, Leave, Insert, Settle, Return, Redial, StopRun, Deliver, SessionLoss,
       Close, Restart, Crash, broker
<1>4. CASE UNCHANGED vars
  BY <1>4 DEF vars, broker
<1> QED BY <1>1, <1>2, <1>3, <1>4 DEF Next

\* Once the queue is bound, and as long as nothing breaks, a click that was written is
\* never out of sight before it is stored: on the wire, queued, delivered, requeued, it
\* is always somewhere, though neither side ever hears from the other.  That it does
\* not stay on the way for ever is WrittenIsStored.
THEOREM WrittenIsKept ==
    PipeSpec =>
        [][bound /\ outages' + faults' = 0 =>
              /\ bound'
              /\ \A n \in Elements(wire) \cup ready \cup InFlight :
                    n \in (Elements(wire) \cup ready \cup InFlight)' \/ rows'[n] > 0]_pipeVars
<1> DEFINE Kept ==
      bound /\ outages' + faults' = 0 =>
          /\ bound'
          /\ \A n \in Elements(wire) \cup ready \cup InFlight :
                n \in (Elements(wire) \cup ready \cup InFlight)' \/ rows'[n] > 0
<1> DEFINE Inv == PipeInv /\ IInv /\ CopiesInv /\ Discarded /\ Connected
<1>1. PipeInit => Connected
  BY DEF PipeInit, Publisher!Init, Connected
<1>2. PipeInv /\ Connected /\ [PipeNext]_pipeVars => Connected'
  BY ConnectedStep DEF PipeInv
<1>3. ASSUME Inv, Inv', [PipeNext]_pipeVars
      PROVE  Kept
  <2> SUFFICES ASSUME bound, outages' + faults' = 0
               PROVE  /\ bound'
                      /\ \A n \in Elements(wire) \cup ready \cup InFlight :
                            \/ n \in (Elements(wire) \cup ready \cup InFlight)'
                            \/ rows'[n] > 0
    OBVIOUS
  <2>1. outages' = 0 /\ faults' = 0
    <3>1. outages' \in Nat
      BY <1>3 DEF Connected
    <3>2. faults' \in Nat
      BY <1>3 DEF IInv, TypeOK
    <3>3. \A a, b \in Nat : a + b = 0 => a = 0 /\ b = 0
      OBVIOUS
    <3> QED BY <3>1, <3>2, <3>3
  <2>2. [Next]_vars
    BY <1>3, PipeStep DEF PipeInv
  <2>3. bound' /\ lost' = lost /\ published \subseteq published'
    BY <1>3, <2>1, <2>2, BoundQueueKeeps DEF IInv
  <2>4. published = Arrived /\ published' = Arrived' /\ Underway \cap Arrived = {}
    BY <1>3 DEF PipeInv, Linked, Apart, Arrived
  <2>5. Underway \subseteq Underway' \cup published'
    <3>1. CASE UNCHANGED wire
      BY <3>1 DEF Underway
    <3>2. CASE PutOnWire
      BY <1>3, <3>2, PutOnWireSets DEF PipeInv
    <3>3. CASE ReadOff
      BY <1>3, <2>4, <3>3, ReadOffSets DEF PipeInv
    <3>4. CASE wire = <<>>
      BY <3>4 DEF Underway, Elements
    <3>5. WireKept \/ ReadOff
      BY <1>3, ConnectedStep DEF PipeInv
    <3> QED BY <2>1, <3>1, <3>2, <3>3, <3>4, <3>5 DEF WireKept
  <2>6. Queue \subseteq published /\ Queue \cap lost = {} /\ lost \subseteq published
    BY <1>3 DEF Queue, InFlight, Msgs, CopiesInv, Sourced, Discarded
  <2>7. ASSUME NEW n \in Underway \cup Queue
        PROVE  n \in Underway' \cup Queue' \/ rows'[n] > 0
    <3>1. n \in Underway' \/ n \in published'
      BY <2>3, <2>5, <2>6
    <3>2. n \notin lost'
      BY <2>3, <2>4, <2>6
    <3>3. published' \subseteq Valid
      BY <1>3, PipelineAssumption DEF IInv, TypeOK, Valid
    <3>4. n \in published' => n \in Queue' \/ rows'[n] > 0
      BY <1>3, <3>2, <3>3 DEF IInv, NoLoss, Queue
    <3> QED BY <3>1, <3>4
  <2> QED BY <2>3, <2>7 DEF Underway, Queue
<1>4. Inv /\ Inv' /\ [PipeNext]_pipeVars => [Kept]_pipeVars
  BY <1>3
<1> HIDE DEF Kept
<1>5. PipeSpec => [][Kept]_pipeVars
  BY <1>1, <1>2, <1>4, PipelineInvariance, DiscardedInvariance, PTL DEF PipeSpec
<1> QED BY <1>5 DEF Kept
================================================================================
