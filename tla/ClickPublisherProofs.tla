-------------------------- MODULE ClickPublisherProofs -------------------------
(***************************************************************************)
(* Proofs about ClickPublisher, for any buffer size, number of clicks and  *)
(* number of outages.                                                      *)
(***************************************************************************)
EXTENDS ClickPublisher, TLAPS

\* The goroutine has a click in hand exactly while it works on one.
Holding ==
    held # None <=> pc \in {"send", "connect", "publish"}

AccountingInv == TypeOK /\ Holding /\ Accounting /\ PublishedIsWritten

LEMMA InitAccounting == Init => AccountingInv
<1> SUFFICES ASSUME Init PROVE AccountingInv
  OBVIOUS
<1> USE PublisherAssumption DEF Init, None
<1>1. <<>> \in Seq(Click) /\ Len(<<>>) = 0
  OBVIOUS
<1>2. TypeOK
  <2>1. offered \in 0..MaxClicks /\ Len(events) <= BufferSize
    BY <1>1
  <2>2. events \in Seq(Click) /\ wire \in Seq(Click) /\ received \in Seq(Click)
    BY <1>1
  <2> QED BY <2>1, <2>2 DEF TypeOK
<1>3. Holding /\ Accounting /\ PublishedIsWritten
  BY <1>1 DEF Holding, Accounting, PublishedIsWritten, Uncounted
<1> QED BY <1>2, <1>3 DEF AccountingInv

\* What a queue looks like after one click is put in, or taken out.
LEMMA QueueLengths ==
    ASSUME NEW S, NEW s \in Seq(S), NEW x \in S
    PROVE  /\ Append(s, x) \in Seq(S)
           /\ Len(Append(s, x)) = Len(s) + 1
           /\ Len(s) \in Nat
           /\ s # <<>> => /\ Head(s) \in S
                          /\ Tail(s) \in Seq(S)
                          /\ Len(Tail(s)) = Len(s) - 1
OBVIOUS

LEMMA NextAccounting == AccountingInv /\ [Next]_vars => AccountingInv'
<1> SUFFICES ASSUME AccountingInv, [Next]_vars
             PROVE  AccountingInv'
  OBVIOUS
<1> USE PublisherAssumption DEF AccountingInv, None, Uncounted
<1>0. /\ Len(events) \in Nat /\ Len(wire) \in Nat /\ Len(received) \in Nat
      /\ offered \in Nat /\ dropped \in Nat /\ published \in Nat
  BY DEF TypeOK
<1>1. CASE Publish
  <2>1. /\ offered' = offered + 1 /\ offered' \in Click
        /\ events \in Seq(Click) /\ Len(events) \in Nat
        /\ UNCHANGED <<held, pc, channel, backoff, done, published, wire, received,
                       lostOnWire, outages>>
    BY <1>1 DEF Publish, TypeOK, Click, goroutine, network
  <2>2. CASE HasRoom /\ events' = Append(events, offered') /\ UNCHANGED dropped
    <3>1. events' \in Seq(Click) /\ Len(events') = Len(events) + 1
      BY <2>1, <2>2, QueueLengths
    <3>2. TypeOK'
      BY <2>1, <2>2, <3>1 DEF TypeOK, HasRoom, Click
    <3>3. Holding' /\ Accounting' /\ PublishedIsWritten'
      BY <2>1, <2>2, <3>1 DEF TypeOK, Holding, Accounting, PublishedIsWritten
    <3> QED BY <3>2, <3>3
  <2>3. CASE ~HasRoom /\ dropped' = dropped + 1 /\ UNCHANGED events
    BY <2>1, <2>3 DEF TypeOK, Holding, Accounting, PublishedIsWritten, Click
  <2> QED BY <1>1, <2>2, <2>3 DEF Publish
<1>2. CASE Close
  BY <1>2 DEF Close, TypeOK, Holding, Accounting, PublishedIsWritten, goroutine,
              counters, network
<1>3. CASE Take
  <2>1. /\ held' = Head(events) /\ events' = Tail(events) /\ pc' = "send"
        /\ pc = "select" /\ events # <<>> /\ events \in Seq(Click)
        /\ UNCHANGED <<offered, channel, backoff, done, dropped, published, wire,
                       received, lostOnWire, outages>>
    BY <1>3 DEF Take, TypeOK, counters, network
  <2>2. /\ Head(events) \in Click /\ Tail(events) \in Seq(Click)
        /\ Len(Tail(events)) = Len(events) - 1 /\ Len(events) \in Nat
    BY <2>1
  <2>3. TypeOK'
    BY <2>1, <2>2 DEF TypeOK
  <2>4. held = 0 /\ held' # 0
    BY <2>1, <2>2 DEF Holding, Click
  <2>5. Holding' /\ Accounting' /\ PublishedIsWritten'
    BY <2>1, <2>2, <2>4 DEF TypeOK, Holding, Accounting, PublishedIsWritten
  <2> QED BY <2>3, <2>5
<1>4. CASE Send
  <2>1. /\ UNCHANGED <<offered, events, channel, backoff, done, published, wire,
                       received, lostOnWire, outages>>
        /\ pc = "send"
        /\ \/ pc' \in {"publish", "connect"} /\ UNCHANGED <<held, dropped>>
           \/ pc' = "select" /\ held' = 0 /\ dropped' = dropped + 1
    BY <1>4 DEF Send, GiveUp, network
  <2>2. TypeOK'
    BY <2>1 DEF TypeOK
  <2>3. Holding' /\ PublishedIsWritten'
    BY <2>1 DEF TypeOK, Holding, PublishedIsWritten, Click
  <2>4. Accounting'
    BY <1>0, <2>1 DEF Holding, Accounting
  <2> QED BY <2>2, <2>3, <2>4
<1>5. CASE Connect
  <2>1. /\ UNCHANGED <<offered, events, done, published, wire, received,
                       lostOnWire, outages>>
        /\ pc = "connect"
        /\ channel' = channel \/ channel' = "up"
        /\ backoff' \in BOOLEAN
        /\ \/ pc' = "publish" /\ UNCHANGED <<held, dropped>>
           \/ pc' = "select" /\ held' = 0 /\ dropped' = dropped + 1
    BY <1>5 DEF Connect, GiveUp, network, TypeOK
  <2>2. TypeOK'
    BY <2>1 DEF TypeOK
  <2>3. Holding' /\ PublishedIsWritten'
    BY <2>1 DEF TypeOK, Holding, PublishedIsWritten, Click
  <2>4. Accounting'
    BY <1>0, <2>1 DEF Holding, Accounting
  <2> QED BY <2>2, <2>3, <2>4
<1>6. CASE Write
  <2>1. /\ UNCHANGED <<offered, events, channel, backoff, done, dropped, published,
                       received, lostOnWire, outages>>
        /\ pc = "publish" /\ pc' = "count" /\ held' = 0 /\ held # 0 /\ held \in Click
        /\ wire \in Seq(Click) /\ wire' = Append(wire, held)
    BY <1>6 DEF Write, counters, Holding, TypeOK
  <2>2. wire' \in Seq(Click) /\ Len(wire') = Len(wire) + 1
    BY <2>1, QueueLengths
  <2>3. TypeOK'
    BY <2>1, <2>2 DEF TypeOK
  <2>4. Holding' /\ Accounting'
    BY <1>0, <2>1 DEF Holding, Accounting
  <2>5. PublishedIsWritten'
    BY <1>0, <2>1, <2>2 DEF PublishedIsWritten, TypeOK
  <2> QED BY <2>3, <2>4, <2>5
<1>7. CASE WriteFails
  BY <1>7 DEF WriteFails, GiveUp, Disconnect, TypeOK, Holding, Accounting,
              PublishedIsWritten, Click
<1>8. CASE Stop
  BY <1>8 DEF Stop, TypeOK, Holding, Accounting, PublishedIsWritten, counters, network
<1>9. CASE Disconnected
  BY <1>9 DEF Disconnected, Disconnect, TypeOK, Holding, Accounting,
              PublishedIsWritten, counters
<1>10. CASE BackoffExpires
  BY <1>10 DEF BackoffExpires, TypeOK, Holding, Accounting, PublishedIsWritten,
               goroutine, counters, network
<1>11. CASE BrokerReads
  BY <1>11 DEF BrokerReads, TypeOK, Holding, Accounting, PublishedIsWritten,
               goroutine, counters
<1>12. CASE Break
  BY <1>12 DEF Break, TypeOK, Holding, Accounting, PublishedIsWritten, goroutine,
               counters, network
<1>13. CASE Notice
  BY <1>13 DEF Notice, TypeOK, Holding, Accounting, PublishedIsWritten, goroutine,
               counters
<1>14. CASE UNCHANGED vars
  BY <1>14 DEF vars, TypeOK, Holding, Accounting, PublishedIsWritten, goroutine,
               counters, network
<1>15. CASE Count
  BY <1>15 DEF Count, TypeOK, Holding, Accounting, PublishedIsWritten, network
<1> QED BY <1>1, <1>2, <1>3, <1>4, <1>5, <1>6, <1>7, <1>8, <1>9, <1>10, <1>11,
           <1>12, <1>13, <1>14, <1>15 DEF Next

\* Every offered click is dropped, published, buffered or in hand; no step of the
\* goroutine or of a handler loses count of one.
THEOREM AccountsForAll == Spec => []Accounting
BY InitAccounting, NextAccounting, PTL DEF Spec, AccountingInv

\* Every click counted as published went through the wire once.
THEOREM CountsWrites == Spec => []PublishedIsWritten
BY InitAccounting, NextAccounting, PTL DEF Spec, AccountingInv

\* The buffer never holds more than its capacity, nor anything but clicks.
THEOREM TypesPublisher == Spec => []TypeOK
BY InitAccounting, NextAccounting, PTL DEF Spec, AccountingInv

--------------------------------------------------------------------------------
(* The order of the clicks.  InOrder speaks of the whole line from the     *)
(* exchange back to the buffer; its parts are easier to move clicks        *)
(* between.                                                                *)

Below(s, x) == \A i \in 1..Len(s) : s[i] < x
Above(s, x) == \A i \in 1..Len(s) : x < s[i]
Increasing(s) == \A i, j \in 1..Len(s) : i < j => s[i] < s[j]
Before(s, t) == \A i \in 1..Len(s), j \in 1..Len(t) : s[i] < t[j]

\* Each part is in order and before the next, and nothing is newer than the latest
\* click.
LineOrdered ==
    /\ Increasing(received) /\ Increasing(wire) /\ Increasing(events)
    /\ Before(received, wire) /\ Before(received, events) /\ Before(wire, events)
    /\ held # None => Below(received, held) /\ Below(wire, held) /\ Above(events, held)
    /\ Below(received, offered + 1) /\ Below(wire, offered + 1)
    /\ Below(events, offered + 1) /\ held <= offered

\* A click newer than all of s goes to its end.
LEMMA AppendKeepsOrder ==
    ASSUME NEW s \in Seq(Nat), NEW x \in Nat, Increasing(s), Below(s, x)
    PROVE  /\ Increasing(Append(s, x))
           /\ \A y \in Nat : x < y /\ Below(s, y) => Below(Append(s, x), y)
           /\ \A y \in Nat : y < x /\ Above(s, y) => Above(Append(s, x), y)
           /\ \A t \in Seq(Nat) : Before(s, t) /\ Above(t, x) => Before(Append(s, x), t)
           /\ \A t \in Seq(Nat) : Before(t, s) /\ Below(t, x) => Before(t, Append(s, x))
BY DEF Increasing, Below, Above, Before

\* The head is older than the rest, and both keep their place.
LEMMA HeadIsOldest ==
    ASSUME NEW s \in Seq(Nat), s # <<>>, Increasing(s)
    PROVE  /\ Head(s) \in Nat /\ Tail(s) \in Seq(Nat)
           /\ Increasing(Tail(s)) /\ Above(Tail(s), Head(s))
           /\ \A y \in Nat : Below(s, y) => Head(s) < y /\ Below(Tail(s), y)
           /\ \A y \in Nat : Above(s, y) => y < Head(s) /\ Above(Tail(s), y)
           /\ \A t \in Seq(Nat) : Before(s, t) => Above(t, Head(s)) /\ Before(Tail(s), t)
           /\ \A t \in Seq(Nat) : Before(t, s) => Below(t, Head(s)) /\ Before(t, Tail(s))
<1>1. /\ Head(s) = s[1] /\ Len(s) \in Nat /\ Len(s) >= 1
      /\ Len(Tail(s)) = Len(s) - 1
      /\ \A i \in 1..Len(Tail(s)) : Tail(s)[i] = s[i + 1] /\ i + 1 \in 1..Len(s)
      /\ \A i \in 1..Len(s) : s[i] \in Nat
      /\ Tail(s) \in Seq(Nat)
  OBVIOUS
<1> QED BY <1>1 DEF Increasing, Below, Above, Before

\* Two parts in order, one before the other, are in order as one.
LEMMA ConcatKeepsOrder ==
    ASSUME NEW s \in Seq(Nat), NEW t \in Seq(Nat),
           Increasing(s), Increasing(t), Before(s, t)
    PROVE  /\ s \o t \in Seq(Nat)
           /\ Increasing(s \o t)
           /\ \A u \in Seq(Nat) : Before(s, u) /\ Before(t, u) => Before(s \o t, u)
<1> DEFINE m == Len(s)
           both == s \o t
<1>1. /\ m \in Nat /\ Len(t) \in Nat /\ both \in Seq(Nat) /\ Len(both) = m + Len(t)
      /\ \A i \in 1..m : both[i] = s[i]
      /\ \A i \in 1..Len(both) : i > m => both[i] = t[i - m] /\ i - m \in 1..Len(t)
  OBVIOUS
<1> HIDE DEF m, both
<1>2. \A i \in 1..Len(both) : i \in 1..m \/ i > m
  BY <1>1
<1>3. ASSUME NEW i \in 1..Len(both), NEW j \in 1..Len(both), i < j
      PROVE  both[i] < both[j]
  <2>1. CASE j \in 1..m
    <3>1. i \in 1..m /\ j \in 1..Len(s)
      BY <1>1, <1>3, <2>1 DEF m
    <3>2. s[i] < s[j]
      BY <1>3, <3>1 DEF Increasing, m
    <3> QED BY <1>1, <2>1, <3>1, <3>2
  <2>2. CASE i \in 1..m /\ j > m
    BY <1>1, <2>2 DEF Before, m
  <2>3. CASE i > m
    <3>1. i - m \in 1..Len(t) /\ j - m \in 1..Len(t) /\ i - m < j - m
      BY <1>1, <1>3, <2>3
    <3>2. t[i - m] < t[j - m]
      BY <3>1 DEF Increasing
    <3>3. j > m
      BY <1>1, <1>3, <2>3
    <3> QED BY <1>1, <2>3, <3>2, <3>3
  <2> QED BY <1>2, <2>1, <2>2, <2>3
<1>4. ASSUME NEW u \in Seq(Nat), Before(s, u), Before(t, u)
      PROVE  Before(both, u)
  BY <1>1, <1>2, <1>4 DEF Before, m
<1> QED BY <1>1, <1>3, <1>4 DEF Increasing, both

LEMMA InitOrder == Init => LineOrdered
BY DEF Init, None, LineOrdered, Increasing, Before, Below

\* What the connection had not read is gone; the rest keeps its order.
LEMMA LineWithoutWire ==
    ASSUME TypeOK, LineOrdered, UNCHANGED <<offered, events, received>>,
           wire' = <<>>, held' = held \/ held' = None
    PROVE  LineOrdered'
<1>1. /\ Increasing(<<>>) /\ Below(<<>>, offered + 1)
      /\ \A t \in Seq(Click) : Before(<<>>, t) /\ Before(t, <<>>)
      /\ \A x : Below(<<>>, x)
  BY DEF Increasing, Below, Before
<1>2. held' <= offered
  BY DEF TypeOK, LineOrdered, None, Click
<1> QED BY <1>1, <1>2 DEF LineOrdered, TypeOK

LEMMA NextOrder ==
    ASSUME AccountingInv, LineOrdered, [Next]_vars
    PROVE  LineOrdered'
<1> USE PublisherAssumption DEF None
<1>0. /\ events \in Seq(Nat) /\ wire \in Seq(Nat) /\ received \in Seq(Nat)
      /\ offered \in Nat /\ held \in Nat
  BY DEF AccountingInv, TypeOK, Click
<1>1. CASE UNCHANGED <<offered, events, wire, received>> /\ held' \in {held, None}
  BY <1>0, <1>1 DEF LineOrdered
<1>2. CASE Publish
  <2>1. UNCHANGED <<held, wire, received>> /\ offered' = offered + 1
    BY <1>2 DEF Publish, goroutine, network
  <2>2. \A s \in Seq(Nat) : Below(s, offered + 1) => Below(s, offered' + 1)
    BY <1>0, <2>1 DEF Below
  <2>3. CASE UNCHANGED events
    BY <1>0, <2>1, <2>2, <2>3 DEF LineOrdered
  <2>4. CASE events' = Append(events, offered')
    <3>1. /\ Increasing(events') /\ Below(events', offered' + 1)
          /\ Before(received, events') /\ Before(wire, events')
      BY <1>0, <2>1, <2>2, <2>4, AppendKeepsOrder DEF LineOrdered
    <3>2. held # None => Above(events', held)
      BY <1>0, <2>1, <2>4, AppendKeepsOrder DEF LineOrdered
    <3> QED BY <1>0, <2>1, <2>2, <3>1, <3>2 DEF LineOrdered
  <2> QED BY <1>2, <2>3, <2>4 DEF Publish
<1>3. CASE Take
  <2>1. /\ UNCHANGED <<offered, wire, received>> /\ events # <<>>
        /\ held' = Head(events) /\ events' = Tail(events)
    BY <1>3 DEF Take, network
  <2>2. /\ Increasing(events') /\ Above(events', held') /\ held' \in Nat
        /\ held' < offered + 1 /\ Below(events', offered + 1)
        /\ Below(received, held') /\ Before(received, events')
        /\ Below(wire, held') /\ Before(wire, events')
    BY <1>0, <2>1, HeadIsOldest DEF LineOrdered
  <2> QED BY <1>0, <2>1, <2>2 DEF LineOrdered
<1>4. CASE Write
  <2>1. /\ UNCHANGED <<offered, events, received>>
        /\ wire' = Append(wire, held) /\ held' = None /\ held # None
    BY <1>4 DEF Write, AccountingInv, Holding
  <2>2. /\ Increasing(wire') /\ Below(wire', offered + 1)
        /\ Before(received, wire') /\ Before(wire', events)
    BY <1>0, <2>1, AppendKeepsOrder DEF LineOrdered
  <2> QED BY <1>0, <2>1, <2>2 DEF LineOrdered
<1>5. CASE WriteFails \/ Disconnected \/ Notice
  <2>1. UNCHANGED <<offered, events, received>> /\ wire' = <<>> /\ held' \in {held, None}
    BY <1>5 DEF WriteFails, Disconnected, Notice, Disconnect, GiveUp, goroutine
  <2> QED BY <2>1, LineWithoutWire DEF AccountingInv
<1>6. CASE BrokerReads
  <2>1. /\ UNCHANGED <<offered, events, held>> /\ wire # <<>>
        /\ received' = Append(received, Head(wire)) /\ wire' = Tail(wire)
    BY <1>6 DEF BrokerReads, goroutine
  <2>2. /\ Head(wire) \in Nat /\ Increasing(wire') /\ Above(wire', Head(wire))
        /\ wire' \in Seq(Nat)
        /\ Head(wire) < offered + 1 /\ Below(wire', offered + 1)
        /\ Above(events, Head(wire)) /\ Before(wire', events)
        /\ Below(received, Head(wire)) /\ Before(received, wire')
        /\ held # None => Head(wire) < held /\ Below(wire', held)
    BY <1>0, <2>1, HeadIsOldest DEF LineOrdered
  <2>3. /\ Increasing(received') /\ Below(received', offered + 1)
        /\ Before(received', wire') /\ Before(received', events)
        /\ held # None => Below(received', held)
    <3> DEFINE x == Head(wire)
               longer == Append(received, x)
    <3>1. x \in Nat /\ Increasing(received) /\ Below(received, x)
      BY <2>2 DEF LineOrdered
    <3>2. /\ Increasing(longer)
          /\ x < offered + 1 /\ Below(received, offered + 1) => Below(longer, offered + 1)
          /\ Before(received, wire') /\ Above(wire', x) => Before(longer, wire')
          /\ Before(received, events) /\ Above(events, x) => Before(longer, events)
          /\ x < held /\ Below(received, held) => Below(longer, held)
      <4> HIDE DEF x
      <4>1. offered + 1 \in Nat
        BY <1>0
      <4> QED BY <1>0, <2>2, <3>1, <4>1, AppendKeepsOrder DEF longer
    <3> QED BY <2>1, <2>2, <3>2 DEF LineOrdered
  <2> QED BY <1>0, <2>1, <2>2, <2>3 DEF LineOrdered
<1>7. CASE \/ Close \/ Send \/ Connect \/ Count \/ Stop \/ BackoffExpires \/ Break
           \/ UNCHANGED vars
  <2>1. UNCHANGED <<offered, events, wire, received>> /\ held' \in {held, None}
    BY <1>7 DEF Close, Send, Connect, Count, Stop, BackoffExpires, Break, GiveUp,
                goroutine, network, vars
  <2> QED BY <2>1, <1>1
<1> QED BY <1>2, <1>3, <1>4, <1>5, <1>6, <1>7 DEF Next

THEOREM OrderInvariance == Spec => [](AccountingInv /\ LineOrdered)
BY InitAccounting, NextAccounting, InitOrder, NextOrder, PTL DEF Spec

\* Handlers' order survives every reconnect, and no click is published twice.
THEOREM OrderSurvives == Spec => []InOrder
<1>1. AccountingInv /\ LineOrdered => InOrder
  <2> SUFFICES ASSUME AccountingInv, LineOrdered PROVE InOrder
    OBVIOUS
  <2> DEFINE hand == IF held = None THEN <<>> ELSE <<held>>
             front == received \o wire
             most == front \o hand
  <2>1. /\ events \in Seq(Nat) /\ wire \in Seq(Nat) /\ received \in Seq(Nat)
        /\ hand \in Seq(Nat) /\ held \in Nat
    BY PublisherAssumption DEF AccountingInv, TypeOK, Click, None
  <2>2. /\ Increasing(hand)
        /\ Before(received, hand) /\ Before(wire, hand) /\ Before(hand, events)
    BY <2>1 DEF LineOrdered, Increasing, Before, Below, Above
  <2> HIDE DEF hand
  <2>4. /\ Increasing(front) /\ front \in Seq(Nat)
        /\ Before(front, hand) /\ Before(front, events)
    BY <2>1, <2>2, ConcatKeepsOrder DEF LineOrdered
  <2> HIDE DEF front
  <2>5. Increasing(most) /\ most \in Seq(Nat) /\ Before(most, events)
    BY <2>1, <2>2, <2>4, ConcatKeepsOrder
  <2> HIDE DEF most
  <2>6. Increasing(most \o events)
    BY <2>1, <2>5, ConcatKeepsOrder DEF LineOrdered
  <2> QED BY <2>6 DEF InOrder, Increasing, most, front, hand
<1> QED BY <1>1, OrderInvariance, PTL

--------------------------------------------------------------------------------
(* The connection: when clicks are dropped, lost on the wire or stranded.  *)

\* The goroutine dials only without a channel; a channel breaks only in an outage;
\* nothing is on the wire of a connection that is given up or was noticed to be dead;
\* and a goroutine that stopped disconnected before.
ChannelInv ==
    /\ pc = "connect" => channel = "nil"
    /\ channel \in {"broken", "closed"} => outages > 0
    /\ channel \in {"nil", "closed"} => wire = <<>>
    /\ pc = "stopped" => channel = "nil"
    /\ outages = 0 => lostOnWire = 0

LEMMA InitChannel == Init => ChannelInv
BY DEF Init, ChannelInv

LEMMA NextChannel ==
    ASSUME TypeOK, ChannelInv, [Next]_vars
    PROVE  ChannelInv'
<1> USE DEF ChannelInv, goroutine, counters, network
<1>0. outages \in Nat /\ lostOnWire \in Nat /\ Len(wire) \in Nat /\ Len(<<>>) = 0
  BY DEF TypeOK
<1>1. CASE Publish \/ Close \/ Take \/ Count \/ Stop \/ BackoffExpires
  BY <1>1 DEF Publish, Close, Take, Count, Stop, BackoffExpires
<1>2. CASE Send \/ Connect
  BY <1>2 DEF Send, Connect, GiveUp
<1>3. CASE Write
  BY <1>3 DEF Write
<1>4. CASE WriteFails
  <2>1. outages > 0 /\ UNCHANGED outages
    BY <1>4 DEF WriteFails
  <2> QED BY <1>0, <1>4, <2>1 DEF WriteFails, Disconnect, GiveUp
<1>5. CASE Disconnected
  <2>1. outages = 0 => wire = <<>>
    BY <1>0, <1>5 DEF Disconnected, TypeOK
  <2>2. outages = 0 => lostOnWire' = 0
    BY <1>0, <1>5, <2>1 DEF Disconnected, Disconnect
  <2> QED BY <1>5, <2>2 DEF Disconnected, Disconnect
<1>6. CASE BrokerReads
  BY <1>6 DEF BrokerReads
<1>7. CASE Break
  BY <1>0, <1>7 DEF Break
<1>8. CASE Notice
  BY <1>0, <1>8 DEF Notice
<1>9. CASE UNCHANGED vars
  BY <1>9 DEF vars
<1> QED BY <1>1, <1>2, <1>3, <1>4, <1>5, <1>6, <1>7, <1>8, <1>9 DEF Next

THEOREM ChannelInvariance == Spec => [](AccountingInv /\ ChannelInv)
<1>1. AccountingInv /\ ChannelInv /\ [Next]_vars => ChannelInv'
  BY NextChannel DEF AccountingInv
<1> QED BY <1>1, InitAccounting, NextAccounting, InitChannel, PTL DEF Spec

\* A click is dropped when the buffer is full or the channel is not up, never on a
\* working channel: the two reasons the help text of the metric gives.
THEOREM DropsAreExplained == Spec => DropsHaveAReason
<1>1. ASSUME AccountingInv, ChannelInv, [Next]_vars, dropped' # dropped
      PROVE  Len(events) = BufferSize \/ channel # "up"
  <2> USE DEF goroutine, counters, network
  <2>1. CASE Publish
    <3>1. ~HasRoom /\ Len(events) \in Nat /\ Len(events) <= BufferSize
      BY <1>1, <2>1 DEF Publish, AccountingInv, TypeOK
    <3> QED BY <3>1, PublisherAssumption DEF HasRoom
  <2>2. CASE Send \/ Connect \/ WriteFails
    BY <1>1, <2>2 DEF Send, Connect, WriteFails, ChannelInv
  <2>3. CASE \/ Close \/ Take \/ Write \/ Count \/ Stop \/ Disconnected
             \/ BackoffExpires \/ BrokerReads \/ Break \/ Notice \/ UNCHANGED vars
    BY <1>1, <2>3 DEF Close, Take, Write, Count, Stop, Disconnected, BackoffExpires,
                      BrokerReads, Break, Notice, vars
  <2> QED BY <1>1, <2>1, <2>2, <2>3 DEF Next
<1>2. AccountingInv /\ ChannelInv /\ [Next]_vars
        => [dropped' # dropped => Len(events) = BufferSize \/ channel # "up"]_vars
  BY <1>1
<1> QED BY <1>2, ChannelInvariance, PTL DEF Spec, DropsHaveAReason

\* Without confirms a written click is only lost when a connection breaks: as long
\* as none did, the broker received or will read every click that is counted or about
\* to be, reconnects after failed dials and the shutdown included.
THEOREM OnlyOutagesLose ==
    Spec => [](outages = 0 => published + Uncounted = Len(received) + Len(wire))
<1>1. AccountingInv /\ ChannelInv =>
        (outages = 0 => published + Uncounted = Len(received) + Len(wire))
  BY DEF AccountingInv, ChannelInv, PublishedIsWritten, TypeOK
<1> QED BY <1>1, ChannelInvariance, PTL

\* What Close leaves behind: a goroutine that stopped has no click in hand and none
\* on the wire, so the clicks in neither counter are those stranded in the buffer.
\* The comment of Dropped (click_publisher.go:80) promises them to its counter.
THEOREM StrandedInBuffer ==
    Spec => [](pc = "stopped" =>
                 wire = <<>> /\ offered = dropped + published + Len(events))
<1>1. AccountingInv /\ ChannelInv =>
        (pc = "stopped" => wire = <<>> /\ offered = dropped + published + Len(events))
  <2> SUFFICES ASSUME AccountingInv, ChannelInv, pc = "stopped"
               PROVE  wire = <<>> /\ offered = dropped + published + Len(events)
    OBVIOUS
  <2>1. held = None /\ wire = <<>>
    BY DEF AccountingInv, Holding, ChannelInv
  <2> QED BY <2>1 DEF AccountingInv, Accounting, Uncounted, TypeOK
<1> QED BY <1>1, ChannelInvariance, PTL
================================================================================
