---------------------------- MODULE ClickPublisher -----------------------------
(***************************************************************************)
(* The click publisher of the redirect-service                             *)
(* (internal/publishers/click_publisher.go): request handlers put click    *)
(* events into a bounded Go channel and never wait; one goroutine takes    *)
(* them out, connects to RabbitMQ when it has no channel, and writes them  *)
(* to the wire without asking the broker to confirm.                       *)
(*                                                                         *)
(* Clicks are numbered in the order in which Publish is called, so a       *)
(* sequence of numbers shows both what it holds and in which order.        *)
(***************************************************************************)
EXTENDS Integers, Sequences, SequencesExt

CONSTANTS
    BufferSize,   \* CLICK_BUFFER_SIZE
    MaxClicks,    \* bound: calls of Publish
    MaxOutages    \* bound: connections that break

ASSUME PublisherAssumption ==
    /\ BufferSize \in Nat \ {0}    \* config.validate refuses less than 1
    /\ MaxClicks \in Nat
    /\ MaxOutages \in Nat

VARIABLES
    offered,      \* number of calls of Publish; also the latest click's number
    events,       \* p.events, the buffered Go channel
    held,         \* the click send has to write, 0 if none
    pc,           \* where the goroutine is: "select", "send", "connect",
                  \* "publish", "count", "closing" or "stopped"
    channel,      \* p.channel: "nil", "up", "broken" (the peer is gone and
                  \* nobody has noticed) or "closed" (the library has noticed)
    backoff,      \* time.Now() is before p.nextRetry
    done,         \* Close was called
    dropped,      \* p.dropped
    published,    \* p.published
    wire,         \* written to the socket, not read by the broker
    received,     \* what the exchange received, in order
    lostOnWire,   \* number of clicks written to a connection that broke
    outages

goroutine == <<held, pc>>
counters == <<dropped, published>>
network == <<wire, received, lostOnWire>>
vars == <<offered, events, goroutine, channel, backoff, done, counters, network,
          outages>>

None == 0
Click == 1..MaxClicks

TypeOK ==
    /\ offered \in 0..MaxClicks
    /\ events \in Seq(Click) /\ Len(events) <= BufferSize
    /\ held \in Click \cup {None}
    /\ pc \in {"select", "send", "connect", "publish", "count", "closing", "stopped"}
    /\ channel \in {"nil", "up", "broken", "closed"}
    /\ backoff \in BOOLEAN
    /\ done \in BOOLEAN
    /\ dropped \in Nat
    /\ published \in Nat
    /\ wire \in Seq(Click)
    /\ received \in Seq(Click)
    /\ lostOnWire \in Nat
    /\ outages \in Nat

Init ==
    /\ offered = 0
    /\ events = <<>>
    /\ held = None
    /\ pc = "select"
    /\ channel = "nil"
    /\ backoff = FALSE
    /\ done = FALSE
    /\ dropped = 0
    /\ published = 0
    /\ wire = <<>>
    /\ received = <<>>
    /\ lostOnWire = 0
    /\ outages = 0

--------------------------------------------------------------------------------
(* Slips the definitions below could have been written with; the           *)
(* properties at the end tell each of them from the code.                  *)

\* A buffer check that is off by one, to either side.
HasRoomOff == Len(events) <= BufferSize
HasRoomEarly == Len(events) + 1 < BufferSize

\* A failed click nobody counts.
GiveUpUncounted == pc' = "select" /\ held' = None /\ UNCHANGED dropped

\* Dialling until the broker answers instead of dropping the click.
ConnectRetrying ==
    /\ pc = "connect"
    /\ \/ channel' = "up" /\ pc' = "publish" /\ UNCHANGED backoff
       \/ backoff' = TRUE /\ UNCHANGED <<pc, channel>>
    /\ UNCHANGED <<offered, events, held, done, counters, network, outages>>

\* A click counted before the error of its write is looked at.
WriteFailsCounted ==
    /\ pc = "publish"
    /\ channel \in {"broken", "closed"}
    /\ channel' = "nil"
    /\ wire' = <<>>
    /\ lostOnWire' = lostOnWire + Len(wire)
    /\ backoff' = TRUE
    /\ pc' = "select" /\ held' = None /\ dropped' = dropped + 1
    /\ published' = published + 1
    /\ UNCHANGED <<offered, events, done, received, outages>>

\* A failed publish that leaves its channel in place; a disconnect that keeps what
\* it wrote for the next connection.
DisconnectForgotten == UNCHANGED <<channel, network>>
DisconnectResending ==
    /\ channel' = "nil"
    /\ received' = received \o wire
    /\ UNCHANGED <<wire, lostOnWire>>

--------------------------------------------------------------------------------
(* The request handlers.                                                   *)

HasRoom == Len(events) < BufferSize

\* select with a default: the click is buffered or counted as dropped.  Handlers
\* that outlive the shutdown timeout still call it after Close.
Publish ==
    /\ offered < MaxClicks
    /\ offered' = offered + 1
    /\ \/ HasRoom /\ events' = Append(events, offered') /\ UNCHANGED dropped
       \/ ~HasRoom /\ dropped' = dropped + 1 /\ UNCHANGED events
    /\ UNCHANGED <<goroutine, channel, backoff, done, published, network, outages>>

\* The deferred Close of main; it returns when the goroutine has stopped.
Close ==
    /\ ~done
    /\ done' = TRUE
    /\ UNCHANGED <<offered, events, goroutine, channel, backoff, counters,
                   network, outages>>

--------------------------------------------------------------------------------
(* The publisher goroutine.                                                *)

\* case event := <-p.events.
Take ==
    /\ pc = "select"
    /\ events # <<>>
    /\ held' = Head(events)
    /\ events' = Tail(events)
    /\ pc' = "send"
    /\ UNCHANGED <<offered, channel, backoff, done, counters, network, outages>>

\* send returned an error: run counts the click and goes on with the next.
GiveUp == pc' = "select" /\ held' = None /\ dropped' = dropped + 1

\* The connection is gone for good, and with it what the broker did not read.
Disconnect ==
    /\ channel' = "nil"
    /\ wire' = <<>>
    /\ lostOnWire' = lostOnWire + Len(wire)
    /\ UNCHANGED received

\* The first half of send: without a channel connect, unless it failed recently.
Send ==
    /\ pc = "send"
    /\ \/ /\ channel # "nil"
          /\ pc' = "publish"
          /\ UNCHANGED <<held, dropped>>
       \/ /\ channel = "nil" /\ backoff
          /\ GiveUp
       \/ /\ channel = "nil" /\ ~backoff
          /\ pc' = "connect"
          /\ UNCHANGED <<held, dropped>>
    /\ UNCHANGED <<offered, events, channel, backoff, done, published, network,
                   outages>>

Connect ==
    /\ pc = "connect"
    /\ \/ /\ channel' = "up"
          /\ pc' = "publish"
          /\ UNCHANGED <<held, backoff, dropped>>
       \/ /\ GiveUp
          /\ backoff' = TRUE
          /\ UNCHANGED channel
    /\ UNCHANGED <<offered, events, done, published, network, outages>>

\* The second half: a write succeeds as long as nobody noticed the peer is gone.
\* Nothing is said of whether the broker routed or even received the click.
Write ==
    /\ pc = "publish"
    /\ channel \in {"up", "broken"}
    /\ wire' = Append(wire, held)
    /\ pc' = "count"
    /\ held' = None
    /\ UNCHANGED <<offered, events, channel, backoff, done, counters, received,
                   lostOnWire, outages>>

\* The counter follows when the click is on its way already.
Count ==
    /\ pc = "count"
    /\ published' = published + 1
    /\ pc' = "select"
    /\ UNCHANGED <<offered, events, held, channel, backoff, done, dropped, network,
                   outages>>

WriteFails ==
    /\ pc = "publish"
    /\ channel \in {"broken", "closed"}
    /\ Disconnect
    /\ backoff' = TRUE
    /\ GiveUp
    /\ UNCHANGED <<offered, events, done, published, outages>>

\* case <-p.done.
Stop ==
    /\ pc = "select"
    /\ done
    /\ pc' = "closing"
    /\ UNCHANGED <<offered, events, held, channel, backoff, done, counters, network,
                   outages>>

\* The deferred disconnect: closing a channel waits for the broker's answer, which
\* comes after everything written before it, or for the library to notice that
\* no answer will come.
Disconnected ==
    /\ pc = "closing"
    /\ channel = "up" => wire = <<>>
    /\ channel # "broken"
    /\ Disconnect
    /\ pc' = "stopped"
    /\ UNCHANGED <<offered, events, held, backoff, done, counters, outages>>

--------------------------------------------------------------------------------
(* Time, and the connection.                                               *)

BackoffExpires ==
    /\ backoff
    /\ backoff' = FALSE
    /\ UNCHANGED <<offered, events, goroutine, channel, done, counters, network,
                   outages>>

BrokerReads ==
    /\ channel = "up"
    /\ wire # <<>>
    /\ received' = Append(received, Head(wire))
    /\ wire' = Tail(wire)
    /\ UNCHANGED <<offered, events, goroutine, channel, backoff, done, counters,
                   lostOnWire, outages>>

\* The broker goes away; the library may notice much later, by a heartbeat.
Break ==
    /\ outages < MaxOutages
    /\ channel = "up"
    /\ channel' = "broken"
    /\ outages' = outages + 1
    /\ UNCHANGED <<offered, events, goroutine, backoff, done, counters, network>>

Notice ==
    /\ channel = "broken"
    /\ channel' = "closed"
    /\ wire' = <<>>
    /\ lostOnWire' = lostOnWire + Len(wire)
    /\ UNCHANGED <<offered, events, goroutine, backoff, done, counters, received,
                   outages>>

--------------------------------------------------------------------------------
Next ==
    \/ Publish \/ Close
    \/ Take \/ Send \/ Connect \/ Write \/ WriteFails \/ Count
    \/ Stop \/ Disconnected
    \/ BackoffExpires \/ BrokerReads \/ Break \/ Notice

Spec == Init /\ [][Next]_vars

\* The goroutine keeps running and time passes.  Its select picks at random among
\* the ready cases, so neither a click nor done is passed over for ever.  A live
\* broker reads what it is sent, and heartbeats find out a dead one; the handlers,
\* Close and outages owe nothing, nor does a dial owe success.
Fairness ==
    /\ SF_vars(Take) /\ SF_vars(Stop)
    /\ WF_vars(Send) /\ WF_vars(Connect) /\ WF_vars(Write \/ WriteFails)
    /\ WF_vars(Count) /\ WF_vars(Disconnected)
    /\ WF_vars(BackoffExpires) /\ WF_vars(BrokerReads) /\ WF_vars(Notice)

FairSpec == Spec /\ Fairness

--------------------------------------------------------------------------------
(* Properties.                                                             *)

\* Written, and not yet in p.published.
Uncounted == IF pc = "count" THEN 1 ELSE 0

\* Every click offered by a handler is in exactly one place: counted as dropped,
\* counted as published, in the buffer or in the goroutine's hands, to be written or
\* to be counted.  Clicks left in the buffer by a goroutine that stopped are still
\* "in the buffer" here; DroppedReportsLost is about those.
Accounting ==
    offered = dropped + published + Uncounted + Len(events)
                + (IF held = None THEN 0 ELSE 1)

\* A click that was written was received, is on the wire, or went down with a
\* connection; all of them but the one just written are in the counter.
PublishedIsWritten == published + Uncounted = Len(received) + Len(wire) + lostOnWire

\* The handlers' order survives reconnects, and nothing is published twice: what
\* the broker received, the wire, the click in hand and the buffer are in order.
InOrder ==
    LET line == received \o wire \o (IF held = None THEN <<>> ELSE <<held>>) \o events
    IN  \A i, j \in 1..Len(line) : i < j => line[i] < line[j]

\* "Click events discarded: buffer full or broker unavailable" (metrics.go): no
\* click is dropped for any other reason, in particular not on a working channel.
DropsHaveAReason ==
    [][dropped' # dropped => Len(events) = BufferSize \/ channel # "up"]_vars

\* As long as the publisher is open, a dead broker never blocks the buffer.
KeepsDraining ==
    \A n \in Click : (n \in ToSet(events)) ~> (n \notin ToSet(events) \/ done)

\* Close returns, whatever the goroutine was doing and however full the buffer is.
CloseReturns == done ~> pc = "stopped"

\* A channel the broker left behind does not swallow clicks for ever: it is
\* replaced once there is something to publish.
StaleChannelReplaced ==
    (channel = "closed" /\ events # <<>>) ~> (channel # "closed")

\* click_publisher.go:80, "Dropped reports lost events": when the goroutine stops
\* for good, each click offered so far was published or is in Dropped.
DroppedReportsLost ==
    [][pc # "stopped" /\ pc' = "stopped" => offered = published' + dropped']_vars
================================================================================
