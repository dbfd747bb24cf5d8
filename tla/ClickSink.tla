------------------------------- MODULE ClickSink -------------------------------
(***************************************************************************)
(* What the click queue and the analytics-service promise together,        *)
(* without sessions, batches, delivery tags or replicas: a click event     *)
(* handed to the exchange stays queued until it is a row of the clicks     *)
(* table (or turned out to be malformed).  The only ways to lose one are   *)
(* the exchange having no queue to route it to and the broker forgetting   *)
(* its transient messages.                                                 *)
(*                                                                         *)
(* ClickConsumer implements this specification.                            *)
(***************************************************************************)
CONSTANTS Msg,        \* the click events other processes publish
          Malformed   \* those whose body is not the JSON of a ClickEvent

VARIABLES published,  \* events handed to the exchange so far
          queued,     \* events the broker holds, delivered or not
          stored,     \* events with at least one row in the clicks table
          lost        \* events the broker discarded

sinkVars == <<published, queued, stored, lost>>

Init ==
    /\ published = {}
    /\ queued = {}
    /\ stored = {}
    /\ lost = {}

\* The exchange routes an event to the queue, or drops it when none is bound.
Publish(m) ==
    /\ m \notin published
    /\ published' = published \cup {m}
    /\ \/ queued' = queued \cup {m} /\ UNCHANGED lost
       \/ lost' = lost \cup {m} /\ UNCHANGED queued
    /\ UNCHANGED stored

\* One batch is committed, possibly one that was stored before.
Store(S) ==
    /\ S \subseteq published \ Malformed
    /\ stored' = stored \cup S
    /\ UNCHANGED <<published, queued, lost>>

\* Events leave the queue only when stored, or when there is nothing to store.
Settle(S) ==
    /\ S \subseteq queued \cap (stored \cup Malformed)
    /\ queued' = queued \ S
    /\ UNCHANGED <<published, stored, lost>>

\* A broker restart forgets every message that was not marked persistent.
Wipe ==
    /\ lost' = lost \cup queued
    /\ queued' = {}
    /\ UNCHANGED <<published, stored>>

Next ==
    \/ \E m \in Msg : Publish(m)
    \/ \E S \in SUBSET Msg : Store(S) \/ Settle(S)
    \/ Wipe

Spec == Init /\ [][Next]_sinkVars
================================================================================
