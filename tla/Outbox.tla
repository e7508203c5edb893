------------------------------- MODULE Outbox -------------------------------
(***************************************************************************)
(* What the buffering of outgoing MQTT messages promises, apart from how   *)
(* it is done (README.md, "Offline buffering"): at most Limit messages are *)
(* kept; one that was taken in is kept until the broker has it; one that   *)
(* was not may still get through.                                          *)
(***************************************************************************)
CONSTANTS
    Messages,
    HasRoom(_)  \* whether a buffer that holds this set of messages takes one more

VARIABLES
    offered,    \* messages handed over for publishing
    kept,       \* messages in the buffer
    delivered   \* messages the broker has

Init == offered = {} /\ kept = {} /\ delivered = {}

\* A message is taken into the buffer when there is room, or not.
Offer(m) ==
    /\ m \notin offered
    /\ offered' = offered \cup {m}
    /\ \/ HasRoom(kept) /\ kept' = kept \cup {m}
       \/ UNCHANGED kept
    /\ UNCHANGED delivered

Deliver(m) ==
    /\ m \in offered
    /\ delivered' = delivered \cup {m}
    /\ UNCHANGED <<offered, kept>>

\* Only a message the broker has leaves the buffer.
Forget(m) ==
    /\ m \in kept \cap delivered
    /\ kept' = kept \ {m}
    /\ UNCHANGED <<offered, delivered>>

Next == \E m \in Messages : Offer(m) \/ Deliver(m) \/ Forget(m)

Spec == Init /\ [][Next]_<<offered, kept, delivered>>
=============================================================================
