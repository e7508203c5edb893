------------------------------ MODULE MqttStore ------------------------------
(***************************************************************************)
(* The offline buffer of outgoing messages: sendPayload of                 *)
(* internal/network/data_sender.go, CustomFileStore of mqtt_store.go, and  *)
(* the paho client between them and the broker.                            *)
(*                                                                         *)
(* paho (external) is modelled as it is configured here: QoS 1, connection *)
(* retry, no clean session.  Publish puts the message in the store, then   *)
(* sends it if the connection is up; PUBACK deletes it from the store; a   *)
(* new connection sends again all that the store holds.  The store is a    *)
(* directory, so it outlives the process; the counter does not.            *)
(***************************************************************************)
EXTENDS Naturals, FiniteSets

CONSTANTS
    Messages,   \* the payloads, each sent once
    Limit       \* conf.Mqtt.Client.Buffering.Limit

ASSUME StoreAssumption ==
    /\ Limit \in Nat
    /\ IsFiniteSet(Messages)

VARIABLES
    files,      \* the message files of FileStore
    counter,    \* CustomFileStore.counter
    isRead,     \* CustomFileStore.isRead, as "yes" or "no"
    link,       \* the connection to the broker: "up" or "down"
    toBroker,   \* PUBLISH packets on their way
    acks,       \* PUBACK packets on their way back
    delivered,  \* history: messages the broker received
    result,     \* history: what sendPayload returned: "none" yet, "nil", "error"
    broken      \* history: messages whose packet was not sent in time

netVars == <<link, toBroker, acks>>
vars == <<files, counter, isRead, netVars, delivered, result, broken>>

TypeOK ==
    /\ files \subseteq Messages
    /\ counter \in 0..Limit
    /\ isRead \in {"yes", "no"}
    /\ link \in {"up", "down"}
    /\ toBroker \subseteq Messages /\ acks \subseteq Messages
    /\ delivered \subseteq Messages
    /\ result \in [Messages -> {"none", "nil", "error"}]
    /\ broken \subseteq Messages

Init ==
    /\ files = {} /\ counter = 0 /\ isRead = "no"
    /\ link = "down" /\ toBroker = {} /\ acks = {}
    /\ delivered = {}
    /\ result = [m \in Messages |-> "none"]
    /\ broken = {}

\* Variant: the directory is not read.
CountedMemory == counter

\* store.counter once the first Put of the process has read the directory.
Counted == IF isRead = "yes" THEN counter ELSE Cardinality(files)

\* Variant: the store is never full.
PutAlways(m) ==
    /\ isRead' = "yes"
    /\ files' = files \cup {m}
    /\ counter' = IF Counted < Limit THEN Counted + 1 ELSE Counted

\* CustomFileStore.Put.  Nothing ever decrements the counter: Del is the one
\* of the embedded FileStore.
Put(m) ==
    /\ isRead' = "yes"
    /\ IF Counted < Limit
       THEN files' = files \cup {m} /\ counter' = Counted + 1
       ELSE counter' = Counted /\ UNCHANGED files

\* sendPayload could not sign the payload.
SignFails(m) ==
    /\ result[m] = "none"
    /\ result' = [result EXCEPT ![m] = "error"]
    /\ UNCHANGED <<files, counter, isRead, netVars, delivered, broken>>

\* sendPayload publishes; the packet goes out at once if the link is up.
Publish(m) ==
    /\ result[m] = "none"
    /\ Put(m)
    /\ toBroker' = IF link = "up" THEN toBroker \cup {m} ELSE toBroker
    /\ result' = [result EXCEPT ![m] = "nil"]
    /\ UNCHANGED <<link, acks, delivered, broken>>

\* The packet could not be handed to the connection in time, and the token
\* has an error.  sendPayload wraps its own err, which is nil here, and so
\* returns nil.
PublishTimesOut(m) ==
    /\ result[m] = "none" /\ link = "up"
    /\ Put(m)
    /\ broken' = broken \cup {m}
    /\ result' = [result EXCEPT ![m] = "nil"]
    /\ UNCHANGED <<netVars, delivered>>

\* A connection comes up, and the session resumes: all of the store is sent.
Connect ==
    /\ link = "down"
    /\ link' = "up" /\ toBroker' = files
    /\ UNCHANGED <<files, counter, isRead, acks, delivered, result, broken>>

LinkDown == link' = "down" /\ toBroker' = {} /\ acks' = {}

Disconnect ==
    /\ link = "up" /\ LinkDown
    /\ UNCHANGED <<files, counter, isRead, delivered, result, broken>>

\* Variant: the session is clean, so the store is emptied.
RestartClean ==
    /\ LinkDown
    /\ counter' = 0 /\ isRead' = "no" /\ files' = {}
    /\ UNCHANGED <<delivered, result, broken>>

\* The process ends, or the power fails, and is started again.
Restart ==
    /\ LinkDown
    /\ counter' = 0 /\ isRead' = "no"
    /\ UNCHANGED <<files, delivered, result, broken>>

BrokerReceives(m) ==
    /\ m \in toBroker
    /\ toBroker' = toBroker \ {m} /\ acks' = acks \cup {m}
    /\ delivered' = delivered \cup {m}
    /\ UNCHANGED <<files, counter, isRead, link, result, broken>>

\* PUBACK arrives: FileStore.Del.
PubAck(m) ==
    /\ m \in acks
    /\ acks' = acks \ {m} /\ files' = files \ {m}
    /\ UNCHANGED <<counter, isRead, link, toBroker, delivered, result, broken>>

Next ==
    \/ \E m \in Messages :
           \/ SignFails(m) \/ Publish(m) \/ PublishTimesOut(m)
           \/ BrokerReceives(m) \/ PubAck(m)
    \/ Connect \/ Disconnect \/ Restart

Spec == Init /\ [][Next]_vars

\* paho keeps trying to connect, and the link stays up long enough, again and
\* again, for a packet and for its acknowledgement.  A connection on which a
\* packet could not be sent in time is found dead by the keep-alive.
Fairness ==
    /\ WF_vars(Connect)
    /\ WF_vars(Disconnect /\ broken \cap files # {})
    /\ \A m \in Messages : SF_vars(BrokerReceives(m)) /\ SF_vars(PubAck(m))
-----------------------------------------------------------------------------
\* The directory never holds more than Limit messages, whatever the order of
\* publications, acknowledgements, reconnections and restarts, although the
\* counter and the directory are read and changed separately (Put).
StoreBounded == Cardinality(files) <= Limit

\* A message that went into the store is in it until the broker has it: no
\* restart or lost acknowledgement makes it disappear, and what leaves the
\* store was received (Put, Del and the resumption of a session).
KeptUntilDelivered ==
    [][\A m \in Messages :
           m \in files /\ m \notin files' => m \in delivered]_vars

\* The buffer implements the abstract outbox with room for Limit messages.
HasRoom(kept) == Cardinality(kept) < Limit

Box == INSTANCE Outbox WITH
    offered <- {m \in Messages : result[m] = "nil"},
    kept <- files

OutboxSpec == Box!Spec

\* A message in the store reaches the broker and its file is deleted, however
\* often the link breaks and the process restarts (README.md:271, "the
\* buffered messages are sent to the MQTT broker and the files are deleted").
StoredIsSent ==
    \A m \in Messages : m \in files ~> (m \in delivered /\ m \notin files)

=============================================================================
