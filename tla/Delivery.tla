------------------------------ MODULE Delivery ------------------------------
(***************************************************************************)
(* The way of a logged error to the cloud: the hook of the logger          *)
(* (LogRateLimiter) sends it with SendErrorPayload, which is sendPayload   *)
(* of the data sender (MqttStore), beside the payloads of everybody else.  *)
(* The hook's count is in memory, the store's files are not.               *)
(***************************************************************************)
EXTENDS LogRateLimiter, MqttStore

deliveryVars == <<limiterVars, vars>>

DeliveryInit == LimiterInit /\ Init

\* sendPayload returns nil or an error, whoever calls it.
Succeeds(m) == Publish(m) \/ PublishTimesOut(m)

\* The hook has its payload sent; sendPayload reports success also when the
\* packet was not sent in time, and the count is reset then.
ErrorIsSent(t, m) == Sends(t) /\ Succeeds(m)

ErrorFails(t, m) == SendFails(t) /\ SignFails(m)

\* The steps of the hook that send nothing.
HookStep(t) ==
    /\ Counts(t) \/ Decides(t) \/ Resets(t) \/ Prints(t)
    /\ UNCHANGED vars

\* Status, fingerprint and the other payloads.
OtherPayload(m) == (Succeeds(m) \/ SignFails(m)) /\ UNCHANGED limiterVars

ClientStep ==
    /\ \/ \E m \in Messages : BrokerReceives(m) \/ PubAck(m)
       \/ Connect \/ Disconnect
    /\ UNCHANGED limiterVars

\* The process ends, anywhere in the hook, and is started again.
ProcessRestarts == Restart /\ LimiterRestarts

DeliveryNext ==
    \/ \E t \in Threads : HookStep(t)
    \/ \E t \in Threads, m \in Messages : ErrorIsSent(t, m) \/ ErrorFails(t, m)
    \/ \E m \in Messages : OtherPayload(m)
    \/ ClientStep \/ ProcessRestarts

DeliverySpec == DeliveryInit /\ [][DeliveryNext]_deliveryVars

DeliveryFairSpec == DeliverySpec /\ Fairness
=============================================================================
