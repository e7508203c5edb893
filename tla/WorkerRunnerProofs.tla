------------------------- MODULE WorkerRunnerProofs -------------------------
(***************************************************************************)
(* Proofs about WorkerRunner, for every template, every set of location    *)
(* fields, every limit and every bound.                                    *)
(***************************************************************************)
EXTENDS WorkerRunner, SequenceTheorems, TLAPS

\* A request the OBD loop is at is a signal, and so is a location field.
LEMMA NamesAreSignals ==
    /\ \A i \in DOMAIN Requests : Requests[i] \in Signals /\ Requests[i] \in Pids
    /\ \A i \in DOMAIN LocationFields :
           LocationFields[i] \in Signals /\ LocationFields[i] \notin Pids
    /\ Len(Requests) \in Nat /\ DOMAIN Requests = 1..Len(Requests)
    /\ Len(LocationFields) \in Nat
    /\ DOMAIN LocationFields = 1..Len(LocationFields)
  BY RunnerAssumption DEF RunnerAssumption, Pids

\* Enqueue keeps the types of the queue.
LEMMA EnqueueTypes ==
    ASSUME QueueTypeOK, NEW n \in Signals, NEW v \in Values,
           NEW limited \in BOOLEAN, Enqueue(n, v, limited)
    PROVE  /\ signals' \in [Signals -> Seq(Sample)]
           /\ lastTimeChecked' \in [Signals -> Nat \cup {Never}]
           /\ produced' \in [Signals -> Nat]
  <1>1. CASE limited /\ Queued(n, v)
    BY <1>1 DEF Enqueue, QueueTypeOK
  <1>2. CASE ~(limited /\ Queued(n, v))
    <2> DEFINE s == [rank |-> produced[n] + 1, value |-> v]
    <2>1. s \in Sample
      BY DEF Sample, QueueTypeOK
    <2>2. Append(signals[n], s) \in Seq(Sample)
      BY <2>1, AppendProperties DEF QueueTypeOK
    <2>3. /\ signals' = [signals EXCEPT ![n] = Append(@, s)]
          /\ lastTimeChecked' = [lastTimeChecked EXCEPT ![n] = now]
          /\ produced' = [produced EXCEPT ![n] = @ + 1]
      BY <1>2 DEF Enqueue
    <2> HIDE DEF s
    <2>4. QED
      BY <2>2, <2>3 DEF QueueTypeOK
  <1>3. QED
    BY <1>1, <1>2

LEMMA NextIndex ==
    ASSUME NEW k \in Nat, NEW i \in 1..k
    PROVE  (IF i = k THEN 0 ELSE i + 1) \in 0..k
  OBVIOUS

LEMMA EmptyQueueType == EmptyQueue \in [Signals -> Seq(Sample)]
  BY DEF EmptyQueue

\* Adding the lengths of queues to counters gives counters.
LEMMA PlusType ==
    ASSUME NEW count \in [Signals -> Nat], NEW data \in [Signals -> Seq(Sample)]
    PROVE  Plus(count, data) \in [Signals -> Nat]
  <1>1. \A n \in Signals : Len(data[n]) \in Nat
    BY LenProperties
  <1>2. QED
    BY <1>1 DEF Plus

\* Type correctness of the worker runner, whatever the constants.
THEOREM TypeCorrect == Spec => []TypeOK
  <1>1. Init => TypeOK
    BY EmptyQueueType, NamesAreSignals
       DEF Init, QueueInit, RunnerInit, TypeOK, QueueTypeOK, Zero
  <1>2. TypeOK /\ [Next]_vars => TypeOK'
    <2> SUFFICES ASSUME TypeOK, [Next]_vars PROVE TypeOK'
      OBVIOUS
    <2> USE NamesAreSignals DEF TypeOK, QueueTypeOK
    <2>1. ASSUME NEW ok \in BOOLEAN, ObdWakes(ok) PROVE TypeOK'
      BY <2>1 DEF ObdWakes, queueVars, historyVars
    <2>2. CASE ObdSkips
      BY <2>2 DEF ObdSkips, queueVars, historyVars
    <2>3. CASE ObdAsks
      BY <2>3 DEF ObdAsks, queueVars, historyVars
    <2>4. ASSUME NEW v \in Values, ObdSucceeds(v) PROVE TypeOK'
      <3>1. Request \in Signals /\ Enqueue(Request, v, FALSE)
        BY <2>4 DEF ObdSucceeds, Request
      <3>2. /\ signals' \in [Signals -> Seq(Sample)]
            /\ lastTimeChecked' \in [Signals -> Nat \cup {Never}]
            /\ produced' \in [Signals -> Nat]
        BY <3>1, EnqueueTypes
      <3>3. failureCount' \in [Signals -> Nat]
        BY <2>4, <3>1 DEF ObdSucceeds, ResetFailureCount
      <3>4. obdIdx' \in 1..Len(Requests) + 1 /\ obdPc' = "scan"
        BY <2>4 DEF ObdSucceeds
      <3>5. QED
        BY <2>4, <3>2, <3>3, <3>4 DEF ObdSucceeds, historyVars
    <2>5. CASE ObdCannotDecode
      BY <2>5 DEF ObdCannotDecode, queueVars, historyVars
    <2>6. CASE ObdFails
      <3>1. Request \in Signals
        BY <2>6 DEF ObdFails, Request
      <3>2. failureCount' \in [Signals -> Nat]
        BY <2>6, <3>1 DEF ObdFails, IncrementFailureCount
      <3>3. QED
        BY <2>6, <3>2 DEF ObdFails, historyVars
    <2>7. CASE ObdStamps
      <3>1. Request \in Signals
        BY <2>7 DEF ObdStamps, Request
      <3>2. lastTimeChecked' \in [Signals -> Nat \cup {Never}]
        BY <2>7, <3>1 DEF ObdStamps
      <3>3. obdIdx' \in 1..Len(Requests) + 1 /\ obdPc' = "scan"
        BY <2>7 DEF ObdStamps
      <3>4. QED
        BY <2>7, <3>2, <3>3 DEF ObdStamps, historyVars
    <2>8. CASE LocGetsFix
      BY <2>8 DEF LocGetsFix, queueVars, historyVars
    <2>9. CASE LocLocks
      BY <2>9 DEF LocLocks, queueVars, historyVars
    <2>10. ASSUME NEW v \in Values, LocEnqueues(v) PROVE TypeOK'
      <3>1. /\ LocationFields[locIdx] \in Signals
            /\ Enqueue(LocationFields[locIdx], v, FALSE)
        BY <2>10 DEF LocEnqueues
      <3>2. /\ signals' \in [Signals -> Seq(Sample)]
            /\ lastTimeChecked' \in [Signals -> Nat \cup {Never}]
            /\ produced' \in [Signals -> Nat]
        BY <3>1, EnqueueTypes
      <3>3. locIdx \in 1..Len(LocationFields)
        BY <2>10 DEF LocEnqueues
      <3>4. /\ mutex' = "free"
            /\ locIdx' = IF locIdx = Len(LocationFields) THEN 0 ELSE locIdx + 1
        BY <2>10 DEF LocEnqueues
      <3>5. locIdx' \in 0..Len(LocationFields)
        BY <3>3, <3>4, NextIndex
      <3>6. QED
        BY <2>10, <3>2, <3>4, <3>5 DEF LocEnqueues, historyVars
    <2>11. CASE StatusComposes
      BY <2>11, EmptyQueueType DEF StatusComposes, Dequeue, historyVars
    <2>12. CASE StatusPublishes \/ StatusFails
      <3>1. /\ Plus(sent, batch) \in [Signals -> Nat]
            /\ Plus(lost, batch) \in [Signals -> Nat]
        BY PlusType
      <3>2. QED
        BY <2>12, <3>1, EmptyQueueType
           DEF StatusPublishes, StatusFails, StatusReturns, queueVars
    <2>13. ASSUME NEW how \in {"off", "killed"}, Dies(how) PROVE TypeOK'
      <3>1. Plus(Plus(lost, batch), signals) \in [Signals -> Nat]
        BY PlusType
      <3>2. QED
        BY <2>13, <3>1, EmptyQueueType DEF Dies
    <2>14. CASE Restart
      BY <2>14, EmptyQueueType DEF Restart, Zero
    <2>15. CASE Tick
      BY <2>15 DEF Tick, queueVars, runnerVars, historyVars
    <2>16. CASE UNCHANGED vars
      BY <2>16 DEF vars, queueVars, runnerVars, historyVars
    <2>17. QED
      BY <2>1, <2>2, <2>3, <2>4, <2>5, <2>6, <2>7, <2>8, <2>9, <2>10, <2>11,
         <2>12, <2>13, <2>14, <2>15, <2>16
         DEF Next, ObdStep, LocationStep, StatusStep, PowerLoss, MapRace
  <1>3. QED
    BY <1>1, <1>2, PTL DEF Spec
-----------------------------------------------------------------------------
\* The ledger of SamplesAccountedFor is not inductive by itself: an empty
\* payload must be known to be empty before the next one overwrites it, and
\* so must the memory of a process that is gone.
NothingInHand ==
    /\ statusPc = "sleep" => batch = EmptyQueue
    /\ process # "running" => batch = EmptyQueue /\ signals = EmptyQueue

LedgerInv == TypeOK /\ SamplesAccountedFor /\ NothingInHand

\* Appending the next sample keeps the ranks consecutive.
LEMMA AppendFollows ==
    ASSUME NEW data \in Seq(Sample), NEW k \in Nat, NEW e \in Sample,
           RanksFollow(data, k), e.rank = k + Len(data) + 1
    PROVE  /\ RanksFollow(Append(data, e), k)
           /\ Len(Append(data, e)) = Len(data) + 1
  <1>1. /\ Len(Append(data, e)) = Len(data) + 1
        /\ DOMAIN Append(data, e) = 1..Len(data) + 1
        /\ DOMAIN data = 1..Len(data) /\ Len(data) \in Nat
        /\ \A i \in 1..Len(data) : Append(data, e)[i] = data[i]
        /\ Append(data, e)[Len(data) + 1] = e
    BY AppendProperties, LenProperties
  <1>2. QED
    BY <1>1 DEF RanksFollow

\* An empty queue has no ranks and no length.
LEMMA EmptyFollows ==
    \A n \in Signals : Len(EmptyQueue[n]) = 0
                        /\ \A k : RanksFollow(EmptyQueue[n], k)
  BY DEF EmptyQueue, RanksFollow

\* Queueing one more sample keeps the ledger.
LEMMA EnqueueLedger ==
    ASSUME LedgerInv, NEW n \in Signals, NEW v \in Values,
           Enqueue(n, v, FALSE), UNCHANGED <<sent, lost, batch>>
    PROVE  SamplesAccountedFor'
  <1> DEFINE e == [rank |-> produced[n] + 1, value |-> v]
  <1>1. /\ produced' = [produced EXCEPT ![n] = @ + 1]
        /\ signals' = [signals EXCEPT ![n] = Append(@, e)]
    BY DEF Enqueue, LedgerInv, TypeOK, QueueTypeOK
  <1>2. e \in Sample /\ e.rank = produced[n] + 1
    BY DEF Sample, LedgerInv, TypeOK, QueueTypeOK
  <1> HIDE DEF e
  <1> SUFFICES ASSUME NEW m \in Signals
               PROVE LET settled == sent[m] + lost[m] IN
                     /\ RanksFollow(batch[m], settled)
                     /\ RanksFollow(signals'[m], settled + Len(batch[m]))
                     /\ settled + Len(batch[m]) + Len(signals'[m]) = produced'[m]
    BY DEF SamplesAccountedFor
  <1>3. /\ RanksFollow(batch[m], sent[m] + lost[m])
        /\ RanksFollow(signals[m], sent[m] + lost[m] + Len(batch[m]))
    BY DEF SamplesAccountedFor, LedgerInv
  <1>3a. sent[m] + lost[m] + Len(batch[m]) + Len(signals[m]) = produced[m]
    BY DEF SamplesAccountedFor, LedgerInv
  <1>3b. /\ Len(batch[m]) \in Nat /\ Len(signals[m]) \in Nat
         /\ sent[m] \in Nat /\ lost[m] \in Nat /\ produced[m] \in Nat
    BY LenProperties DEF LedgerInv, TypeOK, QueueTypeOK
  <1>3c. signals[m] \in Seq(Sample)
    BY DEF LedgerInv, TypeOK, QueueTypeOK
  <1>4. CASE m = n
    <2>1. /\ signals'[m] = Append(signals[m], e)
          /\ produced'[m] = produced[m] + 1
      BY <1>1, <1>4 DEF LedgerInv, TypeOK, QueueTypeOK
    <2>2. /\ sent[m] + lost[m] + Len(batch[m]) \in Nat
          /\ e.rank = sent[m] + lost[m] + Len(batch[m]) + Len(signals[m]) + 1
      BY <1>2, <1>3a, <1>3b, <1>4
    <2>3. /\ RanksFollow(Append(signals[m], e), sent[m] + lost[m] + Len(batch[m]))
          /\ Len(Append(signals[m], e)) = Len(signals[m]) + 1
      BY <1>2, <1>3, <1>3c, <2>2, AppendFollows
    <2>4. Len(signals'[m]) = Len(signals[m]) + 1
      BY <2>1, <2>3
    <2>5. sent[m] + lost[m] + Len(batch[m]) + Len(signals'[m]) = produced'[m]
      <3> DEFINE base == sent[m] + lost[m] + Len(batch[m])
      <3>1. base \in Nat /\ base + Len(signals[m]) = produced[m]
        BY <1>3a, <1>3b
      <3> HIDE DEF base
      <3>2. base + Len(signals'[m]) = produced'[m]
        BY <1>3b, <2>1, <2>4, <3>1
      <3>3. QED
        BY <3>2 DEF base
    <2>6. RanksFollow(signals'[m], sent[m] + lost[m] + Len(batch[m]))
      BY <2>1, <2>3
    <2>7. QED
      BY <1>3, <2>5, <2>6
  <1>5. CASE m # n
    BY <1>1, <1>3, <1>3a, <1>5 DEF LedgerInv, TypeOK, QueueTypeOK
  <1>6. QED
    BY <1>4, <1>5

\* The ledger with its strengthening is inductive, types included.
LEMMA LedgerInvHolds == Spec => []LedgerInv
  <1>1. Init => LedgerInv
    <2> SUFFICES ASSUME Init PROVE LedgerInv
      OBVIOUS
    <2>1. TypeOK
      BY EmptyQueueType, NamesAreSignals
         DEF Init, QueueInit, RunnerInit, TypeOK, QueueTypeOK, Zero
    <2>2. /\ batch = EmptyQueue /\ signals = EmptyQueue
          /\ \A n \in Signals : sent[n] = 0 /\ lost[n] = 0 /\ produced[n] = 0
      BY DEF Init, QueueInit, RunnerInit, Zero
    <2>3. SamplesAccountedFor
      <3> SUFFICES ASSUME NEW n \in Signals
                   PROVE LET settled == sent[n] + lost[n] IN
                     /\ RanksFollow(batch[n], settled)
                     /\ RanksFollow(signals[n], settled + Len(batch[n]))
                     /\ settled + Len(batch[n]) + Len(signals[n]) = produced[n]
        BY DEF SamplesAccountedFor
      <3>1. /\ sent[n] = 0 /\ lost[n] = 0 /\ produced[n] = 0
            /\ batch[n] = <<>> /\ signals[n] = <<>>
        BY <2>2 DEF EmptyQueue
      <3>2. QED
        BY <3>1 DEF RanksFollow
    <2>4. QED
      BY <2>1, <2>3 DEF LedgerInv, NothingInHand, Init, RunnerInit
  <1>2. LedgerInv /\ TypeOK' /\ [Next]_vars => LedgerInv'
    <2> SUFFICES ASSUME LedgerInv, TypeOK', [Next]_vars
                 PROVE  SamplesAccountedFor' /\ NothingInHand'
      BY DEF LedgerInv
    <2> USE DEF NothingInHand
    <2>1. CASE UNCHANGED <<signals, produced, batch, sent, lost, statusPc, process>>
      BY <2>1 DEF LedgerInv, SamplesAccountedFor
    <2>2. ASSUME NEW v \in Values, ObdSucceeds(v)
          PROVE  SamplesAccountedFor' /\ NothingInHand'
      <3>1. Request \in Signals
        BY <2>2, NamesAreSignals DEF ObdSucceeds, Request, LedgerInv, TypeOK
      <3>2. SamplesAccountedFor'
        BY <2>2, <3>1, EnqueueLedger DEF ObdSucceeds, historyVars
      <3>3. QED
        BY <2>2, <3>2 DEF ObdSucceeds, LedgerInv, Running
    <2>3. ASSUME NEW v \in Values, LocEnqueues(v)
          PROVE  SamplesAccountedFor' /\ NothingInHand'
      <3>1. LocationFields[locIdx] \in Signals
        BY <2>3, NamesAreSignals DEF LocEnqueues, LedgerInv, TypeOK
      <3>2. SamplesAccountedFor'
        BY <2>3, <3>1, EnqueueLedger DEF LocEnqueues, historyVars
      <3>3. QED
        BY <2>3, <3>2 DEF LocEnqueues, LedgerInv, Running
    <2>4. CASE StatusComposes
      BY <2>4, EmptyFollows, LenProperties
         DEF StatusComposes, Dequeue, SamplesAccountedFor, LedgerInv, TypeOK,
             QueueTypeOK, historyVars, Running
    <2>5. CASE StatusPublishes \/ StatusFails
      <3>1. \A n \in Signals : /\ Len(batch[n]) \in Nat /\ Len(signals[n]) \in Nat
                                /\ sent[n] \in Nat /\ lost[n] \in Nat
        BY LenProperties DEF LedgerInv, TypeOK, QueueTypeOK
      <3>2. \A n \in Signals : sent'[n] + lost'[n] = sent[n] + lost[n] + Len(batch[n])
        BY <2>5, <3>1 DEF StatusPublishes, StatusFails, Plus
      <3>3. /\ batch' = EmptyQueue /\ signals' = signals
            /\ produced' = produced /\ process' = "running"
        BY <2>5 DEF StatusPublishes, StatusFails, StatusReturns, queueVars,
                    Running
      <3>4. SamplesAccountedFor'
        <4> SUFFICES ASSUME NEW n \in Signals
                     PROVE LET settled == sent'[n] + lost'[n] IN
                       /\ RanksFollow(batch'[n], settled)
                       /\ RanksFollow(signals'[n], settled + Len(batch'[n]))
                       /\ settled + Len(batch'[n]) + Len(signals'[n])
                              = produced'[n]
          BY DEF SamplesAccountedFor
        <4> DEFINE settled == sent'[n] + lost'[n]
        <4>1. /\ settled \in Nat
              /\ RanksFollow(signals[n], settled)
              /\ settled + Len(signals[n]) = produced[n]
          BY <3>1, <3>2 DEF SamplesAccountedFor, LedgerInv
        <4>2. /\ batch'[n] = <<>> /\ Len(batch'[n]) = 0
              /\ signals'[n] = signals[n]
              /\ produced'[n] = produced[n] /\ Len(signals[n]) \in Nat
          BY <3>1, <3>3 DEF EmptyQueue
        <4> HIDE DEF settled
        <4>3. settled + Len(batch'[n]) = settled
          BY <4>1, <4>2
        <4>4. QED
          BY <4>1, <4>2, <4>3 DEF settled, RanksFollow
      <3>5. QED
        BY <3>3, <3>4
    <2>6. ASSUME NEW how \in {"off", "killed"}, Dies(how)
          PROVE  SamplesAccountedFor' /\ NothingInHand'
      <3>1. \A n \in Signals : /\ Len(batch[n]) \in Nat /\ Len(signals[n]) \in Nat
                                /\ sent[n] \in Nat /\ lost[n] \in Nat
        BY LenProperties DEF LedgerInv, TypeOK, QueueTypeOK
      <3>2. \A n \in Signals : sent'[n] + lost'[n] =
                sent[n] + lost[n] + Len(batch[n]) + Len(signals[n])
        BY <2>6, <3>1 DEF Dies, Plus
      <3>3. /\ batch' = EmptyQueue /\ signals' = EmptyQueue
            /\ produced' = produced
        BY <2>6 DEF Dies
      <3>4. SamplesAccountedFor'
        <4> SUFFICES ASSUME NEW n \in Signals
                     PROVE LET settled == sent'[n] + lost'[n] IN
                       /\ RanksFollow(batch'[n], settled)
                       /\ RanksFollow(signals'[n], settled + Len(batch'[n]))
                       /\ settled + Len(batch'[n]) + Len(signals'[n])
                              = produced'[n]
          BY DEF SamplesAccountedFor
        <4> DEFINE settled == sent'[n] + lost'[n]
        <4>1. /\ settled \in Nat
              /\ settled = produced[n]
          BY <3>1, <3>2 DEF SamplesAccountedFor, LedgerInv
        <4>2. /\ batch'[n] = <<>> /\ Len(batch'[n]) = 0
              /\ signals'[n] = <<>> /\ Len(signals'[n]) = 0
              /\ produced'[n] = produced[n] /\ Len(signals[n]) \in Nat
          BY <3>1, <3>3 DEF EmptyQueue
        <4> HIDE DEF settled
        <4>3. settled + Len(batch'[n]) = settled
          BY <4>1, <4>2
        <4>4. QED
          BY <4>1, <4>2, <4>3 DEF settled, RanksFollow
      <3>5. QED
        BY <3>3, <3>4
    <2>7. CASE Restart
      BY <2>7 DEF Restart, Running, LedgerInv, SamplesAccountedFor
    <2>8. QED
      BY <2>1, <2>2, <2>3, <2>4, <2>5, <2>6, <2>7
         DEF Next, ObdStep, LocationStep, StatusStep, PowerLoss, MapRace, vars,
             ObdWakes, ObdSkips, ObdAsks, ObdCannotDecode, ObdFails, ObdStamps,
             LocGetsFix, LocLocks, Tick, queueVars, historyVars, runnerVars
  <1>3. QED
    BY <1>1, <1>2, TypeCorrect, PTL DEF Spec

\* SamplesAccountedFor on every instance: no sample is lost, repeated or
\* reordered by the three loops, only dropped with a failed payload or a crash.
THEOREM LedgerHolds == Spec => []SamplesAccountedFor
  BY LedgerInvHolds, PTL DEF LedgerInv

-----------------------------------------------------------------------------
\* While an answer is awaited, its request is one that was right to send:
\* nothing that happens meanwhile changes that.
AwaitDue == obdPc = "await" => OkToQuery(Request)

LEMMA AwaitDueHolds == Spec => []AwaitDue
  <1>1. Init => AwaitDue
    BY DEF Init, RunnerInit, AwaitDue
  <1>2. TypeOK /\ AwaitDue /\ [Next]_vars => AwaitDue'
    <2> SUFFICES ASSUME TypeOK, AwaitDue, [Next]_vars, obdPc' = "await"
                 PROVE  OkToQuery(Request)'
      BY DEF AwaitDue
    <2> USE DEF OkToQuery, GaveUp, Request
    <2>1. CASE UNCHANGED <<now, lastTimeChecked, failureCount, obdPc, obdIdx>>
      BY <2>1 DEF AwaitDue
    <2>2. CASE ObdAsks
      BY <2>2 DEF ObdAsks, queueVars
    <2>3. ASSUME NEW v \in Values, LocEnqueues(v) PROVE OkToQuery(Request)'
      <3>1. /\ obdPc = "await" /\ obdIdx \in DOMAIN Requests /\ obdIdx' = obdIdx
            /\ now' = now /\ failureCount' = failureCount
        BY <2>3 DEF LocEnqueues, TypeOK
      <3>2. Requests[obdIdx] \in Signals /\ LocationFields[locIdx] # Requests[obdIdx]
        BY <2>3, <3>1, NamesAreSignals DEF LocEnqueues, TypeOK
      <3>3. lastTimeChecked'[Requests[obdIdx]] = lastTimeChecked[Requests[obdIdx]]
        BY <2>3, <3>2 DEF LocEnqueues, Enqueue, TypeOK, QueueTypeOK
      <3>4. QED
        BY <3>1, <3>3 DEF AwaitDue
    <2>4. CASE Tick
      <3>1. /\ obdPc = "await" /\ obdIdx \in DOMAIN Requests
            /\ Requests[obdIdx] \in Signals
        BY <2>4, NamesAreSignals DEF Tick, runnerVars, TypeOK
      <3>2. /\ now' = now + 1 /\ lastTimeChecked' = lastTimeChecked
            /\ failureCount' = failureCount /\ obdIdx' = obdIdx
        BY <2>4 DEF Tick, runnerVars, queueVars
      <3>3. Interval[Requests[obdIdx]] \in Nat /\ now \in Nat
        BY <3>1, QueueAssumption DEF QueueAssumption, TypeOK, QueueTypeOK
      <3>4. lastTimeChecked[Requests[obdIdx]] \in Nat \cup {Never}
        BY <3>1 DEF TypeOK, QueueTypeOK
      <3>5. QED
        BY <3>1, <3>2, <3>3, <3>4 DEF AwaitDue
    <2>5. QED
      BY <2>1, <2>2, <2>3, <2>4
         DEF Next, ObdStep, LocationStep, StatusStep, PowerLoss, MapRace, vars,
             ObdWakes, ObdSkips, ObdSucceeds, ObdCannotDecode, ObdFails,
             ObdStamps, LocGetsFix, LocLocks, StatusComposes, StatusPublishes,
             StatusFails, StatusReturns, Dies, Restart, queueVars, historyVars,
             runnerVars
  <1>3. QED
    BY <1>1, <1>2, TypeCorrect, PTL DEF Spec

\* What one step can do to a PID: it is answered or fails only by the OBD
\* loop at that request, and its samples come only from there.
LEMMA PidSteps ==
    ASSUME TypeOK, [Next]_vars, boots' = boots, NEW n \in Pids
    PROVE  \/ /\ produced'[n] = produced[n]
              /\ failureCount'[n] = failureCount[n]
           \/ obdPc = "await" /\ Request = n
              /\ ((\E v \in Values : ObdSucceeds(v)) \/ ObdFails)
  <1> USE NamesAreSignals DEF TypeOK, QueueTypeOK
  <1>0. n \in Signals
    BY DEF Pids
  <1>1. CASE UNCHANGED <<produced, failureCount>>
    BY <1>1
  <1>2. CASE ObdAsks
    BY <1>2 DEF ObdAsks, queueVars
  <1>3. ASSUME NEW v \in Values, ObdSucceeds(v), Request # n
        PROVE  /\ produced'[n] = produced[n]
               /\ failureCount'[n] = failureCount[n]
    <2>1. Request \in Signals
      BY <1>3 DEF ObdSucceeds, Request
    <2>2. QED
      BY <1>0, <1>3, <2>1 DEF ObdSucceeds, Enqueue, ResetFailureCount
  <1>4. ASSUME ObdFails, Request # n
        PROVE  /\ produced'[n] = produced[n]
               /\ failureCount'[n] = failureCount[n]
    <2>1. Request \in Signals
      BY <1>4 DEF ObdFails, Request
    <2>2. QED
      BY <1>0, <1>4, <2>1 DEF ObdFails, IncrementFailureCount, historyVars
  <1>5. ASSUME NEW v \in Values, LocEnqueues(v)
        PROVE  /\ produced'[n] = produced[n]
               /\ failureCount'[n] = failureCount[n]
    <2>1. LocationFields[locIdx] \in Signals /\ LocationFields[locIdx] # n
      BY <1>5 DEF LocEnqueues
    <2>2. QED
      BY <1>0, <1>5, <2>1 DEF LocEnqueues, Enqueue, historyVars
  <1>6. CASE Restart
    BY <1>6 DEF Restart
  <1>7. ASSUME NEW v \in Values, ObdSucceeds(v) PROVE obdPc = "await"
    BY <1>7 DEF ObdSucceeds
  <1>8. ASSUME ObdFails PROVE obdPc = "await"
    BY <1>8 DEF ObdFails
  <1>9. QED
    BY <1>1, <1>2, <1>3, <1>4, <1>5, <1>6, <1>7, <1>8
       DEF Next, ObdStep, LocationStep, StatusStep, PowerLoss, MapRace, vars,
           ObdWakes, ObdSkips, ObdCannotDecode, ObdStamps, LocGetsFix, LocLocks,
           StatusComposes, StatusPublishes, StatusFails, StatusReturns, Dies,
           Tick, queueVars, historyVars, runnerVars

\* GivenUpStaysQuiet on every instance: once over the limit a PID is not
\* asked again in that boot, and no late answer of it gives a sample.
THEOREM QuietHolds == Spec => GivenUpStaysQuiet
  <1>1. TypeOK /\ AwaitDue /\ AwaitDue' /\ [Next]_vars
            => [\A n \in Pids : GaveUp(n) /\ boots' = boots =>
                   /\ obdPc' = "await" => Request' # n
                   /\ produced'[n] = produced[n]
                   /\ GaveUp(n)']_vars
    <2> SUFFICES ASSUME TypeOK, AwaitDue, AwaitDue', [Next]_vars, NEW n \in Pids,
                        GaveUp(n), boots' = boots
                 PROVE  /\ obdPc' = "await" => Request' # n
                        /\ produced'[n] = produced[n]
                        /\ GaveUp(n)'
      OBVIOUS
    <2>1. ~(obdPc = "await" /\ Request = n)
      BY DEF AwaitDue, OkToQuery
    <2>2. produced'[n] = produced[n] /\ GaveUp(n)'
      BY <2>1, PidSteps DEF GaveUp
    <2>3. obdPc' = "await" => Request' # n
      BY <2>2 DEF AwaitDue, OkToQuery
    <2>4. QED
      BY <2>2, <2>3
  <1>2. QED
    BY <1>1, TypeCorrect, AwaitDueHolds, PTL DEF Spec, GivenUpStaysQuiet

\* SampledOnlyWhenDue on every instance: the answer that arrives is queued
\* only if its PID is still due at that moment.
THEOREM DueHolds == Spec => SampledOnlyWhenDue
  <1>1. TypeOK /\ AwaitDue /\ [Next]_vars
            => [\A n \in Pids :
                   produced'[n] > produced[n] /\ lastTimeChecked[n] # Never =>
                       /\ now - lastTimeChecked[n] >= Interval[n]
                       /\ Interval[n] = 0 => failureCount[n] > 0]_vars
    <2> SUFFICES ASSUME TypeOK, AwaitDue, [Next]_vars, NEW n \in Pids,
                        produced'[n] > produced[n], lastTimeChecked[n] # Never
                 PROVE  /\ now - lastTimeChecked[n] >= Interval[n]
                        /\ Interval[n] = 0 => failureCount[n] > 0
      OBVIOUS
    <2>1. n \in Signals
      BY NamesAreSignals DEF Pids
    <2>2. produced[n] \in Nat /\ failureCount[n] \in Nat
      BY <2>1 DEF TypeOK, QueueTypeOK
    <2>3. boots' = boots
      <3>1. CASE Restart
        BY <2>2, <3>1 DEF Restart
      <3>2. QED
        BY <3>1 DEF Next, ObdStep, LocationStep, StatusStep, PowerLoss, MapRace,
             vars, ObdWakes, ObdSkips, ObdAsks, ObdSucceeds, ObdCannotDecode,
             ObdFails, ObdStamps, LocGetsFix, LocLocks, LocEnqueues,
             StatusComposes, StatusPublishes, StatusFails, StatusReturns, Dies,
             Tick
    <2>4. produced'[n] # produced[n]
      BY <2>2
    <2>5. obdPc = "await" /\ Request = n
      BY <2>3, <2>4, PidSteps
    <2>6. QED
      BY <2>2, <2>5 DEF AwaitDue, OkToQuery
  <1>2. QED
    BY <1>1, TypeCorrect, AwaitDueHolds, PTL DEF Spec, SampledOnlyWhenDue

-----------------------------------------------------------------------------
\* The pointers of the mailbox, for one signal: what the ledger says of them.
LEMMA PointersOf ==
    ASSUME LedgerInv, NEW n \in Signals
    PROVE  /\ Len(batch[n]) \in Nat /\ Len(signals[n]) \in Nat
           /\ sent[n] \in Nat /\ lost[n] \in Nat /\ produced[n] \in Nat
           /\ sent[n] + lost[n] + Len(batch[n]) + Len(signals[n]) = produced[n]
  <1>1. /\ batch[n] \in Seq(Sample) /\ signals[n] \in Seq(Sample)
        /\ sent[n] \in Nat /\ lost[n] \in Nat /\ produced[n] \in Nat
    BY DEF LedgerInv, TypeOK, QueueTypeOK
  <1>2. sent[n] + lost[n] + Len(batch[n]) + Len(signals[n]) = produced[n]
    BY DEF LedgerInv, SamplesAccountedFor
  <1> QED
    BY <1>1, <1>2, LenProperties

\* The pointers meet where nothing is in the status loop's hand, and where
\* nothing waits.
LEMMA EmptyHand ==
    ASSUME NEW s \in [Signals -> Nat], NEW l \in [Signals -> Nat]
    PROVE  [n \in Signals |-> s[n] + l[n] + Len(EmptyQueue[n])]
               = [n \in Signals |-> s[n] + l[n]]
  BY EmptyFollows

LEMMA NothingWaits ==
    ASSUME NEW s \in [Signals -> Nat], NEW l \in [Signals -> Nat],
           NEW p \in [Signals -> Nat], NEW b \in [Signals -> Seq(Sample)],
           \A n \in Signals :
               s[n] + l[n] + Len(b[n]) + Len(EmptyQueue[n]) = p[n]
    PROVE  [n \in Signals |-> s[n] + l[n] + Len(b[n])] = p
  <1>1. ASSUME NEW n \in Signals PROVE s[n] + l[n] + Len(b[n]) = p[n]
    <2>1. Len(EmptyQueue[n]) = 0 /\ Len(b[n]) \in Nat
      BY EmptyFollows, LenProperties
    <2> QED
      BY <2>1
  <1> QED
    BY <1>1

\* Queueing a sample posts one.
LEMMA EnqueuePosts ==
    ASSUME NEW n \in Signals, NEW v \in Values,
           Enqueue(n, v, FALSE), UNCHANGED <<sent, lost, batch>>
    PROVE  Mail!Next
  <1>1. produced' = [produced EXCEPT ![n] = @ + 1]
    BY DEF Enqueue
  <1>2. UNCHANGED <<TakenOut, Settled, sent>>
    BY DEF TakenOut, Settled
  <1>3. Mail!Post(n)
    BY <1>1, <1>2 DEF Mail!Post
  <1> QED
    BY <1>3 DEF Mail!Next

\* MailboxSpec on every instance: the loops around the queue implement the
\* mailbox.  That a payload takes everything that waits, and that the end of
\* the process settles all, is the ledger's count before and after the step.
THEOREM RunnerImplementsMailbox == Spec => MailboxSpec
  <1>1. Init => Mail!Init
    <2> SUFFICES ASSUME Init PROVE Mail!Init
      OBVIOUS
    <2>1. /\ produced = Zero /\ sent = Zero /\ lost = Zero /\ batch = EmptyQueue
      BY DEF Init, QueueInit, RunnerInit, Zero
    <2>2. \A n \in Signals : sent[n] = 0 /\ lost[n] = 0 /\ Len(batch[n]) = 0
      BY <2>1, EmptyFollows DEF Zero
    <2>3. TakenOut = [n \in Signals |-> 0] /\ Settled = [n \in Signals |-> 0]
      BY <2>2 DEF TakenOut, Settled
    <2> QED
      BY <2>1, <2>3 DEF Mail!Init, Mail!Zero, Zero
  <1>2. LedgerInv /\ LedgerInv' /\ [Next]_vars => [Mail!Next]_(Mail!mailVars)
    <2> SUFFICES ASSUME LedgerInv, LedgerInv', [Next]_vars
                 PROVE  Mail!Next \/ UNCHANGED Mail!mailVars
      OBVIOUS
    <2>1. /\ sent' \in [Signals -> Nat] /\ lost' \in [Signals -> Nat]
          /\ produced' \in [Signals -> Nat]
          /\ batch' \in [Signals -> Seq(Sample)]
          /\ \A n \in Signals : sent'[n] + lost'[n] + Len(batch'[n])
                                     + Len(signals'[n]) = produced'[n]
      BY DEF LedgerInv, TypeOK, QueueTypeOK, SamplesAccountedFor
    <2>2. CASE UNCHANGED <<produced, batch, sent, lost>>
      BY <2>2 DEF Mail!mailVars, TakenOut, Settled
    <2>3. ASSUME NEW v \in Values, ObdSucceeds(v) PROVE Mail!Next
      <3>1. Request \in Signals
        BY <2>3, NamesAreSignals DEF ObdSucceeds, Request, LedgerInv, TypeOK
      <3> QED
        BY <2>3, <3>1, EnqueuePosts DEF ObdSucceeds, historyVars
    <2>4. ASSUME NEW v \in Values, LocEnqueues(v) PROVE Mail!Next
      <3>1. LocationFields[locIdx] \in Signals
        BY <2>4, NamesAreSignals DEF LocEnqueues, LedgerInv, TypeOK
      <3> QED
        BY <2>4, <3>1, EnqueuePosts DEF LocEnqueues, historyVars
    <2>5. CASE StatusComposes
      <3>1. /\ statusPc = "sleep" /\ signals' = EmptyQueue
            /\ UNCHANGED <<produced, sent, lost>>
        BY <2>5 DEF StatusComposes, Dequeue, historyVars
      <3>2. batch = EmptyQueue
        BY <3>1 DEF LedgerInv, NothingInHand
      <3>3. TakenOut = Settled
        BY <3>2, EmptyHand DEF TakenOut, Settled, LedgerInv, TypeOK
      <3>4. TakenOut' = produced'
        <4>1. \A n \in Signals : sent'[n] + lost'[n] + Len(batch'[n])
                                     + Len(EmptyQueue[n]) = produced'[n]
          BY <2>1, <3>1
        <4>2. [n \in Signals |-> sent'[n] + lost'[n] + Len(batch'[n])] = produced'
          BY ONLY <2>1, <4>1, NothingWaits
        <4> QED
          BY <4>2 DEF TakenOut
      <3>5. Settled' = Settled
        BY <3>1 DEF Settled
      <3>6. Mail!Take
        BY <3>1, <3>3, <3>4, <3>5 DEF Mail!Take
      <3> QED
        BY <3>6 DEF Mail!Next
    <2>6. CASE StatusPublishes \/ StatusFails
      <3>1. /\ batch' = EmptyQueue /\ produced' = produced
            /\ \/ sent' = Plus(sent, batch) /\ lost' = lost
               \/ lost' = Plus(lost, batch) /\ sent' = sent
        BY <2>6 DEF StatusPublishes, StatusFails, StatusReturns, queueVars
      <3>2. \A n \in Signals : sent'[n] + lost'[n] = sent[n] + lost[n] + Len(batch[n])
        BY <3>1, PointersOf DEF Plus
      <3>3. Settled' = TakenOut
        BY <3>2 DEF Settled, TakenOut
      <3>4. TakenOut' = TakenOut
        <4>1. \A n \in Signals : Len(batch'[n]) = 0
          BY <3>1, EmptyFollows
        <4>2. \A n \in Signals : sent'[n] + lost'[n] + Len(batch'[n])
                                     = sent[n] + lost[n] + Len(batch[n])
          BY <3>2, <4>1, PointersOf
        <4> QED
          BY <4>2 DEF TakenOut
      <3>5. CASE sent' = sent
        <4>1. Mail!Drop
          BY <3>1, <3>3, <3>4, <3>5 DEF Mail!Drop
        <4> QED
          BY <4>1 DEF Mail!Next
      <3>6. CASE sent' = Plus(sent, batch)
        <4>1. \A n \in Signals : sent[n] + Len(batch[n])
                                     = sent[n] + (TakenOut[n] - Settled[n])
          BY PointersOf DEF TakenOut, Settled
        <4>2. sent' = [n \in Signals |-> sent[n] + (TakenOut[n] - Settled[n])]
          BY <3>6, <4>1 DEF Plus
        <4>3. Mail!Publish
          BY <3>1, <3>3, <3>4, <4>2 DEF Mail!Publish
        <4> QED
          BY <4>3 DEF Mail!Next
      <3> QED
        BY <3>1, <3>5, <3>6
    <2>7. ASSUME NEW how \in {"off", "killed"}, Dies(how) PROVE Mail!Next
      <3>1. /\ batch' = EmptyQueue /\ signals' = EmptyQueue
            /\ UNCHANGED <<produced, sent>>
        BY <2>7 DEF Dies
      <3>2. TakenOut' = produced'
        <4>1. \A n \in Signals : sent'[n] + lost'[n] + Len(batch'[n])
                                     + Len(EmptyQueue[n]) = produced'[n]
          BY <2>1, <3>1
        <4>2. [n \in Signals |-> sent'[n] + lost'[n] + Len(batch'[n])] = produced'
          BY ONLY <2>1, <4>1, NothingWaits
        <4> QED
          BY <4>2 DEF TakenOut
      <3>3. TakenOut' = Settled'
        <4>1. [n \in Signals |-> sent'[n] + lost'[n] + Len(EmptyQueue[n])]
                  = [n \in Signals |-> sent'[n] + lost'[n]]
          BY ONLY <2>1, EmptyHand
        <4> QED
          BY <3>1, <4>1 DEF TakenOut, Settled
      <3>4. Mail!Lose
        BY <3>1, <3>2, <3>3 DEF Mail!Lose
      <3> QED
        BY <3>4 DEF Mail!Next
    <2>8. CASE Restart
      <3>1. batch = EmptyQueue
        BY <2>8 DEF Restart, Running, LedgerInv, NothingInHand
      <3>2. UNCHANGED <<produced, batch, sent, lost>>
        BY <2>8, <3>1 DEF Restart
      <3> QED
        BY <2>2, <3>2
    <2> QED
      BY <2>2, <2>3, <2>4, <2>5, <2>6, <2>7, <2>8
         DEF Next, ObdStep, LocationStep, StatusStep, PowerLoss, MapRace, vars,
             ObdWakes, ObdSkips, ObdAsks, ObdCannotDecode, ObdFails, ObdStamps,
             LocGetsFix, LocLocks, Tick, queueVars, historyVars, runnerVars
  <1> QED
    BY <1>1, <1>2, LedgerInvHolds, PTL DEF Spec, MailboxSpec, Mail!Spec
=============================================================================
