---------------------------- MODULE SignalsQueue ----------------------------
(***************************************************************************)
(* The queue of vehicle signals shared by the goroutines of the worker     *)
(* runner (type SignalsQueue in internal/worker_runner.go).  The OBD loop, *)
(* the location loop and the CAN listener put samples in; the status loop  *)
(* takes everything out and sends it.  A sample carries the rank it has    *)
(* among all samples of its signal, so that what happens to each of them   *)
(* can be followed; the code has no such number.                           *)
(*                                                                         *)
(* The module gives the state and the operations; WorkerRunner gives the   *)
(* goroutines that call them.                                              *)
(***************************************************************************)
EXTENDS Naturals, Sequences

CONSTANTS
    Signals,         \* the names of all signals that can be queued
    Values,          \* the values a signal can take
    Interval,        \* PIDRequest.IntervalSeconds, in ticks of the clock
    MaxPidFailures,  \* maxPidFailures
    Never            \* an absent key of lastTimeChecked

ASSUME QueueAssumption ==
    /\ Values # {}
    /\ Interval \in [Signals -> Nat]
    /\ MaxPidFailures \in Nat
    /\ Never \notin Nat

VARIABLES
    now,              \* time.Now(), in ticks
    signals,          \* SignalsQueue.signals; an absent key is an empty queue
    lastTimeChecked,  \* SignalsQueue.lastTimeChecked
    failureCount,     \* SignalsQueue.failureCount; an absent key reads as 0
    produced          \* history: how many samples of a signal were ever queued

queueVars == <<signals, lastTimeChecked, failureCount, produced>>

Sample == [rank : Nat \ {0}, value : Values]

EmptyQueue == [n \in Signals |-> <<>>]

QueueTypeOK ==
    /\ now \in Nat
    /\ signals \in [Signals -> Seq(Sample)]
    /\ lastTimeChecked \in [Signals -> Nat \cup {Never}]
    /\ failureCount \in [Signals -> Nat]
    /\ produced \in [Signals -> Nat]

QueueInit ==
    /\ now = 0
    /\ signals = EmptyQueue
    /\ lastTimeChecked = [n \in Signals |-> Never]
    /\ failureCount = [n \in Signals |-> 0]
    /\ produced = [n \in Signals |-> 0]

Queued(n, v) == \E i \in DOMAIN signals[n] : signals[n][i].value = v

\* Variant: LimitFrequency is not looked at.
EnqueueAll(n, v, limitFrequency) ==
    /\ produced' = [produced EXCEPT ![n] = @ + 1]
    /\ signals' = [signals EXCEPT
          ![n] = Append(@, [rank |-> produced[n] + 1, value |-> v])]
    /\ lastTimeChecked' = [lastTimeChecked EXCEPT ![n] = now]

\* Enqueue.  A signal with LimitFrequency is dropped, and its time is not
\* renewed, while an equal value is still in the queue.
Enqueue(n, v, limitFrequency) ==
    IF limitFrequency /\ Queued(n, v)
    THEN UNCHANGED <<signals, lastTimeChecked, produced>>
    ELSE /\ produced' = [produced EXCEPT ![n] = @ + 1]
         /\ signals' = [signals EXCEPT
               ![n] = Append(@, [rank |-> produced[n] + 1, value |-> v])]
         /\ lastTimeChecked' = [lastTimeChecked EXCEPT ![n] = now]

\* Variant: the samples stay in the queue as well.
DequeueKeeps(data) == data = signals /\ UNCHANGED signals

\* Dequeue, as an action that leaves every sample in the caller's `data`.
Dequeue(data) ==
    /\ data = signals
    /\ signals' = EmptyQueue

IncrementFailureCount(n) ==
    failureCount' = [failureCount EXCEPT ![n] = @ + 1]

ResetFailureCount(n) ==
    failureCount' = [failureCount EXCEPT ![n] = 0]

GaveUp(n) == failureCount[n] > MaxPidFailures

\* Variant: the failures are not looked at.
OkToQueryFailing(n) ==
    lastTimeChecked[n] # Never =>
        /\ ~(Interval[n] = 0 /\ failureCount[n] = 0)
        /\ now - lastTimeChecked[n] >= Interval[n]

\* Variant: an interval of 0 is an interval like any other.
OkToQueryAgain(n) ==
    /\ lastTimeChecked[n] # Never => now - lastTimeChecked[n] >= Interval[n]
    /\ ~GaveUp(n)

\* The tests at the head of queryOBD's loop, for one request: an interval of
\* 0 is asked for again only while its last attempt failed.
OkToQuery(n) ==
    /\ lastTimeChecked[n] # Never =>
          /\ ~(Interval[n] = 0 /\ failureCount[n] = 0)
          /\ now - lastTimeChecked[n] >= Interval[n]
    /\ ~GaveUp(n)
=============================================================================
