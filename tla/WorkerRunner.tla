---------------------------- MODULE WorkerRunner ----------------------------
(***************************************************************************)
(* The goroutines of workerRunner.Run (internal/worker_runner.go) around   *)
(* the SignalsQueue, on a device that asks the vehicle through the AutoPi  *)
(* API (ShouldNativeScanLogger() is false):                                *)
(*   - the OBD loop walks the PID requests of the template every 2 s, one  *)
(*     request at a time, and queues what comes back;                      *)
(*   - the location loop queues the fields of a GPS fix one by one;        *)
(*   - the status loop takes all samples out and sends them as one payload.*)
(* The process may lose power at any moment, and all of this is memory.    *)
(*                                                                         *)
(* The two maps written outside the queue's mutex matter: queryOBDWithAP   *)
(* writes lastTimeChecked with no lock, so when the location loop is       *)
(* inside Enqueue at that moment the Go runtime may kill the process with  *)
(* "concurrent map writes".                                                *)
(***************************************************************************)
EXTENDS SignalsQueue

CONSTANTS
    Requests,        \* wr.pids.Requests, the names in template order
    LocationFields,  \* the names startLocationQuery queues, in its order
    MaxTime,         \* bound: ticks of the clock, one tick being 2 s
    MaxFixes,        \* bound: GPS fixes
    MaxBoots         \* bound: starts of the process

Pids == {Requests[i] : i \in DOMAIN Requests}

ASSUME RunnerAssumption ==
    /\ Requests \in Seq(Signals)
    /\ LocationFields \in Seq(Signals)
    /\ \A i \in DOMAIN LocationFields : LocationFields[i] \notin Pids
    /\ MaxTime \in Nat /\ MaxFixes \in Nat /\ MaxBoots \in Nat

VARIABLES
    process,     \* "running", "off" (power lost) or "killed" (map race)
    boots,       \* history: starts of the process
    obdPc,       \* the OBD loop: "sleep", "scan", "await", "stamp"
    obdIdx,      \* the request it is at
    obdWake,     \* the time its sleep ends
    locIdx,      \* the location field to queue next, 0 between two fixes
    mutex,       \* the queue's mutex: "free", or "location" while that loop
                 \* is inside Enqueue; others' critical sections are one step
    batch,       \* what the status loop dequeued and has not yet sent
    statusPc,    \* the status loop: "sleep", "send" (SendDeviceStatusData)
    sent, lost   \* history: samples published, samples dropped

runnerVars == <<obdPc, obdIdx, obdWake, locIdx, mutex, batch, statusPc>>
historyVars == <<sent, lost>>
vars == <<now, queueVars, process, boots, runnerVars, historyVars>>

TypeOK ==
    /\ QueueTypeOK
    /\ process \in {"running", "off", "killed"}
    /\ boots \in Nat
    /\ obdPc \in {"sleep", "scan", "await", "stamp"}
    /\ obdIdx \in 1..Len(Requests) + 1
    /\ obdPc \in {"await", "stamp"} => obdIdx \in DOMAIN Requests
    /\ obdWake \in Nat
    /\ locIdx \in 0..Len(LocationFields)
    /\ mutex \in {"free", "location"}
    /\ mutex = "location" => locIdx \in DOMAIN LocationFields
    /\ batch \in [Signals -> Seq(Sample)]
    /\ statusPc \in {"sleep", "send"}
    /\ sent \in [Signals -> Nat]
    /\ lost \in [Signals -> Nat]

Zero == [n \in Signals |-> 0]

\* Everything Run and NewWorkerRunner set up in a new process.
RunnerInit ==
    /\ obdPc = "sleep" /\ obdIdx = 1 /\ obdWake = 0
    /\ locIdx = 0 /\ mutex = "free"
    /\ batch = EmptyQueue /\ statusPc = "sleep"

Init ==
    /\ QueueInit
    /\ RunnerInit
    /\ process = "running" /\ boots = 1
    /\ sent = Zero /\ lost = Zero

Running == process = "running"

Free == mutex = "free"

Request == Requests[obdIdx]
-----------------------------------------------------------------------------
(* The OBD loop. *)

\* The loop wakes up and the voltage allows a query (isOkToQueryOBD); when it
\* does not, the loop just sleeps again.
ObdWakes(voltageOk) ==
    /\ Running /\ obdPc = "sleep" /\ now >= obdWake
    /\ IF voltageOk
       THEN obdPc' = "scan" /\ obdIdx' = 1 /\ UNCHANGED obdWake
       ELSE obdWake' = now + 1 /\ UNCHANGED <<obdPc, obdIdx>>
    /\ UNCHANGED <<now, queueVars, process, boots, locIdx, mutex, batch,
                   statusPc, historyVars>>

\* One turn of queryOBD's loop that skips the request, or the end of the list.
ObdSkips ==
    /\ Running /\ obdPc = "scan" /\ Free
    /\ IF obdIdx \in DOMAIN Requests
       THEN /\ ~OkToQuery(Request)
            /\ obdIdx' = obdIdx + 1
            /\ UNCHANGED <<obdPc, obdWake>>
       ELSE /\ obdPc' = "sleep" /\ obdWake' = now + 1
            /\ UNCHANGED obdIdx
    /\ UNCHANGED <<now, queueVars, process, boots, locIdx, mutex, batch,
                   statusPc, historyVars>>

\* One turn that sends the request to the vehicle (RequestPIDRaw).
ObdAsks ==
    /\ Running /\ obdPc = "scan" /\ Free
    /\ obdIdx \in DOMAIN Requests
    /\ OkToQuery(Request)
    /\ obdPc' = "await"
    /\ UNCHANGED <<now, queueVars, process, boots, obdIdx, obdWake, locIdx,
                   mutex, batch, statusPc, historyVars>>

\* The request succeeded and was decoded: failureCount is reset and the value
\* queued.  A PID's LimitFrequency is never set.
ObdSucceeds(v) ==
    /\ Running /\ obdPc = "await" /\ Free
    /\ ResetFailureCount(Request)
    /\ Enqueue(Request, v, FALSE)
    /\ obdPc' = "scan" /\ obdIdx' = obdIdx + 1
    /\ UNCHANGED <<now, process, boots, obdWake, locIdx, mutex, batch,
                   statusPc, historyVars>>

\* The request succeeded, but the formula cannot convert the answer or is of
\* no known type: queryOBDWithAP returns and records nothing.
ObdCannotDecode ==
    /\ Running /\ obdPc = "await"
    /\ obdPc' = "scan" /\ obdIdx' = obdIdx + 1
    /\ UNCHANGED <<now, queueVars, process, boots, obdWake, locIdx, mutex,
                   batch, statusPc, historyVars>>

\* The request failed: the failure is counted under the mutex ...
ObdFails ==
    /\ Running /\ obdPc = "await" /\ Free
    /\ IncrementFailureCount(Request)
    /\ obdPc' = "stamp"
    /\ UNCHANGED <<now, signals, lastTimeChecked, produced, process, boots,
                   obdIdx, obdWake, locIdx, mutex, batch, statusPc,
                   historyVars>>

\* ... and the time of the attempt is written without it.
ObdStamps ==
    /\ Running /\ obdPc = "stamp"
    /\ lastTimeChecked' = [lastTimeChecked EXCEPT ![Request] = now]
    /\ obdPc' = "scan" /\ obdIdx' = obdIdx + 1
    /\ UNCHANGED <<now, signals, failureCount, produced, process, boots,
                   obdWake, locIdx, mutex, batch, statusPc, historyVars>>
-----------------------------------------------------------------------------
(* The location loop. *)

\* queryLocation returned a fix.
LocGetsFix ==
    /\ Running /\ locIdx = 0 /\ LocationFields # <<>>
    /\ produced[LocationFields[1]] < MaxFixes
    /\ locIdx' = 1
    /\ UNCHANGED <<now, queueVars, process, boots, obdPc, obdIdx, obdWake,
                   mutex, batch, statusPc, historyVars>>

\* Enqueue takes the mutex ...
LocLocks ==
    /\ Running /\ locIdx > 0 /\ Free
    /\ mutex' = "location"
    /\ UNCHANGED <<now, queueVars, process, boots, obdPc, obdIdx, obdWake,
                   locIdx, batch, statusPc, historyVars>>

\* Variant: the mutex is not released.
LocEnqueuesLocked(v) ==
    /\ Running /\ mutex = "location" /\ locIdx > 0
    /\ Enqueue(LocationFields[locIdx], v, FALSE)
    /\ locIdx' = 0
    /\ UNCHANGED <<now, failureCount, process, boots, obdPc, obdIdx, obdWake,
                   mutex, batch, statusPc, historyVars>>

\* ... and writes the maps.  After the last field the loop sleeps.
LocEnqueues(v) ==
    /\ Running /\ mutex = "location"
    /\ Enqueue(LocationFields[locIdx], v, FALSE)
    /\ mutex' = "free"
    /\ locIdx' = IF locIdx = Len(LocationFields) THEN 0 ELSE locIdx + 1
    /\ UNCHANGED <<now, failureCount, process, boots, obdPc, obdIdx, obdWake,
                   batch, statusPc, historyVars>>
-----------------------------------------------------------------------------
(* The status loop. *)

\* Variant: the fields of the location stay behind for the next payload.
StatusComposesPids ==
    /\ Running /\ statusPc = "sleep" /\ Free
    /\ batch' = [n \in Signals |-> IF n \in Pids THEN signals[n] ELSE <<>>]
    /\ signals' = [n \in Signals |-> IF n \in Pids THEN <<>> ELSE signals[n]]
    /\ statusPc' = "send"
    /\ UNCHANGED <<now, lastTimeChecked, failureCount, produced, process,
                   boots, obdPc, obdIdx, obdWake, locIdx, mutex,
                   historyVars>>

\* composeDeviceEvent.  The payload always has batteryVoltage, so it is sent
\* whatever the queue held.
StatusComposes ==
    /\ Running /\ statusPc = "sleep" /\ Free
    /\ Dequeue(batch')
    /\ statusPc' = "send"
    /\ UNCHANGED <<now, lastTimeChecked, failureCount, produced, process,
                   boots, obdPc, obdIdx, obdWake, locIdx, mutex,
                   historyVars>>

Plus(count, data) == [n \in Signals |-> count[n] + Len(data[n])]

StatusReturns ==
    /\ Running /\ statusPc = "send"
    /\ batch' = EmptyQueue
    /\ statusPc' = "sleep"
    /\ UNCHANGED <<now, queueVars, process, boots, obdPc, obdIdx, obdWake,
                   locIdx, mutex>>

\* SendDeviceStatusData returns without an error.
StatusPublishes ==
    StatusReturns /\ sent' = Plus(sent, batch) /\ UNCHANGED lost

\* It returns an error, and the samples are not put back.
StatusFails ==
    StatusReturns /\ lost' = Plus(lost, batch) /\ UNCHANGED sent
-----------------------------------------------------------------------------
(* The process. *)

\* The process ends: the queue and the payload being sent are gone.
Dies(how) ==
    /\ Running
    /\ process' = how
    /\ lost' = Plus(Plus(lost, batch), signals)
    /\ signals' = EmptyQueue
    /\ batch' = EmptyQueue
    /\ UNCHANGED <<now, lastTimeChecked, failureCount, produced, boots, obdPc,
                   obdIdx, obdWake, locIdx, mutex, statusPc, sent>>

PowerLoss == Dies("off")

\* Both goroutines are writing lastTimeChecked and the runtime notices.
MapRace == obdPc = "stamp" /\ mutex = "location" /\ Dies("killed")

\* systemd starts the process again.
Restart ==
    /\ ~Running /\ boots < MaxBoots
    /\ process' = "running" /\ boots' = boots + 1
    /\ signals' = EmptyQueue
    /\ lastTimeChecked' = [n \in Signals |-> Never]
    /\ failureCount' = Zero
    /\ obdPc' = "sleep" /\ obdIdx' = 1 /\ obdWake' = now
    /\ locIdx' = 0 /\ mutex' = "free"
    /\ batch' = EmptyQueue /\ statusPc' = "sleep"
    /\ UNCHANGED <<now, produced, sent, lost>>

Tick ==
    /\ now < MaxTime
    /\ now' = now + 1
    /\ UNCHANGED <<queueVars, process, boots, runnerVars, historyVars>>
-----------------------------------------------------------------------------
ObdStep ==
    \/ \E voltageOk \in BOOLEAN : ObdWakes(voltageOk)
    \/ ObdSkips \/ ObdAsks
    \/ \E v \in Values : ObdSucceeds(v)
    \/ ObdCannotDecode \/ ObdFails \/ ObdStamps

LocationStep ==
    \/ LocGetsFix \/ LocLocks
    \/ \E v \in Values : LocEnqueues(v)

StatusStep ==
    StatusComposes \/ StatusPublishes \/ StatusFails

Next ==
    \/ ObdStep \/ LocationStep \/ StatusStep
    \/ PowerLoss \/ MapRace \/ Restart \/ Tick

Spec == Init /\ [][Next]_vars

\* Goroutines that can run are scheduled, and a call to the AutoPi API
\* returns.  The GPS, the clock and the power supply owe nothing.
Fairness ==
    /\ WF_vars(ObdSkips) /\ WF_vars(ObdAsks) /\ WF_vars(ObdStamps)
    /\ WF_vars(\E v \in Values : ObdSucceeds(v) \/ ObdFails \/ ObdCannotDecode)
    /\ WF_vars(\E v \in Values : LocEnqueues(v))
    /\ SF_vars(StatusComposes)
    /\ WF_vars(StatusPublishes \/ StatusFails)

FairSpec == Spec /\ Fairness
-----------------------------------------------------------------------------
(* Properties. *)

\* `data` holds consecutive samples of a signal, the first of rank k + 1.
RanksFollow(data, k) == \A i \in DOMAIN data : data[i].rank = k + i

\* Every sample ever queued is published, dropped with a payload or a crash,
\* or still waiting, and those that wait are the newest ones, in the order
\* they were queued, the payload being sent before the queue: the status
\* loop, the OBD loop and the location loop together neither lose, repeat
\* nor reorder a sample (Enqueue, Dequeue and composeDeviceEvent).
SamplesAccountedFor ==
    \A n \in Signals :
        LET settled == sent[n] + lost[n] IN
        /\ RanksFollow(batch[n], settled)
        /\ RanksFollow(signals[n], settled + Len(batch[n]))
        /\ settled + Len(batch[n]) + Len(signals[n]) = produced[n]

\* The samples of each signal the status loop has taken out, and those it no
\* longer holds.
TakenOut == [n \in Signals |-> sent[n] + lost[n] + Len(batch[n])]
Settled == [n \in Signals |-> sent[n] + lost[n]]

Mail == INSTANCE Mailbox WITH
    posted <- produced, taken <- TakenOut, settled <- Settled,
    published <- sent

\* The loops around the queue implement the mailbox: a payload holds whatever
\* was queued of every signal at one instant, none is composed while another
\* is being sent, and it is published whole or lost whole (composeDeviceEvent
\* and the status loop of Run against the loops that call Enqueue).
MailboxSpec == Mail!Spec

\* A PID that failed more than maxPidFailures times is left alone for the
\* rest of the boot: not asked again, and no sample of it appears, whatever
\* answer was under way when the limit was passed (queryOBD).
GivenUpStaysQuiet ==
    [][\A n \in Pids : GaveUp(n) /\ boots' = boots =>
           /\ obdPc' = "await" => Request' # n
           /\ produced'[n] = produced[n]
           /\ GaveUp(n)']_vars

\* When a sample of a PID is queued, its interval has passed since the time
\* last recorded for it, and a PID with interval 0 is queued once per boot
\* unless its last attempt failed (queryOBD's tests against the answer that
\* arrives later).
SampledOnlyWhenDue ==
    [][\A n \in Pids :
           produced'[n] > produced[n] /\ lastTimeChecked[n] # Never =>
               /\ now - lastTimeChecked[n] >= Interval[n]
               /\ Interval[n] = 0 => failureCount[n] > 0]_vars

\* The queue is emptied again and again, also by the end of the process: a
\* sample does not wait forever behind the goroutines that share the mutex
\* (composeDeviceEvent of the status loop).
QueueDrains == signals # EmptyQueue ~> signals = EmptyQueue

\* A walk over the template comes to its end, so the loop checks the voltage
\* again (the OBD loop of Run).
ScanEnds == obdPc = "scan" ~> (obdPc = "sleep" \/ ~Running)
=============================================================================
