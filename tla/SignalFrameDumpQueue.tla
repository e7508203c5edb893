------------------------ MODULE SignalFrameDumpQueue ------------------------
(***************************************************************************)
(* The CAN frame dumps of PIDs with a Python formula (type                 *)
(* SignalFrameDumpQueue in internal/signal_frame_dump_q.go).  The OBD loop *)
(* captures the answers to the first requests of such a PID instead of     *)
(* querying it; a SenderWorker takes the frames out, sends them once and   *)
(* records on disk that the job is done.  queryOBD starts one more         *)
(* SenderWorker each time it runs, so several of them race.                *)
(***************************************************************************)
EXTENDS Naturals, FiniteSets

CONSTANTS
    NumPids,    \* the Python PIDs of the template are 1..NumPids, in order
    MaxCycles,  \* bound: runs of queryOBD in one boot, each with a worker
    MaxLoops,   \* turns after which a worker declares the job done (30)
    MaxBoots    \* bound: starts of the process

ASSUME DumpAssumption ==
    /\ NumPids \in Nat /\ MaxLoops \in Nat
    /\ MaxCycles \in Nat /\ MaxBoots \in Nat

Pids == 1..NumPids

Workers == 1..MaxCycles

maxCanDumpFrames == 2

VARIABLES
    signalFrames,  \* how many frames of each PID are queued
    jobDone,       \* "yes" or "no"
    dumpInfo,      \* CANDumpInfo on disk: "recent", or "none" when absent or
                   \* older than 31 days
    obdPc,         \* the OBD loop: "sleep", "scan", "capture"
    obdIdx,        \* the PID it is at
    cycles,        \* runs of queryOBD in this boot
    workerPc,      \* "none", "loop", "dequeue", "send", "mark", "write",
                   \* "sleep", "ended"
    loopCount,     \* of each worker
    data,          \* the frames a worker has dequeued
    captured,      \* history: frames captured in this boot
    sent, lost,    \* history: frames published, not published
    boots          \* history: starts of the process

obdVars == <<obdPc, obdIdx, cycles, captured>>
workerVars == <<workerPc, loopCount, data>>
historyVars == <<sent, lost>>
vars == <<signalFrames, jobDone, dumpInfo, obdVars, workerVars, historyVars,
          boots>>

TypeOK ==
    /\ signalFrames \in [Pids -> Nat]
    /\ jobDone \in {"yes", "no"}
    /\ dumpInfo \in {"recent", "none"}
    /\ obdPc \in {"sleep", "scan", "capture"}
    /\ obdIdx \in 1..NumPids + 1
    /\ cycles \in 0..MaxCycles
    /\ workerPc \in [Workers -> {"none", "loop", "dequeue", "send", "mark",
                                 "write", "sleep", "ended"}]
    /\ loopCount \in [Workers -> 0..MaxLoops + 1]
    /\ data \in [Workers -> [Pids -> Nat]]
    /\ captured \in [Pids -> Nat]
    /\ sent \in [Pids -> Nat] /\ lost \in [Pids -> Nat]
    /\ boots \in Nat

NoFrames == [p \in Pids |-> 0]

\* determineJobDone
determineJobDone == IF dumpInfo = "recent" THEN "yes" ELSE "no"

Init ==
    /\ signalFrames = NoFrames
    /\ dumpInfo = "none" /\ jobDone = determineJobDone
    /\ obdPc = "sleep" /\ obdIdx = 1 /\ cycles = 0
    /\ workerPc = [w \in Workers |-> "none"]
    /\ loopCount = [w \in Workers |-> 0]
    /\ data = [w \in Workers |-> NoFrames]
    /\ captured = NoFrames /\ sent = NoFrames /\ lost = NoFrames
    /\ boots = 1

\* Variant: one frame too many.
LooseWantMore(p) == signalFrames[p] <= maxCanDumpFrames

wantMoreCanFrameDump(p) == signalFrames[p] < maxCanDumpFrames

ShouldCaptureReq(p) == jobDone = "no" /\ wantMoreCanFrameDump(p)
-----------------------------------------------------------------------------
(* The OBD loop, as far as Python PIDs go. *)

\* queryOBD starts, and starts a SenderWorker.
queryOBD ==
    /\ obdPc = "sleep" /\ cycles < MaxCycles
    /\ cycles' = cycles + 1
    /\ workerPc' = [workerPc EXCEPT ![cycles + 1] = "loop"]
    /\ obdPc' = "scan" /\ obdIdx' = 1
    /\ UNCHANGED <<signalFrames, jobDone, dumpInfo, loopCount, data, captured,
                   historyVars, boots>>

\* The request is not due (SignalsQueue), or is queried without a capture.
Skips ==
    /\ obdPc = "scan" /\ obdIdx \in Pids
    /\ obdIdx' = obdIdx + 1
    /\ UNCHANGED <<signalFrames, jobDone, dumpInfo, obdPc, cycles, captured,
                   workerVars, historyVars, boots>>

\* queryPIDAndCaptureDump asks the vehicle twice, with a second in between;
\* a failure is captured too.
StartsCapture ==
    /\ obdPc = "scan" /\ obdIdx \in Pids
    /\ ShouldCaptureReq(obdIdx)
    /\ obdPc' = "capture"
    /\ UNCHANGED <<signalFrames, jobDone, dumpInfo, obdIdx, cycles, captured,
                   workerVars, historyVars, boots>>

\* Enqueue
Enqueue ==
    /\ obdPc = "capture"
    /\ signalFrames' = [signalFrames EXCEPT ![obdIdx] = @ + 1]
    /\ captured' = [captured EXCEPT ![obdIdx] = @ + 1]
    /\ obdPc' = "scan" /\ obdIdx' = obdIdx + 1
    /\ UNCHANGED <<jobDone, dumpInfo, cycles, workerVars, historyVars, boots>>

EndsScan ==
    /\ obdPc = "scan" /\ obdIdx = NumPids + 1
    /\ obdPc' = "sleep"
    /\ UNCHANGED <<signalFrames, jobDone, dumpInfo, obdIdx, cycles, captured,
                   workerVars, historyVars, boots>>
-----------------------------------------------------------------------------
(* SenderWorker.  lastEnqueued is always before the time compared with it,  *)
(* so a worker that finds a frame sends at once.                            *)

Goes(w, from, to) == workerPc[w] = from /\ workerPc' = [workerPc EXCEPT ![w] = to]

Ends(w) ==
    /\ Goes(w, "loop", "ended") /\ jobDone = "yes"
    /\ UNCHANGED <<signalFrames, jobDone, dumpInfo, obdVars, loopCount, data,
                   historyVars, boots>>

SeesFrames(w) ==
    /\ Goes(w, "loop", "dequeue")
    /\ jobDone = "no" /\ signalFrames # NoFrames
    /\ UNCHANGED <<signalFrames, jobDone, dumpInfo, obdVars, loopCount, data,
                   historyVars, boots>>

SeesNothing(w) ==
    /\ Goes(w, "loop", "sleep")
    /\ jobDone = "no" /\ signalFrames = NoFrames
    /\ UNCHANGED <<signalFrames, jobDone, dumpInfo, obdVars, loopCount, data,
                   historyVars, boots>>

\* Variant: the map is not emptied.
DequeueKeeps(w) ==
    /\ Goes(w, "dequeue", "send")
    /\ data' = [data EXCEPT ![w] = signalFrames]
    /\ UNCHANGED <<signalFrames, jobDone, dumpInfo, obdVars, loopCount,
                   historyVars, boots>>

Dequeue(w) ==
    /\ Goes(w, "dequeue", "send")
    /\ data' = [data EXCEPT ![w] = signalFrames]
    /\ signalFrames' = NoFrames
    /\ UNCHANGED <<jobDone, dumpInfo, obdVars, loopCount, historyVars, boots>>

Plus(count, frames) == [p \in Pids |-> count[p] + frames[p]]

\* SendCanDumpData returns; an error changes nothing of what follows.
Sends(w) ==
    /\ Goes(w, "send", "mark")
    /\ \/ sent' = Plus(sent, data[w]) /\ UNCHANGED lost
       \/ lost' = Plus(lost, data[w]) /\ UNCHANGED sent
    /\ data' = [data EXCEPT ![w] = NoFrames]
    /\ UNCHANGED <<signalFrames, jobDone, dumpInfo, obdVars, loopCount, boots>>

Marks(w) ==
    /\ Goes(w, "mark", "write")
    /\ jobDone' = "yes"
    /\ UNCHANGED <<signalFrames, dumpInfo, obdVars, loopCount, data,
                   historyVars, boots>>

\* WriteCANDumpInfo, which may fail.
Writes(w) ==
    /\ Goes(w, "write", "sleep")
    /\ dumpInfo' \in {"recent", dumpInfo}
    /\ UNCHANGED <<signalFrames, jobDone, obdVars, loopCount, data,
                   historyVars, boots>>

\* Variant: the counter starts again on every turn.
WakesRestarting(w) ==
    /\ Goes(w, "sleep", "loop")
    /\ loopCount' = [loopCount EXCEPT ![w] = 1]
    /\ jobDone' = IF loopCount'[w] > MaxLoops THEN "yes" ELSE jobDone
    /\ UNCHANGED <<signalFrames, dumpInfo, obdVars, data, historyVars, boots>>

\* The sleep of 30 s ends.
Wakes(w) ==
    /\ Goes(w, "sleep", "loop")
    /\ loopCount' = [loopCount EXCEPT ![w] = @ + 1]
    /\ jobDone' = IF loopCount'[w] > MaxLoops THEN "yes" ELSE jobDone
    /\ UNCHANGED <<signalFrames, dumpInfo, obdVars, data, historyVars, boots>>
-----------------------------------------------------------------------------
\* The device loses power and boots again: the frames in memory are gone.
PowerCycle ==
    /\ boots < MaxBoots /\ boots' = boots + 1
    /\ jobDone' = determineJobDone
    /\ signalFrames' = NoFrames
    /\ obdPc' = "sleep" /\ obdIdx' = 1 /\ cycles' = 0
    /\ workerPc' = [w \in Workers |-> "none"]
    /\ loopCount' = [w \in Workers |-> 0]
    /\ data' = [w \in Workers |-> NoFrames]
    /\ captured' = NoFrames /\ sent' = NoFrames /\ lost' = NoFrames
    /\ UNCHANGED dumpInfo

\* 31 days go by.
MonthPasses ==
    /\ dumpInfo = "recent" /\ dumpInfo' = "none"
    /\ UNCHANGED <<signalFrames, jobDone, obdVars, workerVars, historyVars,
                   boots>>

WorkerStep(w) ==
    \/ Ends(w) \/ SeesFrames(w) \/ SeesNothing(w) \/ Dequeue(w) \/ Sends(w)
    \/ Marks(w) \/ Writes(w) \/ Wakes(w)

ObdStep == queryOBD \/ Skips \/ StartsCapture \/ Enqueue \/ EndsScan

Next ==
    \/ ObdStep
    \/ \E w \in Workers : WorkerStep(w)
    \/ PowerCycle \/ MonthPasses

Spec == Init /\ [][Next]_vars

\* Goroutines that can run are scheduled, their sleeps end, and calls to the
\* AutoPi API and the MQTT client return.
FairSpec == Spec /\ WF_vars(ObdStep) /\ \A w \in Workers : WF_vars(WorkerStep(w))
-----------------------------------------------------------------------------
\* No more than two frames of a PID wait, although wantMoreCanFrameDump and
\* Enqueue are apart and the first reads the map without the lock.
QueueBounded == \A p \in Pids : signalFrames[p] <= maxCanDumpFrames

\* The frames of p in the hands of the workers.
Held(p) == UNION {{w} \X (1..data[w][p]) : w \in Workers}

\* However many workers race, each captured frame is in one place: queued, in
\* the hands of one worker, or sent or failed to be sent once (Enqueue,
\* Dequeue and SenderWorker).
FramesAccountedFor ==
    \A p \in Pids :
        captured[p] =
            signalFrames[p] + Cardinality(Held(p)) + sent[p] + lost[p]

\* Once a worker runs, capturing comes to an end, with frames or without any,
\* and Python PIDs are queried regularly from then on (SenderWorker's "control
\* for too many loops").
CapturingEnds == cycles > 0 ~> (jobDone = "yes" \/ cycles = 0)
=============================================================================
