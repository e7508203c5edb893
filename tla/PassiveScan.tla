----------------------------- MODULE PassiveScan -----------------------------
(***************************************************************************)
(* passiveScanCitroen (internal/loggers/vin_logger.go) with ReadCitroenVIN *)
(* (internal/loggers/passive_can_reading.go), goroutine by goroutine.  A   *)
(* scan starts a reader, which brings can0 up, reads frames until it has   *)
(* the three segments of a VIN of one type or has read enough frames, and  *)
(* takes can0 down, without a look at the errors of any of these, and a    *)
(* timer of ten seconds; each sends to a channel without buffer, and the   *)
(* caller takes what comes first.  The scans                               *)
(* follow each other, as the mutex of GetVIN has it, but their goroutines  *)
(* live on: a reader that was too late reads, takes can0 down and waits    *)
(* to send while later scans run.                                          *)
(***************************************************************************)
EXTENDS Naturals, FiniteSets

CONSTANTS
    Scans,   \* calls of passiveScanCitroen
    Types,   \* the types of VIN a car may broadcast: A and B
    Cycles,  \* frames after which a reader gives up: 10000
    Up,      \* can0 is up
    Off,     \* can0 was never brought up
    None     \* no reader

Segments == Types \X (1 .. 3)
Other == <<>>   \* a frame that is no segment

ASSUME ScanAssumption ==
    /\ Cycles \in Nat
    /\ Up \notin Scans /\ Off \notin Scans /\ None \notin Scans
    /\ Up # Off /\ None # Off

VARIABLES
    process,  \* "running" or "panicked"
    can0,     \* Up, Off, or the scan whose reader took it down last
    caller,   \* of each scan: "idle", "waits", or what it returned
    timer,    \* its timer goroutine
    reader,   \* its reader goroutine
    seen,     \* the segments its reader has accepted
    loops,    \* loopNumber
    vin,      \* completeVIN: "none", "valid" or "invalid"
    downBy,   \* why can0 is down under its open socket: the reader that took it
              \* down, or Off; None as long as it is up
    broughtUp \* history: whether its SetUp succeeded

scanVars == <<process, can0, caller, timer, reader, seen, loops, vin, downBy, broughtUp>>

ScanInit ==
    /\ process = "running"
    /\ can0 = Off
    /\ caller = [s \in Scans |-> "idle"]
    /\ timer = [s \in Scans |-> "none"]
    /\ reader = [s \in Scans |-> "none"]
    /\ seen = [s \in Scans |-> {}]
    /\ loops = [s \in Scans |-> 0]
    /\ vin = [s \in Scans |-> "none"]
    /\ downBy = [s \in Scans |-> None]
    /\ broughtUp = [s \in Scans |-> FALSE]

\* Variant: the scans do not exclude each other.
StartsBeside(s) ==
    /\ process = "running"
    /\ caller[s] = "idle"
    /\ caller' = [caller EXCEPT ![s] = "waits"]
    /\ timer' = [timer EXCEPT ![s] = "sleeps"]
    /\ reader' = [reader EXCEPT ![s] = "setsUp"]
    /\ UNCHANGED <<process, can0, seen, loops, vin, downBy, broughtUp>>

\* GetVIN holds its mutex until the scan it calls has returned.
Starts(s) ==
    /\ process = "running"
    /\ caller[s] = "idle"
    /\ \A t \in Scans : caller[t] # "waits"
    /\ caller' = [caller EXCEPT ![s] = "waits"]
    /\ timer' = [timer EXCEPT ![s] = "sleeps"]
    /\ reader' = [reader EXCEPT ![s] = "setsUp"]
    /\ UNCHANGED <<process, can0, seen, loops, vin, downBy, broughtUp>>

\* The error of New is dropped and the bitrate set on nil.
NewFails(s) ==
    /\ process = "running"
    /\ reader[s] = "setsUp"
    /\ process' = "panicked"
    /\ UNCHANGED <<can0, caller, timer, reader, seen, loops, vin, downBy, broughtUp>>

\* SetBitrate and SetUp; their errors are dropped and the scan goes on.
SetsUp(s) ==
    /\ process = "running"
    /\ reader[s] = "setsUp"
    /\ \E succeeds \in BOOLEAN :
          /\ can0' = IF succeeds THEN Up ELSE can0
          /\ broughtUp' = [broughtUp EXCEPT ![s] = succeeds]
    /\ reader' = [reader EXCEPT ![s] = "dials"]
    /\ UNCHANGED <<process, caller, timer, seen, loops, vin, downBy>>

\* A socket bound to an interface that is down has its error at once.
Dials(s) ==
    /\ process = "running"
    /\ reader[s] = "dials"
    /\ reader' = [reader EXCEPT ![s] = "reads"]
    /\ downBy' = [downBy EXCEPT ![s] = IF can0 = Up THEN None ELSE can0]
    /\ UNCHANGED <<process, can0, caller, timer, seen, loops, vin, broughtUp>>

\* The error of DialContext is dropped and the receiver reads from nil.
DialFails(s) ==
    /\ process = "running"
    /\ reader[s] = "dials"
    /\ process' = "panicked"
    /\ UNCHANGED <<can0, caller, timer, reader, seen, loops, vin, downBy, broughtUp>>

Complete(segments) == \E k \in Types : {k} \X (1 .. 3) \subseteq segments

\* Receive gives a frame; a VIN is complete, or the cycles are over, or neither.
Receives(s) ==
    /\ process = "running"
    /\ reader[s] = "reads" /\ downBy[s] = None
    /\ loops' = [loops EXCEPT ![s] = @ + 1]
    /\ \E f \in Segments \cup {Other} :
          seen' = [seen EXCEPT ![s] = IF f = Other THEN @ ELSE @ \cup {f}]
    /\ IF Complete(seen'[s])
       THEN \E v \in {"valid", "invalid"} : vin' = [vin EXCEPT ![s] = v]
       ELSE UNCHANGED vin
    /\ reader' = [reader EXCEPT ![s] =
           IF Complete(seen'[s]) \/ loops'[s] > Cycles THEN "leaves" ELSE "reads"]
    /\ UNCHANGED <<process, can0, caller, timer, downBy, broughtUp>>

\* Receive gives false: the interface went down.
ReceiveFails(s) ==
    /\ process = "running"
    /\ reader[s] = "reads" /\ downBy[s] # None
    /\ reader' = [reader EXCEPT ![s] = "leaves"]
    /\ UNCHANGED <<process, can0, caller, timer, seen, loops, vin, downBy, broughtUp>>

\* The deferred SetDown, before the result is sent; all open sockets have it.
SetsDown(s) ==
    /\ process = "running"
    /\ reader[s] = "leaves"
    /\ reader' = [reader EXCEPT ![s] = "sends"]
    /\ can0' = s
    /\ downBy' = [t \in Scans |->
           IF reader[t] = "reads" /\ downBy[t] = None THEN s ELSE downBy[t]]
    /\ UNCHANGED <<process, caller, timer, seen, loops, vin, broughtUp>>

\* SetDown fails, and nobody looks at its error either.
StaysUp(s) ==
    /\ process = "running"
    /\ reader[s] = "leaves"
    /\ reader' = [reader EXCEPT ![s] = "sends"]
    /\ UNCHANGED <<process, can0, caller, timer, seen, loops, vin, downBy, broughtUp>>

\* Variant: the timer starts with the first frame.
TimerFiresAfterFrame(s) ==
    /\ process = "running"
    /\ timer[s] = "sleeps" /\ loops[s] > 0
    /\ timer' = [timer EXCEPT ![s] = "sends"]
    /\ UNCHANGED <<process, can0, caller, reader, seen, loops, vin, downBy, broughtUp>>

TimerFires(s) ==
    /\ process = "running"
    /\ timer[s] = "sleeps"
    /\ timer' = [timer EXCEPT ![s] = "sends"]
    /\ UNCHANGED <<process, can0, caller, reader, seen, loops, vin, downBy, broughtUp>>

\* Variant: a result is taken after the timeout as well.
GetsResultLate(s) ==
    /\ process = "running"
    /\ caller[s] \in {"waits", "timeout"} /\ reader[s] = "sends"
    /\ caller' = [caller EXCEPT ![s] = IF vin[s] = "valid" THEN "vin" ELSE "novin"]
    /\ reader' = [reader EXCEPT ![s] = "done"]
    /\ UNCHANGED <<process, can0, timer, seen, loops, vin, downBy, broughtUp>>

\* The select: either channel, when both are ready.
GetsResult(s) ==
    /\ process = "running"
    /\ caller[s] = "waits" /\ reader[s] = "sends"
    /\ caller' = [caller EXCEPT ![s] = IF vin[s] = "valid" THEN "vin" ELSE "novin"]
    /\ reader' = [reader EXCEPT ![s] = "done"]
    /\ UNCHANGED <<process, can0, timer, seen, loops, vin, downBy, broughtUp>>

GetsTimeout(s) ==
    /\ process = "running"
    /\ caller[s] = "waits" /\ timer[s] = "sends"
    /\ caller' = [caller EXCEPT ![s] = "timeout"]
    /\ timer' = [timer EXCEPT ![s] = "done"]
    /\ UNCHANGED <<process, can0, reader, seen, loops, vin, downBy, broughtUp>>

Reader(s) ==
    \/ NewFails(s) \/ SetsUp(s) \/ Dials(s) \/ DialFails(s)
    \/ Receives(s) \/ ReceiveFails(s) \/ SetsDown(s) \/ StaysUp(s)

Selects(s) == GetsResult(s) \/ GetsTimeout(s)

ScanNext == \E s \in Scans : Starts(s) \/ Reader(s) \/ TimerFires(s) \/ Selects(s)

ScanSpec == ScanInit /\ [][ScanNext]_scanVars

\* Time passes and the scheduler runs a goroutine that can run; the bus may
\* stay silent, so nothing is asked of a reader.
ScanFairSpec ==
    /\ ScanSpec
    /\ \A s \in Scans : WF_scanVars(TimerFires(s)) /\ WF_scanVars(Selects(s))

-----------------------------------------------------------------------------
\* Every variable has the type it is used with, and no reader reads more than
\* one frame beyond its cycles.
ScanTypeOK ==
    /\ process \in {"running", "panicked"}
    /\ can0 \in Scans \cup {Up, Off}
    /\ caller \in [Scans -> {"idle", "waits", "vin", "novin", "timeout"}]
    /\ timer \in [Scans -> {"none", "sleeps", "sends", "done"}]
    /\ reader \in [Scans -> {"none", "setsUp", "dials", "reads", "leaves", "sends", "done"}]
    /\ seen \in [Scans -> SUBSET Segments]
    /\ loops \in [Scans -> 0 .. Cycles + 1]
    /\ vin \in [Scans -> {"none", "valid", "invalid"}]
    /\ downBy \in [Scans -> Scans \cup {Off, None}]
    /\ broughtUp \in [Scans -> BOOLEAN]

\* A scan that brought can0 up and comes back without a VIN, although its reader
\* neither completed one nor read all the frames it may, was disturbed by the
\* reader of another scan, one that had run into its timeout before; no scan can
\* disturb itself or one after which it ended (passiveScanCitroen, SetUp and the
\* deferred SetDown of ReadCitroenVIN).
DisturbedByLate ==
    \A s \in Scans :
        /\ caller[s] = "novin" /\ vin[s] = "none" /\ loops[s] <= Cycles
        /\ broughtUp[s]
        => /\ downBy[s] \in Scans \ {s}
           /\ caller[downBy[s]] = "timeout"

\* No scan takes both a result and a timeout, and one of its two goroutines stays
\* behind: when the caller has returned, not both have ended.
AnsweredOnce ==
    \A s \in Scans :
        /\ caller[s] = "timeout" => reader[s] # "done"
        /\ caller[s] \in {"vin", "novin"} => timer[s] # "done"
        /\ caller[s] = "waits" => reader[s] # "done" /\ timer[s] # "done"

\* A scan returns, also when the bus is silent, unless the process ends.
ScanReturns ==
    \A s \in Scans :
        caller[s] = "waits" ~> (caller[s] # "waits" \/ process = "panicked")
=============================================================================
