--------------------------- MODULE LogRateLimiter ---------------------------
(***************************************************************************)
(* LogRateLimiterHook (internal/hooks/loghooks.go) for one message that is *)
(* logged with a threshold: goroutines log it, only the first few events   *)
(* are printed, and one in `threshold` is to be sent to the cloud.  The    *)
(* count is increased under the mutex and reset under the mutex; the event *)
(* is discarded and the payload sent in between without it, and the logger *)
(* prints what was not discarded once the hook has returned.               *)
(***************************************************************************)
EXTENDS Naturals

CONSTANTS
    Threads,       \* goroutines that log the message
    threshold,     \* WithThresholdWhenLogMqtt
    stopLogAfter,  \* WithStopLogAfter, 5 when not given
    MaxEvents      \* bound: times the message is logged

ASSUME LimiterAssumption ==
    /\ threshold \in Nat \ {0} /\ stopLogAfter \in Nat \ {0}
    /\ MaxEvents \in Nat

VARIABLES
    errorCounts,  \* errorCounts[msg]
    pc,           \* of each thread: "idle", "decide", "send", "reset", "print"
    count,        \* its local count, 0 when the call is over
    events,       \* history: events logged
    sends,        \* history: payloads sent
    failed,       \* history: whether sending failed: "yes" or "no"
    printed       \* history: events printed

limiterVars == <<errorCounts, pc, count, events, sends, failed, printed>>

LimiterTypeOK ==
    /\ errorCounts \in Nat
    /\ pc \in [Threads -> {"idle", "decide", "send", "reset", "print"}]
    /\ count \in [Threads -> Nat]
    /\ events \in 0..MaxEvents
    /\ sends \in 0..events
    /\ failed \in {"yes", "no"}
    /\ printed \in Nat

LimiterInit ==
    /\ errorCounts = 0
    /\ pc = [t \in Threads |-> "idle"]
    /\ count = [t \in Threads |-> 0]
    /\ events = 0 /\ sends = 0 /\ failed = "no" /\ printed = 0

Goes(t, from, to) == pc[t] = from /\ pc' = [pc EXCEPT ![t] = to]

\* The first critical section of Run.
Counts(t) ==
    /\ Goes(t, "idle", "decide")
    /\ events < MaxEvents /\ events' = events + 1
    /\ errorCounts' = errorCounts + 1
    /\ count' = [count EXCEPT ![t] = errorCounts + 1]
    /\ UNCHANGED <<sends, failed, printed>>

\* Variant: the threshold is checked one too late.
DecidesLate(t) ==
    /\ Goes(t, "decide", IF count[t] > threshold THEN "send" ELSE "print")
    /\ UNCHANGED <<errorCounts, count, events, sends, failed, printed>>

Decides(t) ==
    /\ Goes(t, "decide", IF count[t] >= threshold THEN "send" ELSE "print")
    /\ UNCHANGED <<errorCounts, count, events, sends, failed, printed>>

\* SendErrorPayload succeeds ...
Sends(t) ==
    /\ Goes(t, "send", "reset")
    /\ sends' = sends + 1
    /\ UNCHANGED <<errorCounts, count, events, failed, printed>>

\* Variant: the reset is deferred, so it comes after a failure too.
SendFailsAndResets(t) ==
    /\ Goes(t, "send", "reset")
    /\ failed' = "yes"
    /\ UNCHANGED <<errorCounts, count, events, sends, printed>>

\* ... or fails, and the count stays.
SendFails(t) ==
    /\ Goes(t, "send", "print")
    /\ failed' = "yes"
    /\ UNCHANGED <<errorCounts, count, events, sends, printed>>

\* The second critical section.
Resets(t) ==
    /\ Goes(t, "reset", "print")
    /\ errorCounts' = 0
    /\ UNCHANGED <<count, events, sends, failed, printed>>

\* Run has returned and the logger writes the event, unless its own count had
\* discarded it: other threads may have counted, sent and reset since.
Prints(t) ==
    /\ Goes(t, "print", "idle")
    /\ printed' = IF count[t] > stopLogAfter THEN printed ELSE printed + 1
    /\ count' = [count EXCEPT ![t] = 0]
    /\ UNCHANGED <<errorCounts, events, sends, failed>>

HookNext ==
    \E t \in Threads :
        \/ Counts(t) \/ Decides(t) \/ Sends(t) \/ SendFails(t) \/ Resets(t)
        \/ Prints(t)

\* The process is started again: the counts were in its memory, and the
\* histories are those of the new process.
LimiterRestarts ==
    /\ errorCounts' = 0
    /\ pc' = [t \in Threads |-> "idle"]
    /\ count' = [t \in Threads |-> 0]
    /\ events' = 0 /\ sends' = 0 /\ failed' = "no" /\ printed' = 0

LimiterNext == HookNext \/ LimiterRestarts

LimiterSpec == LimiterInit /\ [][LimiterNext]_limiterVars
-----------------------------------------------------------------------------
\* A count at the threshold is never left behind: whoever reached it is about
\* to send and reset, or sending failed (Run, with threads between its two
\* critical sections).
ThresholdIsSent ==
    errorCounts >= threshold /\ failed = "no" =>
        \E t \in Threads :
            count[t] >= threshold /\ pc[t] \in {"decide", "send", "reset"}

\* However the threads interleave, no more than stopLogAfter events are
\* printed for each payload that sendPayload took, and as many before the
\* first: events that were counted before a reset and are printed after it do
\* not add up, and a payload that fails opens no new allowance
\* (loghooks.go:65-77).  Between one reset and the next more may be printed.
PrintedBounded == printed <= stopLogAfter * (sends + 1)

=============================================================================
