---------------------------- MODULE NativeRunner ----------------------------
(***************************************************************************)
(* The goroutines of workerRunner.Run on a device that talks to the CAN    *)
(* bus itself (ShouldNativeScanLogger() is true):                          *)
(*   - the OBD loop sends the queries and waits for no answer              *)
(*     (SendCANQuery of internal/loggers/dbc_passive_logger.go);           *)
(*   - the listener (StartScanning) reads every frame the filters of the   *)
(*     socket let through, decodes it and pushes signals into a channel    *)
(*     without buffer;                                                     *)
(*   - a consumer takes them from the channel into the SignalsQueue;       *)
(*   - the status loop empties the queue (its sending is in WorkerRunner). *)
(* A frame is its identifier, its format and the PID its data answer.      *)
(***************************************************************************)
EXTENDS SignalsQueue, FiniteSets

CONSTANTS
    Requests,        \* dpl.pids, wr.pids.Requests: names in template order
    ResponseHeader,  \* PIDRequest.ResponseHeader() of each name
    Pid,             \* PIDRequest.Pid of each name
    Dbc,             \* the DBC file: header |-> names of its signals
    Broadcasts,      \* frames the vehicle may send unasked
    None,            \* the consumer's hands are empty
    SocketSize,      \* frames the receive buffer of the socket holds
    MaxTime,         \* bound: ticks of the clock, one tick being 2 s
    MaxFrames,       \* bound: frames on the bus in one boot
    MaxBoots         \* bound: starts of the process

Pids == {Requests[i] : i \in DOMAIN Requests}

RespHeaders == {ResponseHeader[n] : n \in Pids}

\* A frame, and what answers a query of n.
Frame(id, format, pid) == [id |-> id, format |-> format, pid |-> pid]

AnswerTo(n) ==
    Frame(ResponseHeader[n],
          IF ResponseHeader[n] > 4095 THEN "extended" ELSE "standard", Pid[n])

Frames == Broadcasts \cup {AnswerTo(n) : n \in Pids}

Pushed == [name : Signals, limitFrequency : BOOLEAN]

ASSUME NativeAssumption ==
    /\ Requests \in Seq(Signals)
    /\ ResponseHeader \in [Pids -> Nat] /\ Pid \in [Pids -> Nat]
    /\ DOMAIN Dbc \subseteq Nat
    /\ \A h \in DOMAIN Dbc : Dbc[h] \in Seq(Signals \ Pids)
    /\ \A f \in Frames :
           IF f.format = "extended" THEN f.id < 2^29 ELSE f.id < 2^11
    /\ None \notin [signal : Pushed, value : Values]
    /\ SocketSize \in Nat
    /\ MaxTime \in Nat /\ MaxFrames \in Nat /\ MaxBoots \in Nat

VARIABLES
    process,     \* "running" or "panicked"
    boots,       \* history: starts of the process
    obdPc,       \* the OBD loop: "sleep", "scan"
    obdIdx,      \* the request it is at
    obdWake,     \* the time its sleep ends
    onBus,       \* names asked that the vehicle may still answer
    frames,      \* history: frames on the bus in this boot
    socket,      \* frames received and not yet read
    listener,    \* "starting", "reading", "stopped"
    pending,     \* signals of the frame it is at, still to be pushed
    handed,      \* the signal the consumer took from the channel, or None
    decoded,     \* history: signals the listener decoded, by name
    limited      \* history: signals Enqueue dropped, by name

obdVars == <<obdPc, obdIdx, obdWake>>
listenVars == <<listener, pending, handed, decoded, limited>>
vars == <<now, queueVars, process, boots, obdVars, onBus, frames, socket,
          listenVars>>

TypeOK ==
    /\ QueueTypeOK
    /\ process \in {"running", "panicked"}
    /\ boots \in Nat
    /\ obdPc \in {"sleep", "scan"}
    /\ obdIdx \in 1..Len(Requests) + 1
    /\ obdWake \in Nat
    /\ onBus \subseteq Pids
    /\ frames \in 0..MaxFrames
    /\ socket \in Seq(Frames) /\ Len(socket) <= SocketSize
    /\ listener \in {"starting", "reading", "stopped"}
    /\ pending \in Seq(Pushed)
    /\ handed = None \/ handed \in [signal : Pushed, value : Values]
    /\ decoded \in [Signals -> Nat] /\ limited \in [Signals -> Nat]

Zero == [n \in Signals |-> 0]

Init ==
    /\ QueueInit
    /\ process = "running" /\ boots = 1
    /\ obdPc = "sleep" /\ obdIdx = 1 /\ obdWake = 0
    /\ onBus = {} /\ frames = 0 /\ socket = <<>>
    /\ listener = "starting" /\ pending = <<>> /\ handed = None
    /\ decoded = Zero /\ limited = Zero

Running == process = "running"

Request == Requests[obdIdx]
-----------------------------------------------------------------------------
(* The OBD loop. *)

ObdWakes(voltageOk) ==
    /\ Running /\ obdPc = "sleep" /\ now >= obdWake
    /\ IF voltageOk
       THEN obdPc' = "scan" /\ obdIdx' = 1 /\ UNCHANGED obdWake
       ELSE obdWake' = now + 1 /\ UNCHANGED <<obdPc, obdIdx>>
    /\ UNCHANGED <<now, queueVars, process, boots, onBus, frames, socket,
                   listenVars>>

\* A request that is skipped, or the end of the list.
ObdSkips ==
    /\ Running /\ obdPc = "scan"
    /\ IF obdIdx \in DOMAIN Requests
       THEN /\ ~OkToQuery(Request)
            /\ obdIdx' = obdIdx + 1
            /\ UNCHANGED <<obdPc, obdWake>>
       ELSE /\ obdPc' = "sleep" /\ obdWake' = now + 1
            /\ UNCHANGED obdIdx
    /\ UNCHANGED <<now, queueVars, process, boots, onBus, frames, socket,
                   listenVars>>

\* SendCANQuery, fire and forget: whether the frame could be sent or not,
\* neither the attempt nor a failure is recorded, so a PID that is not answered
\* is asked in every scan.
ObdSends(sent) ==
    /\ Running /\ obdPc = "scan" /\ obdIdx \in DOMAIN Requests
    /\ OkToQuery(Request)
    /\ onBus' = IF sent THEN onBus \cup {Request} ELSE onBus
    /\ obdIdx' = obdIdx + 1
    /\ UNCHANGED <<now, queueVars, process, boots, obdPc, obdWake, frames,
                   socket, listenVars>>
-----------------------------------------------------------------------------
(* The bus and the filters of the socket. *)

Headers == RespHeaders \cup DOMAIN Dbc

\* One CAN filter of buildCanFilters.  Its mask has the bits of an identifier
\* and not the flag of the extended format.
Passes(header, f) ==
    IF header > 4095
    THEN f.id = header % 2^29
    ELSE f.id % 2^11 = header % 2^11

\* Variant: the receive buffer is never full.
ReceivedAlways(f) ==
    /\ listener = "reading"
    /\ \E h \in Headers : Passes(h, f)

Received(f) ==
    /\ listener = "reading" /\ Len(socket) < SocketSize
    /\ \E h \in Headers : Passes(h, f)

Carries(f) ==
    /\ frames < MaxFrames /\ frames' = frames + 1
    /\ socket' = IF Received(f) THEN Append(socket, f) ELSE socket
    /\ UNCHANGED <<now, queueVars, process, boots, obdVars, listenVars>>

\* An answer to a query, not always the last one: several control units may
\* answer the same query.
VehicleAnswers(n, last) ==
    /\ n \in onBus
    /\ onBus' = IF last THEN onBus \ {n} ELSE onBus
    /\ Carries(AnswerTo(n))

VehicleBroadcasts(f) == Carries(f) /\ UNCHANGED onBus
-----------------------------------------------------------------------------
(* The listener and the consumer. *)

\* StartScanning up to its loop.  It returns an error when the DBC file
\* cannot be parsed or the socket not be bound, and there is no listener.
ListenerStarts ==
    /\ Running /\ listener = "starting"
    /\ listener' \in {"reading", "stopped"}
    /\ UNCHANGED <<now, queueVars, process, boots, obdVars, onBus, frames,
                   socket, pending, handed, decoded, limited>>

\* matchPID: the first request that the frame answers, as a set.
matchPID(f) ==
    LET matches == {i \in DOMAIN Requests :
                       /\ ResponseHeader[Requests[i]] = f.id
                       /\ Pid[Requests[i]] = f.pid}
    IN {Requests[i] : i \in {j \in matches : \A k \in matches : j <= k}}

\* The signals a frame gives: the PID it answers unless the formula fails;
\* or those of its DBC entry, where a formula that fails gives 0.
SignalsOf(f) ==
    IF f.id \in RespHeaders
    THEN {<<>>} \cup {<<[name |-> n, limitFrequency |-> FALSE]>> :
                         n \in matchPID(f)}
    ELSE {[i \in DOMAIN Dbc[f.id] |->
              [name |-> Dbc[f.id][i], limitFrequency |-> TRUE]]}

Known(f) == f.id \in Headers

Times(pushes, n) == Cardinality({i \in DOMAIN pushes : pushes[i].name = n})

\* Variant: the loop ends with the first frame that answers no request.
ListenerReadsOrEnds ==
    /\ Running /\ listener = "reading"
    /\ pending = <<>> /\ socket # <<>>
    /\ Known(Head(socket))
    /\ socket' = Tail(socket)
    /\ pending' \in SignalsOf(Head(socket))
    /\ listener' = IF pending' = <<>> THEN "stopped" ELSE listener
    /\ decoded' = [n \in Signals |-> decoded[n] + Times(pending', n)]
    /\ UNCHANGED <<now, queueVars, process, boots, obdVars, onBus, frames,
                   handed, limited>>

ListenerReads ==
    /\ Running /\ listener = "reading"
    /\ pending = <<>> /\ socket # <<>>
    /\ Known(Head(socket))
    /\ socket' = Tail(socket)
    /\ pending' \in SignalsOf(Head(socket))
    /\ decoded' = [n \in Signals |-> decoded[n] + Times(pending', n)]
    /\ UNCHANGED <<now, queueVars, process, boots, obdVars, onBus, frames,
                   listener, handed, limited>>

\* findFilter finds nothing for the frame, and the nil pointer it returns is
\* dereferenced.
ListenerPanics ==
    /\ Running /\ listener = "reading"
    /\ pending = <<>> /\ socket # <<>>
    /\ ~Known(Head(socket))
    /\ process' = "panicked"
    /\ UNCHANGED <<now, queueVars, boots, obdVars, onBus, frames, socket,
                   listenVars>>

\* The channel: the push and the receive are one step.
HandsOver(v) ==
    /\ Running /\ pending # <<>> /\ handed = None
    /\ handed' = [signal |-> Head(pending), value |-> v]
    /\ pending' = Tail(pending)
    /\ UNCHANGED <<now, queueVars, process, boots, obdVars, onBus, frames,
                   socket, listener, decoded, limited>>

\* Variant: the consumer does not move on.
ConsumerEnqueuesAgain ==
    /\ Running /\ handed # None
    /\ Enqueue(handed.signal.name, handed.value, handed.signal.limitFrequency)
    /\ UNCHANGED <<now, failureCount, process, boots, obdVars, onBus, frames,
                   socket, listener, pending, handed, decoded, limited>>

\* The consumer of Run calls Enqueue.
ConsumerEnqueues ==
    /\ Running /\ handed # None
    /\ LET n == handed.signal.name IN
       /\ Enqueue(n, handed.value, handed.signal.limitFrequency)
       /\ limited' = IF produced' = produced
                     THEN [limited EXCEPT ![n] = @ + 1] ELSE limited
    /\ handed' = None
    /\ UNCHANGED <<now, failureCount, process, boots, obdVars, onBus, frames,
                   socket, listener, pending, decoded>>
-----------------------------------------------------------------------------
\* composeDeviceEvent of the status loop.
StatusComposes ==
    /\ Running /\ signals # EmptyQueue
    /\ Dequeue(signals)
    /\ UNCHANGED <<now, lastTimeChecked, failureCount, produced, process,
                   boots, obdVars, onBus, frames, socket, listenVars>>

\* systemd starts the process again after a panic.
Restart ==
    /\ ~Running /\ boots < MaxBoots
    /\ process' = "running" /\ boots' = boots + 1
    /\ signals' = EmptyQueue
    /\ lastTimeChecked' = [n \in Signals |-> Never]
    /\ failureCount' = Zero /\ produced' = Zero
    /\ obdPc' = "sleep" /\ obdIdx' = 1 /\ obdWake' = now
    /\ frames' = 0 /\ socket' = <<>>
    /\ listener' = "starting" /\ pending' = <<>> /\ handed' = None
    /\ decoded' = Zero /\ limited' = Zero
    /\ UNCHANGED <<now, onBus>>

Tick ==
    /\ now < MaxTime /\ now' = now + 1
    /\ UNCHANGED <<queueVars, process, boots, obdVars, onBus, frames, socket,
                   listenVars>>

Next ==
    \/ \E voltageOk \in BOOLEAN : ObdWakes(voltageOk)
    \/ ObdSkips
    \/ \E sent \in BOOLEAN : ObdSends(sent)
    \/ \E n \in Pids, last \in BOOLEAN : VehicleAnswers(n, last)
    \/ \E f \in Broadcasts : VehicleBroadcasts(f)
    \/ ListenerStarts \/ ListenerReads \/ ListenerPanics
    \/ \E v \in Values : HandsOver(v)
    \/ ConsumerEnqueues
    \/ StatusComposes \/ Restart \/ Tick

Spec == Init /\ [][Next]_vars

\* The goroutines that can run are scheduled.
FairSpec ==
    /\ Spec
    /\ WF_vars(ListenerReads) /\ WF_vars(ListenerPanics)
    /\ WF_vars(\E v \in Values : HandsOver(v))
    /\ WF_vars(ConsumerEnqueues)
-----------------------------------------------------------------------------
\* Signals of n that are between the listener and the queue.
InHands(n) ==
    Times(pending, n) + (IF handed = None THEN 0
                         ELSE IF handed.signal.name = n THEN 1 ELSE 0)

\* Every signal the listener decodes is queued once, dropped once as a
\* repetition, or on its way: the channel and the two goroutines around it
\* neither lose nor repeat one (StartScanning, the consumer of Run, Enqueue).
DecodedIsQueued ==
    \A n \in Signals : decoded[n] = produced[n] + limited[n] + InHands(n)

\* A signal of the DBC file waits at most once with a value, however often
\* the vehicle broadcasts it between two payloads (worker_runner.go:531,
\* "only enqueue limit freq signals once if same value").
PassiveWaitsOnce ==
    \A h \in DOMAIN Dbc : \A i \in DOMAIN Dbc[h] :
        LET waiting == signals[Dbc[h][i]] IN
        \A j, k \in DOMAIN waiting :
            waiting[j].value = waiting[k].value => j = k

\* The listener does not get stuck: a frame it received is read, whatever
\* frames it could not match came before (the loop of StartScanning and the
\* channel without buffer).
ReceivedIsRead ==
    \A k \in 1..SocketSize :
        Len(socket) >= k /\ Running ~> (Len(socket) < k \/ ~Running)
=============================================================================
