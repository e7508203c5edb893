------------------------- MODULE NativeRunnerProofs -------------------------
(***************************************************************************)
(* Proofs about NativeRunner for every template, DBC file, vehicle, buffer *)
(* and bound: the listener, the channel and the consumer neither lose nor  *)
(* repeat a decoded signal, and a signal of the DBC file waits once with a *)
(* value.                                                                  *)
(***************************************************************************)
EXTENDS NativeRunner, FiniteSetTheorems, FunctionTheorems, SequenceTheorems,
        TLAPS

\* What the constants give, in the form the steps need it.
LEMMA NamesAreSignals ==
    /\ Len(Requests) \in Nat /\ DOMAIN Requests = 1..Len(Requests)
    /\ \A i \in DOMAIN Requests : Requests[i] \in Signals /\ Requests[i] \in Pids
    /\ Pids \subseteq Signals
    /\ \A h \in DOMAIN Dbc : Dbc[h] \in Seq(Signals \ Pids)
    /\ \A n \in Pids : AnswerTo(n) \in Frames
<1>1. Requests \in Seq(Signals)
    BY NativeAssumption
<1>2. /\ Len(Requests) \in Nat /\ DOMAIN Requests = 1..Len(Requests)
      /\ \A i \in DOMAIN Requests : Requests[i] \in Signals
    BY <1>1, LenProperties, ElementOfSeq
<1>3. \A h \in DOMAIN Dbc : Dbc[h] \in Seq(Signals \ Pids)
    BY NativeAssumption
<1> QED BY <1>2, <1>3 DEF Pids, Frames

\* The signals a frame gives are pushes, and those of the DBC file are sent
\* with limitFrequency.
LEMMA SignalsOfType ==
    ASSUME NEW f, Known(f), NEW pushes \in SignalsOf(f)
    PROVE  /\ pushes \in Seq(Pushed)
           /\ \A i \in DOMAIN pushes :
                  pushes[i].name \notin Pids => pushes[i].limitFrequency = TRUE
<1>1. CASE f.id \in RespHeaders
    <2>1. matchPID(f) \subseteq Pids
        BY NamesAreSignals DEF matchPID
    <2>2. CASE pushes = <<>>
        BY <2>2
    <2>3. ASSUME NEW n \in Pids,
                 pushes = <<[name |-> n, limitFrequency |-> FALSE]>>
          PROVE  /\ pushes \in Seq(Pushed)
                 /\ \A i \in DOMAIN pushes : pushes[i].name \in Pids
        <3>1. [name |-> n, limitFrequency |-> FALSE] \in Pushed
            BY NamesAreSignals DEF Pushed
        <3> QED BY <2>3, <3>1
    <2> QED BY <1>1, <2>1, <2>2, <2>3 DEF SignalsOf
<1>2. CASE f.id \notin RespHeaders
    <2>1. f.id \in DOMAIN Dbc
        BY <1>2 DEF Known, Headers
    <2>2. Dbc[f.id] \in Seq(Signals \ Pids)
        BY <2>1, NamesAreSignals
    <2>3. pushes = [i \in DOMAIN Dbc[f.id] |->
                       [name |-> Dbc[f.id][i], limitFrequency |-> TRUE]]
        BY <1>2 DEF SignalsOf
    <2> DEFINE names == Dbc[f.id]
    <2> HIDE DEF names
    <2>4. /\ Len(names) \in Nat /\ DOMAIN names = 1..Len(names)
          /\ \A i \in DOMAIN names : names[i] \in Signals
        BY <2>2, LenProperties, ElementOfSeq DEF names
    <2>5. pushes = [i \in 1..Len(names) |->
                       [name |-> names[i], limitFrequency |-> TRUE]]
        BY <2>3, <2>4 DEF names
    <2>6. \A i \in 1..Len(names) :
              [name |-> names[i], limitFrequency |-> TRUE] \in Pushed
        BY <2>4 DEF Pushed
    <2> QED BY <2>4, <2>5, <2>6
<1> QED BY <1>1, <1>2

\* How often a name comes in a sequence is a number, ...
LEMMA TimesType ==
    ASSUME NEW pushes \in Seq(Pushed), NEW n
    PROVE  /\ IsFiniteSet({i \in DOMAIN pushes : pushes[i].name = n})
           /\ Times(pushes, n) \in Nat
<1>1. Len(pushes) \in Nat /\ DOMAIN pushes = 1..Len(pushes)
    BY LenProperties
<1>2. IsFiniteSet(DOMAIN pushes)
    BY <1>1, FS_Interval
<1>3. {i \in DOMAIN pushes : pushes[i].name = n} \in SUBSET DOMAIN pushes
    OBVIOUS
<1>4. IsFiniteSet({i \in DOMAIN pushes : pushes[i].name = n})
    BY <1>2, <1>3, FS_Subset
<1> QED BY <1>4, FS_CardinalityType DEF Times

\* ... 0 in the empty sequence, ...
LEMMA TimesEmpty == \A n : Times(<<>>, n) = 0
<1>1. \A n : {i \in DOMAIN <<>> : <<>>[i].name = n} = {}
    OBVIOUS
<1> QED BY <1>1, FS_EmptySet DEF Times

\* ... and what its head adds to its tail.
LEMMA TimesTail ==
    ASSUME NEW pushes \in Seq(Pushed), pushes # <<>>, NEW n
    PROVE  Times(pushes, n) =
               Times(Tail(pushes), n) + (IF Head(pushes).name = n THEN 1 ELSE 0)
<1> DEFINE all == {i \in DOMAIN pushes : pushes[i].name = n}
           rest == {i \in DOMAIN Tail(pushes) : Tail(pushes)[i].name = n}
           shift == [i \in rest |-> i + 1]
<1>1. /\ Len(pushes) \in Nat \ {0} /\ DOMAIN pushes = 1..Len(pushes)
      /\ Tail(pushes) \in Seq(Pushed)
      /\ DOMAIN Tail(pushes) = 1..Len(pushes) - 1
      /\ \A i \in 1..Len(pushes) - 1 : Tail(pushes)[i] = pushes[i + 1]
      /\ Head(pushes) = pushes[1]
    <2>1. Len(pushes) \in Nat \ {0} /\ DOMAIN pushes = 1..Len(pushes)
        BY LenProperties, EmptySeq
    <2>2. /\ Tail(pushes) \in Seq(Pushed) /\ Len(Tail(pushes)) = Len(pushes) - 1
          /\ \A i \in 1..Len(Tail(pushes)) : Tail(pushes)[i] = pushes[i + 1]
        BY HeadTailProperties
    <2>3. DOMAIN Tail(pushes) = 1..Len(Tail(pushes))
        BY <2>2, LenProperties
    <2> QED BY <2>1, <2>2, <2>3
<1>2. IsFiniteSet(all) /\ IsFiniteSet(rest)
    BY <1>1, TimesType
<1>3. shift \in Bijection(rest, all \ {1})
    <2>1. shift \in [rest -> all \ {1}]
        BY <1>1
    <2>2. \A i, j \in rest : shift[i] = shift[j] => i = j
        BY <1>1
    <2>3. ASSUME NEW k \in all \ {1} PROVE \E i \in rest : shift[i] = k
        <3>1. k - 1 \in rest /\ shift[k - 1] = k
            BY <1>1
        <3> QED BY <3>1
    <2> HIDE DEF shift, rest, all
    <2> QED BY <2>1, <2>2, <2>3, Fun_IsBij
<1>4. Cardinality(all \ {1}) = Cardinality(rest)
    <2> HIDE DEF shift, rest, all
    <2>1. ExistsBijection(rest, all \ {1})
        BY <1>3, Zenon DEF ExistsBijection
    <2> QED BY <1>2, <2>1, FS_Bijection
<1>5. Cardinality(all \ {1}) = IF 1 \in all THEN Cardinality(all) - 1
                                            ELSE Cardinality(all)
    <2> HIDE DEF rest, all
    <2> QED BY <1>2, FS_RemoveElement
<1>6. 1 \in all <=> Head(pushes).name = n
    BY <1>1
<1>7. Cardinality(all) \in Nat /\ Cardinality(rest) \in Nat
    BY <1>2, FS_CardinalityType
<1>8. Cardinality(all) = Cardinality(rest) + (IF Head(pushes).name = n THEN 1 ELSE 0)
    <2> HIDE DEF rest, all
    <2> QED BY <1>4, <1>5, <1>6, <1>7
<1> QED BY <1>8 DEF Times
-----------------------------------------------------------------------------
\* Enqueue keeps the types of the queue.
LEMMA EnqueueTypes ==
    ASSUME QueueTypeOK, NEW n \in Signals, NEW v \in Values,
           NEW limit \in BOOLEAN, Enqueue(n, v, limit)
    PROVE  /\ signals' \in [Signals -> Seq(Sample)]
           /\ lastTimeChecked' \in [Signals -> Nat \cup {Never}]
           /\ produced' \in [Signals -> Nat]
<1>1. CASE limit /\ Queued(n, v)
    BY <1>1 DEF Enqueue, QueueTypeOK
<1>2. CASE ~(limit /\ Queued(n, v))
    <2> DEFINE s == [rank |-> produced[n] + 1, value |-> v]
    <2>1. s \in Sample
        BY DEF Sample, QueueTypeOK
    <2>2. Append(signals[n], s) \in Seq(Sample)
        BY <2>1, AppendProperties DEF QueueTypeOK
    <2>3. /\ signals' = [signals EXCEPT ![n] = Append(@, s)]
          /\ lastTimeChecked' = [lastTimeChecked EXCEPT ![n] = now]
          /\ produced' = [produced EXCEPT ![n] = @ + 1]
        BY <1>2 DEF Enqueue
    <2> HIDE DEF s
    <2> QED BY <2>2, <2>3 DEF QueueTypeOK
<1> QED BY <1>1, <1>2

\* What the consumer holds, if it holds anything.
LEMMA HandedType ==
    ASSUME TypeOK, handed # None
    PROVE  /\ handed.signal.name \in Signals
           /\ handed.signal.limitFrequency \in BOOLEAN
           /\ handed.value \in Values
BY DEF TypeOK, Pushed

\* Every step keeps the types.
LEMMA TypeStep == TypeOK /\ [Next]_vars => TypeOK'
<1> SUFFICES ASSUME TypeOK, [Next]_vars PROVE TypeOK'
    OBVIOUS
<1>1. EmptyQueue \in [Signals -> Seq(Sample)]
    BY DEF EmptyQueue
<1> USE NamesAreSignals DEF TypeOK, QueueTypeOK, obdVars, listenVars, queueVars
<1>2. ASSUME NEW voltageOk \in BOOLEAN, ObdWakes(voltageOk) PROVE TypeOK'
    BY <1>2 DEF ObdWakes
<1>3. CASE ObdSkips
    BY <1>3 DEF ObdSkips
<1>4. ASSUME NEW sent \in BOOLEAN, ObdSends(sent) PROVE TypeOK'
    BY <1>4 DEF ObdSends, Request
<1>5. ASSUME NEW f \in Frames, Carries(f)
      PROVE  frames' \in 0..MaxFrames /\ socket' \in Seq(Frames)
             /\ Len(socket') <= SocketSize
    <2>1. frames' \in 0..MaxFrames
        BY <1>5, NativeAssumption DEF Carries
    <2>2. Append(socket, f) \in Seq(Frames) /\ Len(Append(socket, f)) = Len(socket) + 1
        BY AppendProperties
    <2>3. Len(socket) \in Nat /\ SocketSize \in Nat
        BY LenProperties, NativeAssumption
    <2> QED BY <1>5, <2>1, <2>2, <2>3 DEF Carries, Received
<1>6. ASSUME NEW n \in Pids, NEW last \in BOOLEAN, VehicleAnswers(n, last)
      PROVE  TypeOK'
    <2>1. Carries(AnswerTo(n)) /\ AnswerTo(n) \in Frames
        BY <1>6 DEF VehicleAnswers
    <2> QED BY <1>5, <1>6, <2>1 DEF VehicleAnswers, Carries
<1>7. ASSUME NEW f \in Broadcasts, VehicleBroadcasts(f) PROVE TypeOK'
    <2>1. Carries(f) /\ f \in Frames
        BY <1>7 DEF VehicleBroadcasts, Frames
    <2> QED BY <1>5, <1>7, <2>1 DEF VehicleBroadcasts, Carries
<1>8. CASE ListenerStarts
    BY <1>8 DEF ListenerStarts
<1>9. CASE ListenerReads
    <2>1. /\ socket' = Tail(socket) /\ socket # <<>>
          /\ pending' \in Seq(Pushed)
          /\ decoded' = [n \in Signals |-> decoded[n] + Times(pending', n)]
        BY <1>9, SignalsOfType DEF ListenerReads
    <2>2. socket' \in Seq(Frames) /\ Len(socket') <= SocketSize
        <3>1. Tail(socket) \in Seq(Frames) /\ Len(Tail(socket)) = Len(socket) - 1
            BY <2>1, HeadTailProperties
        <3>2. Len(socket) \in Nat /\ SocketSize \in Nat
            BY LenProperties, NativeAssumption
        <3> QED BY <2>1, <3>1, <3>2
    <2>3. decoded' \in [Signals -> Nat]
        <3>1. \A n \in Signals : Times(pending', n) \in Nat
            BY <2>1, TimesType
        <3> QED BY <2>1, <3>1
    <2> QED BY <1>9, <2>1, <2>2, <2>3 DEF ListenerReads
<1>10. CASE ListenerPanics
    BY <1>10 DEF ListenerPanics
<1>11. ASSUME NEW v \in Values, HandsOver(v) PROVE TypeOK'
    <2>1. Head(pending) \in Pushed /\ Tail(pending) \in Seq(Pushed)
        BY <1>11, HeadTailProperties DEF HandsOver
    <2> QED BY <1>11, <2>1 DEF HandsOver
<1>12. CASE ConsumerEnqueues
    <2> DEFINE n == handed.signal.name
    <2>1. /\ n \in Signals /\ handed.value \in Values
          /\ handed.signal.limitFrequency \in BOOLEAN
          /\ Enqueue(n, handed.value, handed.signal.limitFrequency)
        BY <1>12, HandedType DEF ConsumerEnqueues
    <2>2. /\ signals' \in [Signals -> Seq(Sample)]
          /\ lastTimeChecked' \in [Signals -> Nat \cup {Never}]
          /\ produced' \in [Signals -> Nat]
        <3>1. QueueTypeOK
            OBVIOUS
        <3> HIDE DEF QueueTypeOK, TypeOK
        <3> QED BY <2>1, <3>1, EnqueueTypes
    <2>3. limited' \in [Signals -> Nat]
        <3>1. limited' = IF produced' = produced
                         THEN [limited EXCEPT ![n] = @ + 1] ELSE limited
            BY <1>12 DEF ConsumerEnqueues
        <3> HIDE DEF n
        <3> QED BY <2>1, <3>1
    <2> QED BY <1>12, <2>2, <2>3 DEF ConsumerEnqueues
<1>13. CASE StatusComposes
    BY <1>1, <1>13 DEF StatusComposes, Dequeue
<1>14. CASE Restart
    BY <1>1, <1>14, NativeAssumption DEF Restart, Zero
<1>15. CASE Tick
    BY <1>15 DEF Tick
<1>16. CASE UNCHANGED vars
    BY <1>16 DEF vars
<1> QED BY <1>2, <1>3, <1>4, <1>6, <1>7, <1>8, <1>9, <1>10, <1>11, <1>12,
           <1>13, <1>14, <1>15, <1>16 DEF Next

\* The first state has the types.
LEMMA TypeInit == Init => TypeOK
BY NamesAreSignals, NativeAssumption
DEF Init, QueueInit, TypeOK, QueueTypeOK, EmptyQueue, Zero

\* Every variable keeps its type: the indices stay in the template, the socket
\* in its buffer, and only signals of the template and of the DBC file are
\* pushed (internal/worker_runner.go, internal/loggers/dbc_passive_logger.go).
THEOREM TypeCorrect == Spec => []TypeOK
BY TypeInit, TypeStep, PTL DEF Spec
-----------------------------------------------------------------------------
\* A signal in the consumer's hands counts once.
InHand(n) == IF handed = None THEN 0 ELSE IF handed.signal.name = n THEN 1 ELSE 0

\* The accounts of DecodedIsQueued after a step of the listener, the channel,
\* or the consumer, and after any other.
LEMMA AccountsStep ==
    TypeOK /\ DecodedIsQueued /\ [Next]_vars => DecodedIsQueued'
<1> SUFFICES ASSUME TypeOK, DecodedIsQueued, [Next]_vars,
                    NEW n \in Signals
             PROVE  decoded'[n] = produced'[n] + limited'[n]
                                   + (Times(pending', n) + InHand(n)')
    BY DEF DecodedIsQueued, InHands, InHand
<1>1. /\ decoded[n] = produced[n] + limited[n] + (Times(pending, n) + InHand(n))
      /\ InHand(n) \in {0, 1} /\ Times(pending, n) \in Nat
      /\ decoded[n] \in Nat /\ produced[n] \in Nat /\ limited[n] \in Nat
    <2>1. pending \in Seq(Pushed)
        BY DEF TypeOK
    <2>2. Times(pending, n) \in Nat
        BY <2>1, TimesType
    <2>3. decoded[n] \in Nat /\ produced[n] \in Nat /\ limited[n] \in Nat
        BY DEF TypeOK, QueueTypeOK
    <2> QED BY <2>2, <2>3 DEF DecodedIsQueued, InHands, InHand
<1>2. CASE UNCHANGED <<decoded, produced, limited, pending, handed>>
    BY <1>1, <1>2 DEF InHand
<1>3. CASE ListenerReads
    <2>1. /\ pending = <<>> /\ pending' \in Seq(Pushed)
          /\ decoded'[n] = decoded[n] + Times(pending', n)
          /\ UNCHANGED <<produced, limited, handed>>
        BY <1>3, SignalsOfType DEF ListenerReads, queueVars
    <2>2. Times(pending, n) = 0 /\ Times(pending', n) \in Nat
        BY <2>1, TimesEmpty, TimesType
    <2>3. InHand(n)' = InHand(n) /\ produced'[n] = produced[n] /\ limited'[n] = limited[n]
        BY <2>1 DEF InHand
    <2> QED BY <1>1, <2>1, <2>2, <2>3
<1>4. ASSUME NEW v \in Values, HandsOver(v)
      PROVE  decoded'[n] = produced'[n] + limited'[n]
                            + (Times(pending', n) + InHand(n)')
    <2>1. /\ pending \in Seq(Pushed) /\ pending # <<>> /\ handed = None
          /\ handed' = [signal |-> Head(pending), value |-> v]
          /\ pending' = Tail(pending)
          /\ UNCHANGED <<decoded, produced, limited>>
        BY <1>4 DEF HandsOver, queueVars, TypeOK
    <2>2. handed' # None
        <3>1. Head(pending) \in Pushed
            BY <2>1, HeadTailProperties
        <3>2. handed' \in [signal : Pushed, value : Values]
            BY <2>1, <3>1
        <3> QED BY <3>2, NativeAssumption
    <2>3. InHand(n) = 0 /\ InHand(n)' = IF Head(pending).name = n THEN 1 ELSE 0
        BY <2>1, <2>2 DEF InHand
    <2>4. Times(pending, n) = Times(pending', n)
                               + (IF Head(pending).name = n THEN 1 ELSE 0)
        BY <2>1, TimesTail
    <2>5. Times(pending', n) \in Nat
        <3>1. pending' \in Seq(Pushed)
            BY <2>1, HeadTailProperties
        <3> QED BY <3>1, TimesType
    <2> QED BY <1>1, <2>1, <2>3, <2>4, <2>5
<1>5. CASE ConsumerEnqueues
    <2> DEFINE name == handed.signal.name
    <2>1. /\ name \in Signals /\ handed # None /\ handed' = None
          /\ Enqueue(name, handed.value, handed.signal.limitFrequency)
          /\ limited' = IF produced' = produced
                        THEN [limited EXCEPT ![name] = @ + 1] ELSE limited
          /\ UNCHANGED <<decoded, pending>>
        BY <1>5, HandedType DEF ConsumerEnqueues
    <2>2. /\ produced \in [Signals -> Nat] /\ limited \in [Signals -> Nat]
        BY DEF TypeOK, QueueTypeOK
    <2>3. InHand(n) = (IF name = n THEN 1 ELSE 0) /\ InHand(n)' = 0
        BY <2>1 DEF InHand
    <2> HIDE DEF name
    <2>4. CASE produced' = [produced EXCEPT ![name] = @ + 1]
        <3>1. produced'[name] # produced[name]
            BY <2>1, <2>2, <2>4
        <3>2. limited' = limited
            BY <2>1, <3>1
        <3> QED BY <1>1, <2>1, <2>2, <2>3, <2>4, <3>2
    <2>5. CASE produced' = produced
        BY <1>1, <2>1, <2>2, <2>3, <2>5
    <2> QED BY <2>1, <2>4, <2>5 DEF Enqueue
<1>6. CASE Restart
    <2>1. /\ decoded'[n] = 0 /\ produced'[n] = 0 /\ limited'[n] = 0
          /\ pending' = <<>> /\ handed' = None
        BY <1>6 DEF Restart, Zero
    <2> QED BY <2>1, TimesEmpty DEF InHand
<1> USE DEF queueVars, listenVars, obdVars
<1>7. ASSUME NEW voltageOk \in BOOLEAN, ObdWakes(voltageOk)
      PROVE  UNCHANGED <<decoded, produced, limited, pending, handed>>
    BY <1>7 DEF ObdWakes
<1>8. ASSUME NEW sent \in BOOLEAN, ObdSends(sent)
      PROVE  UNCHANGED <<decoded, produced, limited, pending, handed>>
    BY <1>8 DEF ObdSends
<1>9. ASSUME NEW m \in Pids, NEW last \in BOOLEAN, VehicleAnswers(m, last)
      PROVE  UNCHANGED <<decoded, produced, limited, pending, handed>>
    BY <1>9 DEF VehicleAnswers, Carries
<1>10. ASSUME NEW f \in Broadcasts, VehicleBroadcasts(f)
       PROVE  UNCHANGED <<decoded, produced, limited, pending, handed>>
    BY <1>10 DEF VehicleBroadcasts, Carries
<1>11. CASE ObdSkips \/ ListenerStarts \/ ListenerPanics
            \/ StatusComposes \/ Tick \/ UNCHANGED vars
    BY <1>2, <1>11 DEF ObdSkips, ListenerStarts, ListenerPanics,
                       StatusComposes, Tick, vars
<1> QED BY <1>2, <1>3, <1>4, <1>5, <1>6, <1>7, <1>8, <1>9, <1>10, <1>11
        DEF Next

\* Nothing is decoded at first.
LEMMA AccountsInit == Init => DecodedIsQueued
<1> SUFFICES ASSUME Init, NEW n \in Signals
             PROVE  decoded[n] = produced[n] + limited[n] + InHands(n)
    BY DEF DecodedIsQueued
<1>1. decoded[n] = 0 /\ produced[n] = 0 /\ limited[n] = 0
    BY DEF Init, QueueInit, Zero
<1>2. InHands(n) = 0
    BY TimesEmpty DEF Init, InHands
<1> QED BY <1>1, <1>2

\* Every decoded signal is queued once, dropped once as a repetition, or on its
\* way (StartScanning, the consumer of Run, Enqueue).
THEOREM DecodedHolds == Spec => []DecodedIsQueued
<1>1. TypeOK /\ DecodedIsQueued /\ [Next]_vars => TypeOK' /\ DecodedIsQueued'
    BY TypeStep, AccountsStep
<1> QED BY TypeInit, AccountsInit, <1>1, PTL DEF Spec
-----------------------------------------------------------------------------
\* A signal of the DBC file is always pushed with limitFrequency.
PushedWithLimit ==
    /\ \A i \in DOMAIN pending :
           pending[i].name \notin Pids => pending[i].limitFrequency = TRUE
    /\ handed # None /\ handed.signal.name \notin Pids
           => handed.signal.limitFrequency = TRUE

\* No two samples of the signal n that wait have the same value.
WaitsOnce(n) ==
    \A j, k \in DOMAIN signals[n] :
        signals[n][j].value = signals[n][k].value => j = k

PassiveInv ==
    PushedWithLimit /\ \A n \in Signals \ Pids : WaitsOnce(n)

\* The first state satisfies it.
LEMMA PassiveInit == Init => PassiveInv
BY DEF Init, QueueInit, PassiveInv, PushedWithLimit, WaitsOnce, EmptyQueue

\* Enqueue with limitFrequency adds no value that waits already.
LEMMA EnqueueOnce ==
    ASSUME TypeOK, NEW n \in Signals, NEW v \in Values, NEW limit \in BOOLEAN,
           Enqueue(n, v, limit), NEW m \in Signals, WaitsOnce(m),
           m = n => limit = TRUE
    PROVE  WaitsOnce(m)'
<1>1. signals \in [Signals -> Seq(Sample)]
    BY DEF TypeOK, QueueTypeOK
<1>2. CASE limit /\ Queued(n, v)
    BY <1>2 DEF Enqueue, WaitsOnce
<1>3. CASE ~(limit /\ Queued(n, v))
    <2> DEFINE e == [rank |-> produced[n] + 1, value |-> v]
    <2>1. signals' = [signals EXCEPT ![n] = Append(@, e)]
        BY <1>3 DEF Enqueue
    <2>2. CASE m # n
        BY <1>1, <2>1, <2>2 DEF WaitsOnce
    <2>3. CASE m = n
        <3>1. /\ \A i \in DOMAIN signals[n] : signals[n][i].value # v
            BY <1>3, <2>3 DEF Queued
        <3>2. e \in Sample /\ e.value = v
            BY DEF Sample, TypeOK, QueueTypeOK
        <3> HIDE DEF e
        <3>3. /\ signals'[n] = Append(signals[n], e)
              /\ Len(signals[n]) \in Nat
              /\ DOMAIN signals[n] = 1..Len(signals[n])
              /\ DOMAIN signals'[n] = 1..Len(signals[n]) + 1
              /\ \A i \in 1..Len(signals[n]) : signals'[n][i] = signals[n][i]
              /\ signals'[n][Len(signals[n]) + 1] = e
            <4>1. signals[n] \in Seq(Sample)
                BY <1>1
            <4>2. signals'[n] = Append(signals[n], e)
                BY <1>1, <2>1
            <4>3. /\ Append(signals[n], e) \in Seq(Sample)
                  /\ Len(Append(signals[n], e)) = Len(signals[n]) + 1
                  /\ \A i \in 1..Len(signals[n]) :
                         Append(signals[n], e)[i] = signals[n][i]
                  /\ Append(signals[n], e)[Len(signals[n]) + 1] = e
                BY <3>2, <4>1, AppendProperties
            <4> QED BY <4>1, <4>2, <4>3, LenProperties
        <3> QED BY <2>3, <3>1, <3>2, <3>3 DEF WaitsOnce
    <2> QED BY <2>2, <2>3
<1> QED BY <1>2, <1>3

\* Every step keeps it.
LEMMA PassiveStep == TypeOK /\ PassiveInv /\ [Next]_vars => PassiveInv'
<1> SUFFICES ASSUME TypeOK, PassiveInv, [Next]_vars
             PROVE  PushedWithLimit' /\ \A n \in Signals \ Pids : WaitsOnce(n)'
    BY DEF PassiveInv
<1>1. PushedWithLimit /\ \A n \in Signals \ Pids : WaitsOnce(n)
    BY DEF PassiveInv
<1>2. UNCHANGED <<pending, handed>> => PushedWithLimit'
    BY <1>1 DEF PushedWithLimit
<1>3. UNCHANGED signals => \A n \in Signals \ Pids : WaitsOnce(n)'
    BY <1>1 DEF WaitsOnce
<1>4. CASE ListenerReads
    <2>1. PushedWithLimit'
        BY <1>1, <1>4, SignalsOfType DEF ListenerReads, PushedWithLimit
    <2> QED BY <1>3, <1>4, <2>1 DEF ListenerReads, queueVars
<1>5. ASSUME NEW v \in Values, HandsOver(v)
      PROVE  PushedWithLimit' /\ UNCHANGED signals
    <2>1. /\ pending \in Seq(Pushed) /\ pending # <<>>
          /\ handed' = [signal |-> Head(pending), value |-> v]
          /\ pending' = Tail(pending) /\ UNCHANGED signals
        BY <1>5 DEF HandsOver, queueVars, TypeOK
    <2>2. /\ Len(pending) \in Nat \ {0} /\ DOMAIN pending = 1..Len(pending)
          /\ DOMAIN pending' = 1..Len(pending) - 1
          /\ \A i \in 1..Len(pending) - 1 : pending'[i] = pending[i + 1]
          /\ handed'.signal = pending[1]
        <3>1. Len(pending) \in Nat \ {0} /\ DOMAIN pending = 1..Len(pending)
            BY <2>1, LenProperties, EmptySeq
        <3>2. /\ pending' \in Seq(Pushed) /\ Len(pending') = Len(pending) - 1
              /\ \A i \in 1..Len(pending') : pending'[i] = pending[i + 1]
            BY <2>1, HeadTailProperties
        <3>3. DOMAIN pending' = 1..Len(pending')
            BY <3>2, LenProperties
        <3> QED BY <2>1, <3>1, <3>2, <3>3
    <2> QED BY <1>1, <2>1, <2>2 DEF PushedWithLimit
<1>6. CASE ConsumerEnqueues
    <2> DEFINE name == handed.signal.name
               limit == handed.signal.limitFrequency
    <2>1. /\ name \in Signals /\ limit \in BOOLEAN /\ handed.value \in Values
          /\ Enqueue(name, handed.value, limit)
          /\ name \notin Pids => limit = TRUE
          /\ handed' = None /\ pending' = pending
        BY <1>1, <1>6, HandedType DEF ConsumerEnqueues, PushedWithLimit
    <2> HIDE DEF name, limit
    <2>2. \A n \in Signals \ Pids : WaitsOnce(n)'
        BY <1>1, <2>1, EnqueueOnce
    <2>3. PushedWithLimit'
        BY <1>1, <2>1 DEF PushedWithLimit
    <2> QED BY <2>2, <2>3
<1>7. CASE StatusComposes
    <2>1. signals' = EmptyQueue /\ UNCHANGED <<pending, handed>>
        BY <1>7 DEF StatusComposes, Dequeue, listenVars
    <2> QED BY <1>2, <2>1 DEF WaitsOnce, EmptyQueue
<1>8. CASE Restart
    <2>1. signals' = EmptyQueue /\ pending' = <<>> /\ handed' = None
        BY <1>8 DEF Restart
    <2> QED BY <2>1 DEF PushedWithLimit, WaitsOnce, EmptyQueue
<1> USE DEF queueVars, listenVars, obdVars
<1>9. ASSUME NEW voltageOk \in BOOLEAN, ObdWakes(voltageOk)
      PROVE  UNCHANGED <<pending, handed, signals>>
    BY <1>9 DEF ObdWakes
<1>10. ASSUME NEW sent \in BOOLEAN, ObdSends(sent)
       PROVE  UNCHANGED <<pending, handed, signals>>
    BY <1>10 DEF ObdSends
<1>11. ASSUME NEW m \in Pids, NEW last \in BOOLEAN, VehicleAnswers(m, last)
       PROVE  UNCHANGED <<pending, handed, signals>>
    BY <1>11 DEF VehicleAnswers, Carries
<1>12. ASSUME NEW f \in Broadcasts, VehicleBroadcasts(f)
       PROVE  UNCHANGED <<pending, handed, signals>>
    BY <1>12 DEF VehicleBroadcasts, Carries
<1>13. CASE ObdSkips \/ ListenerStarts \/ ListenerPanics \/ Tick \/ UNCHANGED vars
    BY <1>2, <1>3, <1>13 DEF ObdSkips, ListenerStarts, ListenerPanics, Tick, vars
<1> QED BY <1>2, <1>3, <1>4, <1>5, <1>6, <1>7, <1>8, <1>9, <1>10, <1>11,
           <1>12, <1>13 DEF Next

\* A signal of the DBC file waits at most once with a value
\* (worker_runner.go:531).
THEOREM PassiveHolds == Spec => []PassiveWaitsOnce
<1>1. PassiveInv => PassiveWaitsOnce
    <2> SUFFICES ASSUME PassiveInv, NEW h \in DOMAIN Dbc, NEW i \in DOMAIN Dbc[h]
                 PROVE  WaitsOnce(Dbc[h][i])
        BY DEF PassiveWaitsOnce, WaitsOnce
    <2>1. Dbc[h] \in Seq(Signals \ Pids)
        BY NamesAreSignals
    <2>2. Dbc[h][i] \in Signals \ Pids
        BY <2>1, LenProperties, ElementOfSeq
    <2> QED BY <2>2 DEF PassiveInv
<1>2. TypeOK /\ PassiveInv /\ [Next]_vars => TypeOK' /\ PassiveInv'
    BY TypeStep, PassiveStep
<1> QED BY TypeInit, PassiveInit, <1>1, <1>2, PTL DEF Spec
=============================================================================
