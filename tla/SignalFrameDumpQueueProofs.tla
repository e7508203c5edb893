--------------------- MODULE SignalFrameDumpQueueProofs ---------------------
(***************************************************************************)
(* The queue of CAN frame dumps holds at most two frames of a PID, and     *)
(* each captured frame is in one place, for any number of PIDs and of      *)
(* workers.                                                                *)
(***************************************************************************)
EXTENDS SignalFrameDumpQueue, FiniteSetTheorems, TLAPS

\* A PID is captured only while there is room, which nobody else takes: the
\* OBD loop alone adds frames, the workers only take all of them.
CaptureHasRoom ==
    obdPc = "capture" => obdIdx \in Pids /\ wantMoreCanFrameDump(obdIdx)

\* A worker holds frames only between Dequeue and the sending, and only the
\* workers of past cycles run.
HeldWhileSending ==
    \A w \in Workers :
        /\ workerPc[w] # "send" => data[w] = NoFrames
        /\ workerPc[w] # "none" => w <= cycles

\* A worker that turned too often has declared the job done, and ends.
TurnsBounded ==
    \A w \in Workers :
        loopCount[w] > MaxLoops =>
            jobDone = "yes" /\ workerPc[w] \in {"loop", "ended"}

\* The pairs of a worker and the number of one of its frames of p.
HeldIn(d, p) == UNION {{w} \X (1..d[w][p]) : w \in Workers}

\* No frames at all.
LEMMA NoFramesType == NoFrames \in [Pids -> Nat] /\ \A p \in Pids : NoFrames[p] = 0
BY DEF NoFrames

\* As many pairs as there are frames.
LEMMA PairsCount ==
    ASSUME NEW w, NEW n \in Nat
    PROVE  IsFiniteSet({w} \X (1..n)) /\ Cardinality({w} \X (1..n)) = n
<1>1. IsFiniteSet(1..n) /\ Cardinality(1..n) = n
    <2>1. /\ IsFiniteSet(1..n)
          /\ Cardinality(1..n) = IF 1 > n THEN 0 ELSE n - 1 + 1
        BY FS_Interval
    <2> QED BY <2>1
<1>2. IsFiniteSet({w}) /\ Cardinality({w}) = 1
    BY FS_Singleton
<1>3. /\ IsFiniteSet({w} \X (1..n))
      /\ Cardinality({w} \X (1..n)) = Cardinality({w}) * Cardinality(1..n)
    BY <1>1, <1>2, FS_Product
<1>4. 1 * n = n
    OBVIOUS
<1> QED BY <1>1, <1>2, <1>3, <1>4, Zenon

\* What is in HeldIn.
LEMMA HeldPairs ==
    ASSUME NEW d, NEW p, NEW x
    PROVE  x \in HeldIn(d, p) <=>
               \E w \in Workers : \E i \in 1..d[w][p] : x = <<w, i>>
BY DEF HeldIn

\* A worker that held nothing and gets frames adds as many to those held.
LEMMA HeldGrows ==
    ASSUME NEW d \in [Workers -> [Pids -> Nat]], NEW w \in Workers,
           NEW p \in Pids, NEW frames \in [Pids -> Nat],
           d[w] = NoFrames, IsFiniteSet(HeldIn(d, p))
    PROVE  /\ IsFiniteSet(HeldIn([d EXCEPT ![w] = frames], p))
           /\ Cardinality(HeldIn([d EXCEPT ![w] = frames], p)) =
                  Cardinality(HeldIn(d, p)) + frames[p]
<1> DEFINE new == {w} \X (1..frames[p])
           after == [d EXCEPT ![w] = frames]
<1>1. \A v \in Workers : after[v][p] = IF v = w THEN frames[p] ELSE d[v][p]
    OBVIOUS
<1>2. d[w][p] = 0
    BY NoFramesType
<1>3. HeldIn(after, p) = HeldIn(d, p) \cup new
    <2>1. ASSUME NEW x
          PROVE  x \in HeldIn(after, p) <=> x \in HeldIn(d, p) \/ x \in new
        <3> HIDE DEF after
        <3>1. x \in HeldIn(after, p) <=>
                  \E v \in Workers : \E i \in 1..after[v][p] : x = <<v, i>>
            BY HeldPairs
        <3>2. x \in HeldIn(d, p) <=>
                  \E v \in Workers : \E i \in 1..d[v][p] : x = <<v, i>>
            BY HeldPairs
        <3>3. x \in new <=> \E i \in 1..frames[p] : x = <<w, i>>
            OBVIOUS
        <3>4. 1..d[w][p] = {}
            BY <1>2
        <3> HIDE DEF new
        <3> QED BY <1>1, <3>1, <3>2, <3>3, <3>4, Zenon
    <2> HIDE DEF after, new
    <2> QED BY <2>1
<1>4. HeldIn(d, p) \cap new = {}
    <2>1. 1..d[w][p] = {}
        BY <1>2
    <2>2. ASSUME NEW x \in HeldIn(d, p), x \in new PROVE FALSE
        <3>1. PICK v \in Workers : \E i \in 1..d[v][p] : x = <<v, i>>
            BY HeldPairs
        <3>2. \E i \in 1..frames[p] : x = <<w, i>>
            BY <2>2
        <3>3. v = w
            BY <3>1, <3>2
        <3> QED BY <2>1, <3>1, <3>3
    <2> QED BY <2>2
<1>5. IsFiniteSet(new) /\ Cardinality(new) = frames[p]
    BY PairsCount
<1>6. Cardinality(HeldIn(d, p)) \in Nat /\ Cardinality(new) \in Nat
    BY <1>5, FS_CardinalityType
<1>7. /\ IsFiniteSet(HeldIn(d, p) \cup new)
      /\ Cardinality(HeldIn(d, p) \cup new) =
             Cardinality(HeldIn(d, p)) + Cardinality(new)
             - Cardinality(HeldIn(d, p) \cap new)
    BY <1>5, FS_Union
<1>8. Cardinality(HeldIn(d, p) \cap new) = 0
    BY <1>4, FS_EmptySet
<1>9. /\ IsFiniteSet(HeldIn(after, p))
      /\ Cardinality(HeldIn(after, p)) = Cardinality(HeldIn(d, p)) + frames[p]
    <2> HIDE DEF after, new
    <2> QED BY <1>3, <1>5, <1>6, <1>7, <1>8
<1> QED BY <1>9

\* A worker that sent what it held takes as many from those held.
LEMMA HeldShrinks ==
    ASSUME NEW d \in [Workers -> [Pids -> Nat]], NEW w \in Workers,
           NEW p \in Pids, IsFiniteSet(HeldIn(d, p))
    PROVE  /\ IsFiniteSet(HeldIn([d EXCEPT ![w] = NoFrames], p))
           /\ Cardinality(HeldIn(d, p)) =
                  Cardinality(HeldIn([d EXCEPT ![w] = NoFrames], p)) + d[w][p]
<1> DEFINE after == [d EXCEPT ![w] = NoFrames]
<1>1. after \in [Workers -> [Pids -> Nat]] /\ after[w] = NoFrames
    BY NoFramesType
<1>2. \A v \in Workers : after[v][p] = IF v = w THEN 0 ELSE d[v][p]
    BY NoFramesType
<1>3. d[w] \in [Pids -> Nat] /\ d = [after EXCEPT ![w] = d[w]]
    OBVIOUS
<1>4. IsFiniteSet(HeldIn(after, p))
    <2>1. ASSUME NEW x \in HeldIn(after, p) PROVE x \in HeldIn(d, p)
        <3> HIDE DEF after
        <3>1. PICK v \in Workers : \E i \in 1..after[v][p] : x = <<v, i>>
            BY HeldPairs
        <3>2. v # w
            BY <1>2, <3>1
        <3>3. \E i \in 1..d[v][p] : x = <<v, i>>
            BY <1>2, <3>1, <3>2
        <3> QED BY <3>3, HeldPairs
    <2>2. HeldIn(after, p) \subseteq HeldIn(d, p)
        BY <2>1, Zenon
    <2> QED BY <2>2, FS_Subset
<1>5. Cardinality(HeldIn([after EXCEPT ![w] = d[w]], p)) =
          Cardinality(HeldIn(after, p)) + d[w][p]
    <2> DEFINE frames == d[w]
    <2>1. frames \in [Pids -> Nat]
        BY <1>3
    <2> HIDE DEF after, frames
    <2>2. Cardinality(HeldIn([after EXCEPT ![w] = frames], p)) =
              Cardinality(HeldIn(after, p)) + frames[p]
        BY <1>1, <1>4, <2>1, HeldGrows
    <2> QED BY <2>2 DEF frames
<1> QED BY <1>3, <1>4, <1>5

\* The accounts, with what TLAPS needs of the numbers in them.
Accounts ==
    \A p \in Pids :
        /\ IsFiniteSet(HeldIn(data, p))
        /\ captured[p] = signalFrames[p] + Cardinality(HeldIn(data, p))
                          + sent[p] + lost[p]

\* Nobody holds anything at first, and after a loss of power.
LEMMA NothingHeld ==
    ASSUME NEW p \in Pids
    PROVE  /\ IsFiniteSet(HeldIn([w \in Workers |-> NoFrames], p))
           /\ Cardinality(HeldIn([w \in Workers |-> NoFrames], p)) = 0
<1> DEFINE d == [w \in Workers |-> NoFrames]
<1>1. \A w \in Workers : 1..d[w][p] = {}
    BY NoFramesType
<1>2. HeldIn(d, p) = {}
    <2> HIDE DEF d
    <2>1. ASSUME NEW x \in HeldIn(d, p) PROVE FALSE
        BY <1>1, HeldPairs
    <2> QED BY <2>1, Zenon
<1> QED BY <1>2, FS_EmptySet

IInv ==
    /\ TypeOK /\ TurnsBounded
    /\ QueueBounded /\ CaptureHasRoom /\ HeldWhileSending /\ Accounts

\* Everything is empty at first.
LEMMA InitHolds == Init => IInv
<1> SUFFICES ASSUME Init PROVE IInv
    OBVIOUS
<1>1. TypeOK /\ TurnsBounded
    BY NoFramesType, DumpAssumption
    DEF Init, TypeOK, TurnsBounded, determineJobDone, Pids
<1>2. QueueBounded /\ CaptureHasRoom /\ HeldWhileSending
    BY NoFramesType DEF Init, QueueBounded, CaptureHasRoom, HeldWhileSending,
                        maxCanDumpFrames
<1>3. Accounts
    BY NothingHeld, NoFramesType DEF Init, Accounts
<1> QED BY <1>1, <1>2, <1>3 DEF IInv

\* Every step keeps the types.
LEMMA TypeStep ==
    TypeOK /\ TurnsBounded /\ CaptureHasRoom /\ [Next]_vars
    => TypeOK' /\ TurnsBounded'
<1> SUFFICES ASSUME TypeOK, TurnsBounded, CaptureHasRoom, [Next]_vars
             PROVE  TypeOK' /\ TurnsBounded'
    OBVIOUS
<1>12. /\ signalFrames \in [Pids -> Nat] /\ captured \in [Pids -> Nat]
       /\ Enqueue => /\ signalFrames' \in [Pids -> Nat]
                     /\ captured' \in [Pids -> Nat]
    <2>1. signalFrames \in [Pids -> Nat] /\ captured \in [Pids -> Nat]
        BY DEF TypeOK
    <2>2. ASSUME Enqueue PROVE signalFrames' \in [Pids -> Nat]
        <3>1. obdIdx \in Pids
            BY <2>2 DEF Enqueue, CaptureHasRoom
        <3>2. signalFrames' = [signalFrames EXCEPT ![obdIdx] =
                                   signalFrames[obdIdx] + 1]
            BY <2>2 DEF Enqueue
        <3>3. signalFrames[obdIdx] + 1 \in Nat
            BY <2>1, <3>1
        <3> QED BY <2>1, <3>1, <3>2, <3>3
    <2>3. ASSUME Enqueue PROVE captured' \in [Pids -> Nat]
        <3>1. obdIdx \in Pids
            BY <2>3 DEF Enqueue, CaptureHasRoom
        <3>2. captured' = [captured EXCEPT ![obdIdx] = captured[obdIdx] + 1]
            BY <2>3 DEF Enqueue
        <3>3. captured[obdIdx] + 1 \in Nat
            BY <2>1, <3>1
        <3> QED BY <2>1, <3>1, <3>2, <3>3
    <2> QED BY <2>1, <2>2, <2>3
<1> USE DumpAssumption, NoFramesType DEF TypeOK, TurnsBounded, Goes
<1>1. CASE queryOBD
    <2>1. 1 \in 1..NumPids + 1 /\ cycles + 1 \in 0..MaxCycles
        BY <1>1 DEF queryOBD
    <2>2. TypeOK'
        BY <1>1, <2>1 DEF queryOBD, historyVars
    <2>3. TurnsBounded'
        BY <1>1 DEF queryOBD
    <2> QED BY <2>2, <2>3
<1>2. CASE Skips
    <2>1. obdIdx + 1 \in 1..NumPids + 1
        BY <1>2 DEF Skips, Pids
    <2>2. TypeOK'
        BY <1>2, <2>1 DEF Skips, workerVars, historyVars
    <2>3. TurnsBounded'
        BY <1>2 DEF Skips, workerVars
    <2> QED BY <2>2, <2>3
<1>3. CASE Enqueue
    <2>1. obdIdx + 1 \in 1..NumPids + 1
        BY <1>3 DEF Enqueue, CaptureHasRoom, Pids
    <2>2. signalFrames' \in [Pids -> Nat] /\ captured' \in [Pids -> Nat]
        BY <1>3, <1>12
    <2>3. TurnsBounded'
        BY <1>3 DEF Enqueue, workerVars
    <2>4. TypeOK'
        BY <1>3, <2>1, <2>2 DEF Enqueue, workerVars, historyVars
    <2> QED BY <2>3, <2>4
<1>4. ASSUME NEW w \in Workers,
             Ends(w) \/ SeesFrames(w) \/ SeesNothing(w) \/ Marks(w) \/ Writes(w)
      PROVE  TypeOK' /\ TurnsBounded'
    BY <1>4 DEF Ends, SeesFrames, SeesNothing, Marks, Writes, obdVars,
                historyVars
<1>5. ASSUME NEW w \in Workers, Dequeue(w) PROVE TypeOK' /\ TurnsBounded'
    BY <1>5 DEF Dequeue, obdVars, historyVars
<1>6. ASSUME NEW w \in Workers, Sends(w) PROVE TypeOK' /\ TurnsBounded'
    <2>1. /\ Plus(sent, data[w]) \in [Pids -> Nat]
          /\ Plus(lost, data[w]) \in [Pids -> Nat]
        BY DEF Plus
    <2> QED BY <1>6, <2>1 DEF Sends, obdVars
<1>7. CASE StartsCapture \/ EndsScan
    BY <1>7 DEF StartsCapture, EndsScan, workerVars, historyVars
<1>8. ASSUME NEW w \in Workers, Wakes(w)
       PROVE  TypeOK' /\ TurnsBounded'
    <2>1. loopCount[w] <= MaxLoops /\ loopCount[w] \in Nat
        BY <1>8 DEF Wakes
    <2>2. loopCount[w] + 1 \in 0..MaxLoops + 1
        BY <2>1
    <2>3. /\ loopCount' = [loopCount EXCEPT ![w] = loopCount[w] + 1]
          /\ workerPc[w] = "sleep"
          /\ workerPc' = [workerPc EXCEPT ![w] = "loop"]
        BY <1>8 DEF Wakes
    <2>4. jobDone' = IF loopCount[w] + 1 > MaxLoops THEN "yes" ELSE jobDone
        BY <1>8, <2>3 DEF Wakes
    <2>5. TypeOK'
        BY <1>8, <2>2, <2>3, <2>4 DEF Wakes, obdVars, historyVars
    <2>6. TurnsBounded'
        BY <2>1, <2>3, <2>4
    <2> QED BY <2>5, <2>6
<1>9. CASE PowerCycle
    <2>1. 1 \in 1..NumPids + 1 /\ 0 \in 0..MaxCycles /\ 0 \in 0..MaxLoops + 1
        OBVIOUS
    <2> QED BY <1>9, <2>1 DEF PowerCycle, determineJobDone
<1>10. CASE MonthPasses
    BY <1>10 DEF MonthPasses, obdVars, workerVars, historyVars
<1>11. CASE UNCHANGED vars
    BY <1>11 DEF vars, obdVars, workerVars, historyVars
<1> QED BY <1>1, <1>2, <1>3, <1>4, <1>5, <1>6, <1>7, <1>8, <1>9,
           <1>10, <1>11
        DEF Next, ObdStep, WorkerStep

\* Frames are added one at a time by a capture that had room, and taken all
\* at once.
LEMMA QueueStep ==
    TypeOK /\ QueueBounded /\ CaptureHasRoom /\ [Next]_vars
    => QueueBounded' /\ CaptureHasRoom'
<1> SUFFICES ASSUME TypeOK, QueueBounded, CaptureHasRoom, [Next]_vars
             PROVE  QueueBounded' /\ CaptureHasRoom'
    OBVIOUS
<1>1. signalFrames \in [Pids -> Nat]
    BY DEF TypeOK
<1> USE NoFramesType DEF QueueBounded, CaptureHasRoom, wantMoreCanFrameDump,
                         maxCanDumpFrames
<1>2. CASE StartsCapture
    BY <1>2 DEF StartsCapture, ShouldCaptureReq
<1>3. CASE Enqueue
    BY <1>1, <1>3 DEF Enqueue
<1>4. ASSUME signalFrames' = signalFrames \/ signalFrames' = NoFrames,
             obdPc' = "capture" => obdPc = "capture", obdIdx' = obdIdx \/ obdPc' # "capture"
      PROVE  QueueBounded' /\ CaptureHasRoom'
    BY <1>1, <1>4
<1>5. CASE queryOBD \/ Skips \/ EndsScan \/ PowerCycle \/ MonthPasses
           \/ UNCHANGED vars
    BY <1>4, <1>5 DEF queryOBD, Skips, EndsScan, PowerCycle, MonthPasses, vars,
                      obdVars
<1>6. ASSUME NEW w \in Workers, WorkerStep(w)
      PROVE  QueueBounded' /\ CaptureHasRoom'
    BY <1>4, <1>6 DEF WorkerStep, Ends, SeesFrames, SeesNothing, Dequeue,
                      Sends, Marks, Writes, Wakes, obdVars
<1> QED BY <1>2, <1>3, <1>5, <1>6 DEF Next, ObdStep

\* A step moves each frame as a whole from one place to the next.
LEMMA AccountsStep ==
    TypeOK /\ HeldWhileSending /\ CaptureHasRoom /\ Accounts /\ [Next]_vars
    => HeldWhileSending' /\ Accounts'
<1> SUFFICES ASSUME TypeOK, HeldWhileSending, CaptureHasRoom, Accounts,
                    [Next]_vars
             PROVE  HeldWhileSending' /\ Accounts'
    OBVIOUS
<1>1. /\ signalFrames \in [Pids -> Nat] /\ captured \in [Pids -> Nat]
      /\ sent \in [Pids -> Nat] /\ lost \in [Pids -> Nat]
      /\ data \in [Workers -> [Pids -> Nat]]
      /\ workerPc \in [Workers -> {"none", "loop", "dequeue", "send", "mark",
                                   "write", "sleep", "ended"}]
    BY DEF TypeOK
<1>2. \A p \in Pids : /\ IsFiniteSet(HeldIn(data, p))
                      /\ Cardinality(HeldIn(data, p)) \in Nat
    BY FS_CardinalityType DEF Accounts
<1>3. ASSUME UNCHANGED <<signalFrames, captured, data, sent, lost>>
      PROVE  Accounts'
    BY <1>3 DEF Accounts
<1>4. CASE Skips \/ StartsCapture \/ EndsScan \/ MonthPasses \/ UNCHANGED vars
    <2>1. /\ UNCHANGED <<signalFrames, captured, data, sent, lost>>
          /\ workerPc' = workerPc /\ cycles' = cycles
        BY <1>4 DEF Skips, StartsCapture, EndsScan, MonthPasses, vars,
                    obdVars, workerVars, historyVars
    <2> QED BY <1>3, <2>1 DEF HeldWhileSending
<1>5. CASE queryOBD
    <2>1. /\ UNCHANGED <<signalFrames, captured, data, sent, lost>>
          /\ workerPc' = [workerPc EXCEPT ![cycles + 1] = "loop"]
          /\ cycles' = cycles + 1 /\ cycles \in Nat
        BY <1>5, DumpAssumption DEF queryOBD, historyVars, TypeOK
    <2>2. cycles + 1 \in Workers => data[cycles + 1] = NoFrames
        BY <1>1, <2>1 DEF HeldWhileSending
    <2>3. \A w \in Workers :
              workerPc'[w] = IF w = cycles + 1 THEN "loop" ELSE workerPc[w]
        BY <1>1, <2>1
    <2>4. \A w \in Workers : w \in Nat
        BY DumpAssumption DEF Workers
    <2>5. HeldWhileSending'
        BY <2>1, <2>2, <2>3, <2>4 DEF HeldWhileSending
    <2> QED BY <1>3, <2>1, <2>5
<1>6. CASE Enqueue
    <2>1. /\ signalFrames' = [signalFrames EXCEPT ![obdIdx] = @ + 1]
          /\ captured' = [captured EXCEPT ![obdIdx] = @ + 1]
          /\ obdIdx \in Pids
          /\ UNCHANGED <<data, sent, lost, workerPc, cycles>>
        BY <1>6 DEF Enqueue, CaptureHasRoom, workerVars, historyVars
    <2>2. HeldWhileSending'
        BY <2>1 DEF HeldWhileSending
    <2>3. Accounts'
        BY <1>1, <1>2, <2>1 DEF Accounts
    <2> QED BY <2>2, <2>3
<1>7. ASSUME NEW w \in Workers,
             \/ Ends(w) \/ SeesFrames(w) \/ SeesNothing(w) \/ Marks(w)
             \/ Writes(w) \/ Wakes(w)
      PROVE  HeldWhileSending' /\ Accounts'
    <2>1. /\ UNCHANGED <<signalFrames, captured, data, sent, lost, cycles>>
          /\ workerPc[w] \notin {"send", "none"}
          /\ \E to \in {"ended", "dequeue", "sleep", "write", "loop"} :
                 workerPc' = [workerPc EXCEPT ![w] = to]
        BY <1>7 DEF Ends, SeesFrames, SeesNothing, Marks, Writes, Wakes, Goes,
                    obdVars, historyVars
    <2>2. HeldWhileSending'
        BY <1>1, <2>1 DEF HeldWhileSending
    <2> QED BY <1>3, <2>1, <2>2
<1>8. ASSUME NEW w \in Workers, Dequeue(w)
      PROVE  HeldWhileSending' /\ Accounts'
    <2>1. /\ data' = [data EXCEPT ![w] = signalFrames]
          /\ signalFrames' = NoFrames
          /\ UNCHANGED <<captured, sent, lost, cycles>>
          /\ workerPc[w] = "dequeue"
          /\ workerPc' = [workerPc EXCEPT ![w] = "send"]
        BY <1>8 DEF Dequeue, Goes, obdVars, historyVars
    <2>2. HeldWhileSending'
        BY <1>1, <2>1 DEF HeldWhileSending
    <2>3. data[w] = NoFrames
        BY <2>1 DEF HeldWhileSending
    <2>4. ASSUME NEW p \in Pids
          PROVE  /\ IsFiniteSet(HeldIn(data', p))
                 /\ captured'[p] = signalFrames'[p]
                        + Cardinality(HeldIn(data', p)) + sent'[p] + lost'[p]
        <3>1. /\ IsFiniteSet(HeldIn([data EXCEPT ![w] = signalFrames], p))
              /\ Cardinality(HeldIn([data EXCEPT ![w] = signalFrames], p)) =
                     Cardinality(HeldIn(data, p)) + signalFrames[p]
            BY <1>1, <1>2, <2>3, HeldGrows
        <3>2. signalFrames'[p] = 0 /\ signalFrames[p] \in Nat
            BY <1>1, <2>1, NoFramesType
        <3>3. captured[p] = signalFrames[p] + Cardinality(HeldIn(data, p))
                            + sent[p] + lost[p]
            BY DEF Accounts
        <3>4. sent[p] \in Nat /\ lost[p] \in Nat
            BY <1>1
        <3> QED BY <1>2, <2>1, <3>1, <3>2, <3>3, <3>4
    <2> QED BY <2>2, <2>4 DEF Accounts
<1>9. ASSUME NEW w \in Workers, Sends(w)
      PROVE  HeldWhileSending' /\ Accounts'
    <2>1. /\ data' = [data EXCEPT ![w] = NoFrames]
          /\ UNCHANGED <<signalFrames, captured, cycles>>
          /\ \/ sent' = Plus(sent, data[w]) /\ lost' = lost
             \/ lost' = Plus(lost, data[w]) /\ sent' = sent
          /\ workerPc[w] = "send"
          /\ workerPc' = [workerPc EXCEPT ![w] = "mark"]
        BY <1>9 DEF Sends, Goes, obdVars
    <2>2. HeldWhileSending'
        BY <1>1, <2>1 DEF HeldWhileSending
    <2>3. ASSUME NEW p \in Pids
          PROVE  /\ IsFiniteSet(HeldIn(data', p))
                 /\ captured'[p] = signalFrames'[p]
                        + Cardinality(HeldIn(data', p)) + sent'[p] + lost'[p]
        <3>1. /\ IsFiniteSet(HeldIn([data EXCEPT ![w] = NoFrames], p))
              /\ Cardinality(HeldIn(data, p)) =
                     Cardinality(HeldIn([data EXCEPT ![w] = NoFrames], p))
                     + data[w][p]
            BY <1>1, <1>2, HeldShrinks
        <3>2. sent'[p] + lost'[p] = sent[p] + lost[p] + data[w][p]
            BY <1>1, <2>1 DEF Plus
        <3>3. /\ captured[p] = signalFrames[p] + Cardinality(HeldIn(data, p))
                               + sent[p] + lost[p]
              /\ captured[p] \in Nat /\ signalFrames[p] \in Nat
              /\ sent[p] \in Nat /\ lost[p] \in Nat /\ data[w][p] \in Nat
            BY <1>1 DEF Accounts
        <3>4. Cardinality(HeldIn([data EXCEPT ![w] = NoFrames], p)) \in Nat
            BY <3>1, FS_CardinalityType
        <3>5. sent'[p] \in Nat /\ lost'[p] \in Nat
            BY <1>1, <2>1 DEF Plus
        <3> QED BY <2>1, <3>1, <3>2, <3>3, <3>4, <3>5
    <2> QED BY <2>2, <2>3 DEF Accounts
<1>10. CASE PowerCycle
    <2>1. HeldWhileSending'
        BY <1>10 DEF PowerCycle, HeldWhileSending
    <2>2. Accounts'
        BY <1>10, NothingHeld, NoFramesType DEF PowerCycle, Accounts
    <2> QED BY <2>1, <2>2
<1> QED BY <1>4, <1>5, <1>6, <1>7, <1>8, <1>9, <1>10
        DEF Next, ObdStep, WorkerStep

\* All of it together.
LEMMA StepHolds == IInv /\ [Next]_vars => IInv'
BY TypeStep, QueueStep, AccountsStep DEF IInv

\* Every variable keeps its type; the turns of a worker end
\* (signal_frame_dump_q.go:117).
THEOREM TypeCorrect == Spec => []TypeOK
<1>1. IInv => TypeOK
    BY DEF IInv
<1> QED BY InitHolds, StepHolds, <1>1, PTL DEF Spec

\* No more than two frames of a PID wait (wantMoreCanFrameDump, Enqueue).
THEOREM QueueHolds == Spec => []QueueBounded
<1>1. IInv => QueueBounded
    BY DEF IInv
<1> QED BY InitHolds, StepHolds, <1>1, PTL DEF Spec

\* Each captured frame is in one place, however many workers race
\* (Enqueue, Dequeue, SenderWorker).
THEOREM AccountsHold == Spec => []FramesAccountedFor
<1>1. IInv => FramesAccountedFor
    BY DEF IInv, Accounts, FramesAccountedFor, Held, HeldIn
<1> QED BY InitHolds, StepHolds, <1>1, PTL DEF Spec
=============================================================================
