--------------------------- MODULE OnDemandProofs ---------------------------
(***************************************************************************)
(* Proofs about what the device does when a phone or the OBD loop asks for *)
(* it: the passive scan for a VIN (PassiveScan), for any set of scans, any *)
(* types and any number of cycles, and the signing and the diagnostic      *)
(* codes (BleRequests), for any number of overlapping requests. That a     *)
(* scan is disturbed only by a late reader needs to know that one caller   *)
(* waits at a time and that a reader which has taken can0 down under a     *)
(* waiting caller is one whose own caller left it.                         *)
(***************************************************************************)
EXTENDS PassiveScan, BleRequests, TLAPS

(* The passive scan. *)

\* One caller waits at a time.
Alone == \A s, t \in Scans : caller[s] = "waits" /\ caller[t] = "waits" => s = t

\* A scan has a reader since its call, and what it returned says which of its
\* goroutines has ended.
Ends ==
    \A s \in Scans :
        /\ reader[s] = "none" <=> caller[s] = "idle"
        /\ reader[s] = "done" <=> caller[s] \in {"vin", "novin"}
        /\ timer[s] = "done" <=> caller[s] = "timeout"

\* Before a socket is open nothing has happened to it, and once a reader has
\* brought can0 up it is never again as if nobody had.
Fresh ==
    \A s \in Scans :
        /\ reader[s] \in {"none", "setsUp", "dials"} => downBy[s] = None
        /\ reader[s] \in {"none", "setsUp"} => ~broughtUp[s]
        /\ broughtUp[s] => can0 # Off /\ downBy[s] # Off

\* Who took can0 down under a caller that waits, and whose reader had brought it
\* up, is a reader left behind.
Late ==
    \A s, t \in Scans :
        /\ caller[s] = "waits" /\ broughtUp[s]
        /\ downBy[s] = t \/ (reader[s] = "dials" /\ can0 = t)
        => t # s /\ caller[t] = "timeout"

\* A reader leaves its loop for one of three reasons.
Left ==
    \A s \in Scans :
        reader[s] \in {"leaves", "sends", "done"} /\ vin[s] = "none" /\ loops[s] <= Cycles
            => downBy[s] # None

\* A reader that goes on has not read more than its cycles.
InCycles ==
    \A s \in Scans :
        reader[s] \in {"none", "setsUp", "dials", "reads"} => loops[s] <= Cycles

ScanInv == ScanTypeOK /\ InCycles /\ Alone /\ Ends /\ Fresh /\ Late /\ Left /\ DisturbedByLate

LEMMA ScanInitInv == ASSUME ScanInit PROVE ScanInv
BY ScanAssumption DEF ScanInit, ScanInv, ScanTypeOK, InCycles, Alone, Ends, Fresh, Late, Left, DisturbedByLate, Segments

LEMMA ScanStepInv == ASSUME ScanInv, [ScanNext]_scanVars PROVE ScanInv'
<1> USE ScanAssumption
<1>1. CASE UNCHANGED scanVars
  BY <1>1, ScanInv DEF ScanInv, ScanTypeOK, InCycles, Alone, Ends, Fresh, Late, Left, DisturbedByLate, scanVars
<1>2. ASSUME NEW s \in Scans, Starts(s) PROVE ScanInv'
  BY <1>2, ScanInv DEF Starts, ScanInv, ScanTypeOK, InCycles, Alone, Ends, Fresh, Late, Left, DisturbedByLate
<1>3. ASSUME NEW s \in Scans, SetsUp(s) PROVE ScanInv'
  BY <1>3, ScanInv DEF SetsUp, ScanInv, ScanTypeOK, InCycles, Alone, Ends, Fresh, Late, Left, DisturbedByLate
<1>4. ASSUME NEW s \in Scans, Dials(s) PROVE ScanInv'
  BY <1>4, ScanInv DEF Dials, ScanInv, ScanTypeOK, InCycles, Alone, Ends, Fresh, Late, Left, DisturbedByLate
<1>5. ASSUME NEW s \in Scans, DialFails(s) PROVE ScanInv'
  BY <1>5, ScanInv DEF DialFails, ScanInv, ScanTypeOK, InCycles, Alone, Ends, Fresh, Late, Left, DisturbedByLate
<1>6. ASSUME NEW s \in Scans, Receives(s) PROVE ScanInv'
  <2> USE <1>6, ScanInv
  <2>1. /\ reader[s] = "reads"
        /\ reader' = [reader EXCEPT ![s] = IF Complete(seen'[s]) \/ loops'[s] > Cycles
                                           THEN "leaves" ELSE "reads"]
        /\ loops' = [loops EXCEPT ![s] = @ + 1]
        /\ UNCHANGED <<process, can0, caller, timer, downBy, broughtUp>>
    BY DEF Receives
  <2>2. PICK f \in Segments \cup {Other} :
          seen' = [seen EXCEPT ![s] = IF f = Other THEN @ ELSE @ \cup {f}]
    BY DEF Receives
  <2>3. \/ Complete(seen'[s]) /\ \E v \in {"valid", "invalid"} : vin' = [vin EXCEPT ![s] = v]
        \/ ~Complete(seen'[s]) /\ vin' = vin
    BY DEF Receives
  <2>4. loops[s] \in 0 .. Cycles
    <3>1. loops[s] \in 0 .. Cycles + 1
      BY DEF ScanInv, ScanTypeOK
    <3>2. QED
      BY <2>1, <3>1 DEF ScanInv, InCycles
  <2>5. ScanTypeOK'
    <3>1. seen' \in [Scans -> SUBSET Segments]
      BY <2>2 DEF ScanInv, ScanTypeOK
    <3>2. reader' \in [Scans -> {"none", "setsUp", "dials", "reads", "leaves", "sends", "done"}]
      BY <2>1 DEF ScanInv, ScanTypeOK
    <3>3. vin' \in [Scans -> {"none", "valid", "invalid"}]
      BY <2>3 DEF ScanInv, ScanTypeOK
    <3>4. loops' \in [Scans -> 0 .. Cycles + 1]
      BY <2>1, <2>4 DEF ScanInv, ScanTypeOK
    <3>5. QED
      BY <2>1, <3>1, <3>2, <3>3, <3>4 DEF ScanInv, ScanTypeOK
  <2>6. InCycles' /\ Alone' /\ Ends' /\ Fresh' /\ Late'
    BY <2>1, <2>4 DEF ScanInv, ScanTypeOK, InCycles, Alone, Ends, Fresh, Late
  <2>7. Left' /\ DisturbedByLate'
    <3>1. reader'[s] = "leaves" => vin'[s] # "none" \/ loops'[s] > Cycles
      BY <2>1, <2>3 DEF ScanInv, ScanTypeOK
    <3>2. caller[s] # "novin"
      BY <2>1 DEF ScanInv, Ends
    <3>3. \A t \in Scans \ {s} : /\ vin'[t] = vin[t] /\ loops'[t] = loops[t]
                                /\ reader'[t] = reader[t]
      BY <2>1, <2>3 DEF ScanInv, ScanTypeOK
    <3>4. reader'[s] \in {"leaves", "reads"} /\ loops'[s] \in Nat
      BY <2>1, <2>5 DEF ScanInv, ScanTypeOK
    <3>5. Left'
      BY <2>1, <3>1, <3>3, <3>4 DEF ScanInv, Left
    <3>6. DisturbedByLate'
      BY <2>1, <3>2, <3>3 DEF ScanInv, DisturbedByLate
    <3>7. QED
      BY <3>5, <3>6
  <2>8. QED
    BY <2>5, <2>6, <2>7 DEF ScanInv
<1>7. ASSUME NEW s \in Scans, ReceiveFails(s) PROVE ScanInv'
  BY <1>7, ScanInv DEF ReceiveFails, ScanInv, ScanTypeOK, InCycles, Alone, Ends, Fresh, Late, Left, DisturbedByLate
<1>8. ASSUME NEW s \in Scans, SetsDown(s) PROVE ScanInv'
  BY <1>8, ScanInv DEF SetsDown, ScanInv, ScanTypeOK, InCycles, Alone, Ends, Fresh, Late, Left, DisturbedByLate
<1>9. ASSUME NEW s \in Scans, TimerFires(s) PROVE ScanInv'
  BY <1>9, ScanInv DEF TimerFires, ScanInv, ScanTypeOK, InCycles, Alone, Ends, Fresh, Late, Left, DisturbedByLate
<1>10. ASSUME NEW s \in Scans, GetsResult(s) PROVE ScanInv'
  BY <1>10, ScanInv DEF GetsResult, ScanInv, ScanTypeOK, InCycles, Alone, Ends, Fresh, Late, Left, DisturbedByLate
<1>11. ASSUME NEW s \in Scans, GetsTimeout(s) PROVE ScanInv'
  BY <1>11, ScanInv DEF GetsTimeout, ScanInv, ScanTypeOK, InCycles, Alone, Ends, Fresh, Late, Left, DisturbedByLate
<1>12. ASSUME NEW s \in Scans, NewFails(s) PROVE ScanInv'
  BY <1>12, ScanInv DEF NewFails, ScanInv, ScanTypeOK, InCycles, Alone, Ends, Fresh, Late, Left, DisturbedByLate
<1>13. ASSUME NEW s \in Scans, StaysUp(s) PROVE ScanInv'
  BY <1>13, ScanInv DEF StaysUp, ScanInv, ScanTypeOK, InCycles, Alone, Ends, Fresh, Late, Left, DisturbedByLate
<1>14. QED
  BY <1>1, <1>2, <1>3, <1>4, <1>5, <1>6, <1>7, <1>8, <1>9, <1>10, <1>11, <1>12, <1>13
  DEF ScanNext, Reader, Selects

\* Every variable of the scan keeps its type.
THEOREM ScanTypeCorrect == ScanSpec => []ScanTypeOK
<1>1. ScanInv => ScanTypeOK
  BY DEF ScanInv
<1>2. QED
  BY <1>1, ScanInitInv, ScanStepInv, PTL DEF ScanSpec

\* A scan without a VIN whose reader had brought can0 up and was cut off was
\* disturbed by the reader of a scan that had timed out (SetUp and the deferred
\* SetDown of ReadCitroenVIN).
THEOREM DisturbedHolds == ScanSpec => []DisturbedByLate
<1>1. ScanInv => DisturbedByLate
  BY DEF ScanInv
<1>2. QED
  BY <1>1, ScanInitInv, ScanStepInv, PTL DEF ScanSpec

\* A scan is answered by its reader or by its timer, and the other one stays.
THEOREM AnsweredHolds == ScanSpec => []AnsweredOnce
<1>1. ScanInv => AnsweredOnce
  BY DEF ScanInv, Ends, ScanTypeOK, AnsweredOnce
<1>2. QED
  BY <1>1, ScanInitInv, ScanStepInv, PTL DEF ScanSpec
-----------------------------------------------------------------------------
(* The requests of a phone. *)

\* The handlers at work are the last one and those it overtook.
Known == InFlight \subseteq overlapped \cup {lastWrite}

\* Between the car's clear and the next code it stores it has none, ...
Cleared == clearing = "done" => codes = "no"

\* ... and after a clear in time nothing else can have got any.
Clean ==
    clear = "clean" =>
        /\ codes = "no" /\ lastDTC # "codes"
        /\ \A r \in Readers : readPc[r] # "idle" => found[r] # "codes"

IInv ==
    /\ TypeOK /\ Known /\ FreshSignature /\ SignedIsReadable
    /\ Cleared /\ Clean

\* The first start satisfies the invariant.
LEMMA InitHolds == Init => IInv
<1> SUFFICES ASSUME Init PROVE IInv
    OBVIOUS
<1>1. TypeOK
    BY DEF Init, TypeOK
<1>2. InFlight = {}
    BY DEF Init, InFlight
<1>3. Known /\ FreshSignature /\ SignedIsReadable
    BY <1>2 DEF Init, Known, FreshSignature, SignedIsReadable
<1>4. Cleared /\ Clean
    BY DEF Init, Cleared, Clean
<1> QED BY <1>1, <1>3, <1>4 DEF IInv

\* Every step keeps the types.
LEMMA TypeStep == TypeOK /\ [Next]_vars => TypeOK'
<1> SUFFICES ASSUME TypeOK, [Next]_vars PROVE TypeOK'
    OBVIOUS
<1>1. /\ faults \in Nat /\ boots \in Nat
      /\ faults + 1 \in Nat /\ boots + 1 \in Nat
    <2>1. faults \in Nat /\ boots \in Nat
        BY DEF TypeOK
    <2> QED BY <2>1
<1> USE DEF TypeOK, signVars, dtcVars, readVars
<1>2. ASSUME NEW w \in Writes, NEW valid \in BOOLEAN, WritesHash(w, valid)
      PROVE  TypeOK'
    BY <1>2 DEF WritesHash, Comes, InFlight
<1>3. ASSUME NEW w \in Writes, Signs(w) \/ SignFails(w) PROVE TypeOK'
    BY <1>3 DEF Signs, SignFails
<1>4. ASSUME NEW r \in Readers, ReadsCachedDTC(r) PROVE TypeOK'
    BY <1>4 DEF ReadsCachedDTC
<1>5. ASSUME NEW r \in Readers, AsksDTC(r) PROVE TypeOK'
    BY <1>5 DEF AsksDTC, InCar
<1>6. ASSUME NEW r \in Readers, ShowsDTC(r) PROVE TypeOK'
    BY <1>6 DEF ShowsDTC
<1>7. CASE StartsClearing \/ CarClears \/ ClearFails
    BY <1>7 DEF StartsClearing, CarClears, ClearFails
<1>8. CASE Clears
    BY <1>8 DEF Clears, ClearEnds
<1>9. CASE FaultOccurs
    BY <1>1, <1>9 DEF FaultOccurs
<1>10. CASE Restarts
    BY <1>1, <1>10 DEF Restarts
<1>11. CASE UNCHANGED vars
    BY <1>11 DEF vars
<1> QED BY <1>2, <1>3, <1>4, <1>5, <1>6, <1>7, <1>8, <1>9, <1>10, <1>11
        DEF Next

\* Every step keeps what is known of the signature.
LEMMA SignStep ==
    /\ TypeOK /\ Known /\ FreshSignature /\ SignedIsReadable /\ [Next]_vars
    => Known' /\ FreshSignature' /\ SignedIsReadable'
<1> SUFFICES ASSUME TypeOK, Known, FreshSignature, SignedIsReadable,
                    [Next]_vars
             PROVE  Known' /\ FreshSignature' /\ SignedIsReadable'
    OBVIOUS
<1>1. /\ writePc \in [Writes -> {"new", "signing", "ok", "failed", "lost"}]
      /\ lastSignature \in Writes \cup {0} /\ lastWrite \in Writes \cup {0}
      /\ 0 \notin Writes
    <2>1. 0 \notin Writes
        BY RequestAssumption DEF Writes
    <2> QED BY <2>1 DEF TypeOK
<1> USE DEF Known, InFlight, FreshSignature, SignedIsReadable
<1>2. ASSUME NEW w \in Writes, NEW valid \in BOOLEAN, WritesHash(w, valid)
      PROVE  Known' /\ FreshSignature' /\ SignedIsReadable'
    BY <1>1, <1>2 DEF WritesHash, Comes
<1>3. ASSUME NEW w \in Writes, Signs(w)
      PROVE  Known' /\ FreshSignature' /\ SignedIsReadable'
    BY <1>1, <1>3 DEF Signs
<1>4. ASSUME NEW w \in Writes, SignFails(w)
      PROVE  Known' /\ FreshSignature' /\ SignedIsReadable'
    BY <1>1, <1>4 DEF SignFails
<1>5. UNCHANGED signVars => Known' /\ FreshSignature' /\ SignedIsReadable'
    BY DEF signVars
<1>6. ASSUME NEW r \in Readers, ReadsCachedDTC(r) \/ AsksDTC(r) \/ ShowsDTC(r)
      PROVE  Known' /\ FreshSignature' /\ SignedIsReadable'
    BY <1>5, <1>6 DEF ReadsCachedDTC, AsksDTC, ShowsDTC
<1>7. CASE StartsClearing \/ CarClears \/ Clears \/ ClearFails \/ FaultOccurs
    BY <1>5, <1>7
    DEF StartsClearing, CarClears, Clears, ClearEnds, ClearFails, FaultOccurs
<1>8. CASE Restarts
    BY <1>1, <1>8 DEF Restarts
<1>9. CASE UNCHANGED vars
    BY <1>5, <1>9 DEF vars
<1> QED BY <1>2, <1>3, <1>4, <1>6, <1>7, <1>8, <1>9 DEF Next

\* Every step keeps what is known of the diagnostic codes.
LEMMA CodesStep == TypeOK /\ Cleared /\ Clean /\ [Next]_vars => Cleared' /\ Clean'
<1> SUFFICES ASSUME TypeOK, Cleared, Clean, [Next]_vars
             PROVE  Cleared' /\ Clean'
    OBVIOUS
<1>1. /\ readPc \in [Readers -> {"idle", "asked", "shown"}]
      /\ found \in [Readers -> {"codes", "0", "error"}]
      /\ clearing \in {"no", "asked", "done", "again"}
    BY DEF TypeOK
<1> USE DEF Cleared, Clean
<1>2. UNCHANGED dtcVars => Cleared' /\ Clean'
    BY DEF dtcVars, readVars
<1>3. ASSUME NEW w \in Writes, NEW valid \in BOOLEAN, WritesHash(w, valid)
      PROVE  Cleared' /\ Clean'
    BY <1>2, <1>3 DEF WritesHash, Comes
<1>4. ASSUME NEW w \in Writes, Signs(w) \/ SignFails(w)
      PROVE  Cleared' /\ Clean'
    BY <1>2, <1>4 DEF Signs, SignFails
<1>5. ASSUME NEW r \in Readers, ReadsCachedDTC(r) PROVE Cleared' /\ Clean'
    BY <1>1, <1>5 DEF ReadsCachedDTC
<1>6. ASSUME NEW r \in Readers, AsksDTC(r) PROVE Cleared' /\ Clean'
    BY <1>1, <1>6 DEF AsksDTC, InCar
<1>7. ASSUME NEW r \in Readers, ShowsDTC(r) PROVE Cleared' /\ Clean'
    BY <1>1, <1>7 DEF ShowsDTC
<1>8. CASE StartsClearing \/ ClearFails
    BY <1>8 DEF StartsClearing, ClearFails, readVars
<1>9. CASE CarClears
    BY <1>9 DEF CarClears, readVars
<1>10. CASE Clears
    <2>1. ASSUME clear' = "clean"
          PROVE  /\ codes' = "no" /\ lastDTC' = ""
                 /\ \A r \in Readers : readPc'[r] = "idle"
        BY <1>1, <1>10, <2>1 DEF Clears, ClearEnds, Unread
    <2> QED BY <1>10, <2>1 DEF Clears, ClearEnds
<1>11. CASE FaultOccurs
    BY <1>1, <1>11 DEF FaultOccurs, readVars
<1>12. CASE Restarts
    BY <1>12 DEF Restarts
<1>13. CASE UNCHANGED vars
    BY <1>2, <1>13 DEF vars
<1> QED BY <1>3, <1>4, <1>5, <1>6, <1>7, <1>8, <1>9, <1>10, <1>11, <1>12,
           <1>13 DEF Next

\* Together.
LEMMA StepHolds == IInv /\ [Next]_vars => IInv'
BY TypeStep, SignStep, CodesStep DEF IInv

\* Every variable keeps its type: an error never gets into the cache of the
\* codes, so the next read asks again (ble_chars.go:518-537).
THEOREM TypeCorrect == Spec => []TypeOK
<1>1. IInv => TypeOK
    BY DEF IInv
<1> QED BY InitHolds, StepHolds, <1>1, PTL DEF Spec

\* A signature that can be read is not older than the handlers the last hash
\* found at work (ble_chars.go:656-670).
THEOREM FreshHolds == Spec => []FreshSignature
<1>1. IInv => FreshSignature
    BY DEF IInv
<1> QED BY InitHolds, StepHolds, <1>1, PTL DEF Spec

\* A signed hash leaves a signature (ble_chars.go:656-670).
THEOREM SignedHolds == Spec => []SignedIsReadable
<1>1. IInv => SignedIsReadable
    BY DEF IInv
<1> QED BY InitHolds, StepHolds, <1>1, PTL DEF Spec

\* A clear in time is seen by every reader (ble_chars.go:518-563).
THEOREM ClearedHolds == Spec => []ClearedIsShown
<1>1. IInv => ClearedIsShown
    BY DEF IInv, Clean, ClearedIsShown
<1> QED BY InitHolds, StepHolds, <1>1, PTL DEF Spec
=============================================================================
