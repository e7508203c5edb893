---------------------------- MODULE BleRequests ----------------------------
(***************************************************************************)
(* The characteristics of ble_chars.go whose handlers leave something      *)
(* behind for the next request: signing a hash (lastSignature) and the     *)
(* diagnostic codes (lastDTC).  D-Bus calls every handler in a goroutine   *)
(* of its own (external), and a phone that gave up waiting for an answer   *)
(* sends its next request while the handler of the last one still waits    *)
(* for the AutoPi service, whose client has no timeout.  So handlers       *)
(* overlap, and none of them takes a lock.                                 *)
(***************************************************************************)
EXTENDS Naturals, FiniteSets

CONSTANTS
    MaxWrites,    \* bound: hashes written for signing, in order 1, 2, ...
    MaxInFlight,  \* hashes that can be in their handler at once
    Readers,      \* reads of the codes that can be in their handler at once
    MaxFaults,    \* bound: times the car stores a diagnostic code
    MaxBoots      \* bound: starts of the process

ASSUME RequestAssumption ==
    /\ MaxWrites \in Nat /\ MaxInFlight \in Nat
    /\ MaxFaults \in Nat /\ MaxBoots \in Nat

Writes == 1..MaxWrites

VARIABLES
    lastSignature,  \* the write whose hash it signs, 0 when nil
    writePc,        \* of each write: "new", "signing", "ok", "failed", "lost"
    lastWrite,      \* history: the write that came last, 0 at first
    overlapped,     \* history: the writes in their handler when it came
    codes,          \* the car has diagnostic codes: "yes" or "no"
    lastDTC,        \* the cached answer: "", "codes", "0"
    readPc,         \* of each read: "idle", "asked", "shown"
    found,          \* what it got: "codes", "0", "error"
    clearing,       \* a request to clear: "no", "asked", "done" when the car
                    \*   did, "again" when it stored a code after that
    clear,          \* history: "none" succeeded in this boot, "clean" when
                    \*   one did, no read had asked before it ended, and the
                    \*   car has stored no code since; "late" otherwise
    faults, boots   \* history: against the bounds

signVars == <<lastSignature, writePc, lastWrite, overlapped>>
readVars == <<lastDTC, readPc, found>>
dtcVars == <<codes, readVars, clearing, clear, faults>>
vars == <<signVars, dtcVars, boots>>

TypeOK ==
    /\ lastSignature \in Writes \cup {0}
    /\ writePc \in [Writes -> {"new", "signing", "ok", "failed", "lost"}]
    /\ lastWrite \in Writes \cup {0}
    /\ overlapped \in SUBSET Writes
    /\ codes \in {"yes", "no"}
    /\ clearing \in {"no", "asked", "done", "again"}
    /\ clear \in {"none", "clean", "late"}
    /\ lastDTC \in {"", "codes", "0"}
    /\ readPc \in [Readers -> {"idle", "asked", "shown"}]
    /\ found \in [Readers -> {"codes", "0", "error"}]
    /\ faults \in Nat /\ boots \in Nat

Init ==
    /\ lastSignature = 0 /\ lastWrite = 0 /\ overlapped = {}
    /\ writePc = [w \in Writes |-> "new"]
    /\ codes \in {"yes", "no"} /\ clearing = "no" /\ clear = "none"
    /\ lastDTC = ""
    /\ readPc = [r \in Readers |-> "idle"] /\ found = [r \in Readers |-> "error"]
    /\ faults = 0 /\ boots = 1

InFlight == {w \in Writes : writePc[w] = "signing"}
-----------------------------------------------------------------------------
(* The sign characteristic.  A read just returns lastSignature. *)

Comes(w, valid) ==
    /\ w = lastWrite + 1
    /\ Cardinality(InFlight) < MaxInFlight
    /\ lastWrite' = w /\ overlapped' = InFlight
    /\ writePc' = [writePc EXCEPT ![w] = IF valid THEN "signing" ELSE "failed"]
    /\ UNCHANGED <<dtcVars, boots>>

\* Variant: the old signature stays while the new one is computed.
WritesHashOnly(w, valid) == Comes(w, valid) /\ UNCHANGED lastSignature

\* OnWrite begins: the old value is wiped; a value that has not 32 bytes is
\* refused.
WritesHash(w, valid) == Comes(w, valid) /\ lastSignature' = 0

\* Variant: the signature is not stored.
SignsOnly(w) ==
    /\ writePc[w] = "signing"
    /\ writePc' = [writePc EXCEPT ![w] = "ok"]
    /\ UNCHANGED <<lastSignature, lastWrite, overlapped, dtcVars, boots>>

\* SignHash returns a signature ...
Signs(w) ==
    /\ writePc[w] = "signing"
    /\ writePc' = [writePc EXCEPT ![w] = "ok"]
    /\ lastSignature' = w
    /\ UNCHANGED <<lastWrite, overlapped, dtcVars, boots>>

\* ... or an error.
SignFails(w) ==
    /\ writePc[w] = "signing"
    /\ writePc' = [writePc EXCEPT ![w] = "failed"]
    /\ UNCHANGED <<lastSignature, lastWrite, overlapped, dtcVars, boots>>
-----------------------------------------------------------------------------
(* The diagnostic codes characteristic. *)

InCar == IF codes = "yes" THEN "codes" ELSE "0"

\* OnRead answers from the cache ...
ReadsCachedDTC(r) ==
    /\ readPc[r] # "asked" /\ lastDTC # ""
    /\ readPc' = [readPc EXCEPT ![r] = "shown"]
    /\ found' = [found EXCEPT ![r] = lastDTC]
    /\ UNCHANGED <<signVars, codes, lastDTC, clearing, clear, faults, boots>>

\* ... or asks the car, which answers what it has at that moment, or not; then
\* the read is answered with an error of D-Bus.
AsksDTC(r) ==
    /\ readPc[r] # "asked" /\ lastDTC = ""
    /\ readPc' = [readPc EXCEPT ![r] = "asked"]
    /\ \E answer \in {InCar, "error"} : found' = [found EXCEPT ![r] = answer]
    /\ UNCHANGED <<signVars, codes, lastDTC, clearing, clear, faults, boots>>

\* The answer goes to the phone, and to the cache when there is one.
ShowsDTC(r) ==
    /\ readPc[r] = "asked"
    /\ readPc' = [readPc EXCEPT ![r] = "shown"]
    /\ lastDTC' = IF found[r] = "error" THEN lastDTC ELSE found[r]
    /\ UNCHANGED <<signVars, codes, found, clearing, clear, faults, boots>>

\* OnWrite: ClearDiagnosticCodes, and nothing else.
StartsClearing ==
    /\ clearing = "no" /\ clearing' = "asked"
    /\ UNCHANGED <<signVars, codes, readVars, clear, faults, boots>>

\* The car clears its codes.
CarClears ==
    /\ clearing = "asked" /\ clearing' = "done"
    /\ codes' = "no"
    /\ UNCHANGED <<signVars, readVars, clear, faults, boots>>

\* No read of this boot has got an answer yet, or waits for one.
Unread == lastDTC = "" /\ \A r \in Readers : readPc[r] # "asked"

\* The phone is told; what it was shown before does not count any more.
ClearEnds ==
    /\ clearing' = "no"
    /\ clear' = IF clearing # "again" /\ Unread THEN "clean" ELSE "late"
    /\ readPc' = [r \in Readers |->
                     IF readPc[r] = "shown" THEN "idle" ELSE readPc[r]]
    /\ UNCHANGED <<signVars, codes, lastDTC, found, faults, boots>>

\* Variant: an error is answered like a success.
ClearsUnchecked == clearing # "no" /\ ClearEnds

Clears == clearing \in {"done", "again"} /\ ClearEnds

\* The error of a request that failed, or whose answer got lost.
ClearFails ==
    /\ clearing # "no" /\ clearing' = "no"
    /\ UNCHANGED <<signVars, codes, readVars, clear, faults, boots>>
-----------------------------------------------------------------------------
\* The car stores a code.
FaultOccurs ==
    /\ faults < MaxFaults /\ faults' = faults + 1
    /\ codes' = "yes"
    /\ clearing' = IF clearing = "done" THEN "again" ELSE clearing
    /\ clear' = IF clear = "clean" THEN "late" ELSE clear
    /\ UNCHANGED <<signVars, readVars, boots>>

\* The process ends and starts again: the caches are gone, and so are the
\* handlers and what they would have answered.
Restarts ==
    /\ boots < MaxBoots /\ boots' = boots + 1
    /\ lastSignature' = 0 /\ overlapped' = {}
    /\ writePc' = [w \in Writes |->
                      IF writePc[w] = "new" THEN "new" ELSE "lost"]
    /\ lastDTC' = "" /\ clearing' = "no" /\ clear' = "none"
    /\ readPc' = [r \in Readers |-> "idle"]
    /\ UNCHANGED <<lastWrite, codes, found, faults>>

Next ==
    \/ \E w \in Writes :
           \/ \E valid \in BOOLEAN : WritesHash(w, valid)
           \/ Signs(w) \/ SignFails(w)
    \/ \E r \in Readers : ReadsCachedDTC(r) \/ AsksDTC(r) \/ ShowsDTC(r)
    \/ StartsClearing \/ CarClears \/ Clears \/ ClearFails
    \/ FaultOccurs \/ Restarts

Spec == Init /\ [][Next]_vars
-----------------------------------------------------------------------------
\* Wiping the old value (ble_chars.go:654, "Wipe any old value so that if this
\* fails, the client doesn't mistakenly think everything is fine") does this
\* much: a read never gives the signature of a hash whose handler had ended
\* when the last hash came.  It may give that of one whose handler was running
\* then, which is less than SignatureOfLast.
FreshSignature ==
    lastSignature # 0 =>
        /\ writePc[lastSignature] = "ok"
        /\ lastSignature \in overlapped \cup {lastWrite}

\* What is promised to clients: a signature that is read is that of the last
\* hash submitted (src/README.md:184, "Return the 65 bytes of the signature for
\* the last submitted hash").  The handler of an earlier hash may end after
\* the last one came, and nothing stops it from storing its own.
SignatureOfLast == lastSignature # 0 => lastSignature = lastWrite

\* A hash that was signed leaves a signature to read, however many handlers
\* run at once, until the next one comes (ble_chars.go:656-670).
SignedIsReadable ==
    lastWrite # 0 /\ writePc[lastWrite] = "ok" => lastSignature # 0

\* A phone that clears the codes before anybody reads them sees none, from the
\* car or from the cache, until the car stores one again (ble_chars.go:511,
\* "if nothing found with a success will return "0"").  Once they have been
\* read, only a restart makes a clear visible.
ClearedIsShown ==
    clear = "clean" =>
        \A r \in Readers : readPc[r] = "shown" => found[r] # "codes"
=============================================================================
