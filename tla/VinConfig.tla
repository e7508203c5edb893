----------------------------- MODULE VinConfig -----------------------------
(***************************************************************************)
(* The VIN of the vehicle: who asks for it and who remembers it.           *)
(*   - The OBD loop of workerRunner.Run takes a fingerprint once per boot  *)
(*     (FingerprintRunner), then scans for diagnostic codes                *)
(*     (DtcErrorsRunner), then queries PIDs.                               *)
(*   - Bluetooth clients read the VIN and the protocol (ble_chars.go), each*)
(*     read in a goroutine of its own.                                     *)
(* They share the mutex of GetVIN, the file VINLoggerFile and the caches   *)
(* lastVIN and lastProtocol.  The car the device is plugged into changes   *)
(* only while it has no power.                                             *)
(***************************************************************************)
EXTENDS VinLogger

CONSTANTS
    Clients,                 \* Bluetooth reads that can run at once
    maxFingerprintFailures,  \* 5 in the code
    maxDtcFailures,          \* 3 in the code
    MaxBoots                 \* bound: starts of the process

ASSUME ConfigAssumption ==
    /\ maxFingerprintFailures \in Nat \ {0} /\ maxDtcFailures \in Nat \ {0}
    /\ MaxBoots \in Nat

VARIABLES
    car,           \* the car the device is plugged into
    vinFile,       \* VINLoggerFile: None, or [name, vin, failed]
    mu,            \* the mutex of vinLogger: "free" or who holds it
    pastName,      \* pastVINQueryName
    allTime,       \* allTimeFailureCount
    obdPc,         \* "boot" until the runners are made, then "top", "lock",
                   \* "vin", "erase", "remember", "send", "dtc", "query"
    failureCount,  \* of FingerprintRunner
    fingerprint,   \* what this GetVIN of the OBD loop found
    done,          \* fingerprintDone: "yes" or "no"
    dtcFailures,   \* failureCount of DtcErrorsRunner
    dtcDone,       \* dtcErrorsDone
    blePc,         \* of each client: "idle", "delete", "lock vin", "vin",
                   \* "save", "lock protocol", "protocol"
    bleFound,      \* what its GetVIN found
    lastVIN, lastProtocol,  \* the caches, None when empty
    boots, badBoots   \* history: starts; those that reached the maximum

obdVars == <<pastName, allTime, obdPc, failureCount, fingerprint, done,
             dtcFailures, dtcDone>>
bleVars == <<blePc, bleFound, lastVIN, lastProtocol>>
vars == <<car, vinFile, mu, obdVars, bleVars, boots, badBoots>>

YesNo == {"yes", "no"}

VinSettings ==
    [name : Names \cup {None}, vin : Cars \cup {None}, failed : Nat]

TypeOK ==
    /\ car \in Cars
    /\ vinFile \in VinSettings \cup {None}
    /\ mu \in {"free", "obd"} \cup Clients
    /\ pastName \in Names \cup {None} /\ allTime \in Nat
    /\ obdPc \in {"boot", "top", "lock", "vin", "erase", "remember", "send",
                  "dtc", "query"}
    /\ failureCount \in 0..maxFingerprintFailures + 1
    /\ fingerprint \in Names \cup {None}
    /\ done \in YesNo /\ dtcDone \in YesNo
    /\ dtcFailures \in 0..maxDtcFailures
    /\ blePc \in [Clients -> {"idle", "delete", "lock vin", "vin", "save",
                              "lock protocol", "protocol"}]
    /\ bleFound \in [Clients -> Names \cup {None}]
    /\ lastVIN \in Cars \cup {None}
    /\ lastProtocol \in Names \cup {None}
    /\ boots \in Nat /\ badBoots \in Nat

NameIn(settings) == IF settings = None THEN None ELSE settings.name
FailedIn(settings) == IF settings = None THEN 0 ELSE settings.failed

Init ==
    /\ car \in Cars /\ vinFile = None /\ mu = "free"
    /\ pastName = None /\ allTime = 0
    /\ obdPc = "boot" /\ failureCount = 0 /\ fingerprint = None
    /\ done = "no" /\ dtcFailures = 0 /\ dtcDone = "no"
    /\ blePc = [c \in Clients |-> "idle"]
    /\ bleFound = [c \in Clients |-> None]
    /\ lastVIN = None /\ lastProtocol = None
    /\ boots = 1 /\ badBoots = 0

\* Some answers of the car make GetVIN return `found`.
VinResult(queryName, found) ==
    \E answers \in Answers(car), passive \in PassiveScans(car) :
        found = GetVIN(queryName, answers, passive)
-----------------------------------------------------------------------------
(* The OBD loop. *)

\* NewFingerprintRunner: what the last boot, or a Bluetooth client of this one,
\* left in the file.  Bluetooth is up before the vehicle is known, the runners
\* are made after.
ReadsVINConfig ==
    /\ obdPc = "boot" /\ obdPc' = "top"
    /\ pastName' = NameIn(vinFile) /\ allTime' = FailedIn(vinFile)
    /\ UNCHANGED <<car, vinFile, mu, failureCount, fingerprint, done,
                   dtcFailures, dtcDone, bleVars, boots, badBoots>>

\* The voltage allows queries (isOkToQueryOBD).
ObdStarts ==
    /\ obdPc = "top"
    /\ obdPc' = IF done = "no" /\ failureCount <= maxFingerprintFailures
                THEN "lock" ELSE "dtc"
    /\ UNCHANGED <<car, vinFile, mu, pastName, allTime, failureCount,
                   fingerprint, done, dtcFailures, dtcDone, bleVars, boots,
                   badBoots>>

ObdLocks ==
    /\ obdPc = "lock" /\ mu = "free"
    /\ mu' = "obd" /\ obdPc' = "vin"
    /\ UNCHANGED <<car, vinFile, pastName, allTime, failureCount, fingerprint,
                   done, dtcFailures, dtcDone, bleVars, boots, badBoots>>

\* GetVIN gave the VIN; the query's name is stored unless one is known.
GetsVIN(found) ==
    /\ obdPc = "vin" /\ found # None
    /\ VinResult(pastName, found)
    /\ mu' = "free"
    /\ fingerprint' = found
    /\ obdPc' = IF pastName = None THEN "remember" ELSE "send"
    /\ UNCHANGED <<car, vinFile, pastName, allTime, failureCount, done,
                   dtcFailures, dtcDone, bleVars, boots, badBoots>>

\* Variant: every failure from the maximum on is recorded.
FailsAndCounts ==
    /\ obdPc = "vin"
    /\ VinResult(pastName, None)
    /\ mu' = "free"
    /\ failureCount' = failureCount + 1
    /\ obdPc' = IF failureCount' >= maxFingerprintFailures THEN "erase" ELSE "dtc"
    /\ UNCHANGED <<car, vinFile, pastName, allTime, fingerprint, done,
                   dtcFailures, dtcDone, bleVars, boots, badBoots>>

\* GetVIN failed; when that makes the maximum, it is recorded on disk.
FailsVIN ==
    /\ obdPc = "vin"
    /\ VinResult(pastName, None)
    /\ mu' = "free"
    /\ failureCount' = failureCount + 1
    /\ obdPc' = IF failureCount' = maxFingerprintFailures THEN "erase" ELSE "dtc"
    /\ UNCHANGED <<car, vinFile, pastName, allTime, fingerprint, done,
                   dtcFailures, dtcDone, bleVars, boots, badBoots>>

\* IncrementFailuresReached.  The write may fail.
IncrementFailuresReached ==
    /\ obdPc = "erase" /\ obdPc' = "dtc"
    /\ vinFile' \in {vinFile,
                     [name |-> None, vin |-> None, failed |-> allTime + 1]}
    /\ badBoots' = badBoots + 1
    /\ UNCHANGED <<car, mu, pastName, allTime, failureCount, fingerprint,
                   done, dtcFailures, dtcDone, bleVars, boots>>

\* FingerprintSimple writes the settings and reports to the cloud.
Remembers ==
    /\ obdPc = "remember" /\ obdPc' = "send"
    /\ vinFile' \in {vinFile,
                     [name |-> fingerprint, vin |-> car, failed |-> 0]}
    /\ UNCHANGED <<car, mu, pastName, allTime, failureCount, fingerprint,
                   done, dtcFailures, dtcDone, bleVars, boots, badBoots>>

\* SendFingerprintData; the outcome is only logged.
SendsFingerprint ==
    /\ obdPc = "send" /\ obdPc' = "dtc"
    /\ done' = "yes"
    /\ UNCHANGED <<car, vinFile, mu, pastName, allTime, failureCount,
                   fingerprint, dtcFailures, dtcDone, bleVars, boots,
                   badBoots>>

\* DtcErrors found no code, or found some and sent them.
DtcSucceeds ==
    /\ obdPc = "dtc" /\ dtcDone = "no"
    /\ dtcDone' = "yes"
    /\ UNCHANGED dtcFailures

\* The scan failed.
DtcScanFails ==
    /\ obdPc = "dtc" /\ dtcDone = "no"
    /\ dtcFailures' = dtcFailures + 1
    /\ dtcDone' = IF dtcFailures' = maxDtcFailures THEN "yes" ELSE "no"

\* The codes could not be sent: an error too, but not a counted one.
DtcSendFails ==
    /\ obdPc = "dtc" /\ dtcDone = "no"
    /\ dtcDone' = IF dtcFailures = maxDtcFailures THEN "yes" ELSE "no"
    /\ UNCHANGED dtcFailures

DtcErrors ==
    /\ DtcSucceeds \/ DtcScanFails \/ DtcSendFails
    /\ obdPc' = "query"
    /\ UNCHANGED <<car, vinFile, mu, pastName, allTime, failureCount,
                   fingerprint, done, bleVars, boots, badBoots>>

SkipsDtc ==
    /\ obdPc = "dtc" /\ dtcDone = "yes" /\ obdPc' = "query"
    /\ UNCHANGED <<car, vinFile, mu, pastName, allTime, failureCount,
                   fingerprint, done, dtcFailures, dtcDone, bleVars, boots,
                   badBoots>>

\* queryOBD ends.
ObdEnds ==
    /\ obdPc = "query" /\ obdPc' = "top"
    /\ UNCHANGED <<car, vinFile, mu, pastName, allTime, failureCount,
                   fingerprint, done, dtcFailures, dtcDone, bleVars, boots,
                   badBoots>>
-----------------------------------------------------------------------------
(* Bluetooth reads. *)

BleGoes(c, from, to) == blePc[c] = from /\ blePc' = [blePc EXCEPT ![c] = to]

\* The VIN is in the cache.
ReadsCachedVIN(c) ==
    /\ blePc[c] = "idle" /\ lastVIN # None
    /\ UNCHANGED <<car, vinFile, mu, obdVars, bleVars, boots, badBoots>>

\* It is not ...
ReadsVIN(c) ==
    /\ lastVIN = None
    /\ BleGoes(c, "idle", "delete")
    /\ UNCHANGED <<car, vinFile, mu, obdVars, bleFound, lastVIN, lastProtocol,
                   boots, badBoots>>

\* ... so this is a new pairing: DeleteAllSettings, whose failure is only
\* logged.
BleDeletes(c) ==
    /\ BleGoes(c, "delete", "lock vin")
    /\ vinFile' \in {vinFile, None}
    /\ UNCHANGED <<car, mu, obdVars, bleFound, lastVIN, lastProtocol, boots,
                   badBoots>>

\* The protocol is read and is not in the cache; a cached one changes nothing.
ReadsProtocol(c) ==
    /\ lastProtocol = None
    /\ BleGoes(c, "idle", "lock protocol")
    /\ UNCHANGED <<car, vinFile, mu, obdVars, bleFound, lastVIN, lastProtocol,
                   boots, badBoots>>

BleLocks(c) ==
    /\ mu = "free" /\ mu' = c
    /\ \/ BleGoes(c, "lock vin", "vin")
       \/ BleGoes(c, "lock protocol", "protocol")
    /\ UNCHANGED <<car, vinFile, obdVars, bleFound, lastVIN, lastProtocol,
                   boots, badBoots>>

\* Variant: the mutex stays locked.
BleFailsLocked(c) ==
    /\ BleGoes(c, "vin", "idle") \/ BleGoes(c, "protocol", "idle")
    /\ VinResult(None, None)
    /\ UNCHANGED <<car, vinFile, mu, obdVars, bleFound, lastVIN, lastProtocol,
                   boots, badBoots>>

\* GetVIN failed: the read is answered with an error of D-Bus.
BleFails(c) ==
    /\ BleGoes(c, "vin", "idle") \/ BleGoes(c, "protocol", "idle")
    /\ VinResult(None, None)
    /\ mu' = "free"
    /\ UNCHANGED <<car, vinFile, obdVars, bleFound, lastVIN, lastProtocol,
                   boots, badBoots>>

\* GetVIN succeeded: both caches are set; a read of the VIN goes on to save it.
BleGetsVIN(c, found) ==
    /\ found # None
    /\ BleGoes(c, "vin", "save") \/ BleGoes(c, "protocol", "idle")
    /\ VinResult(None, found)
    /\ mu' = "free"
    /\ lastVIN' = car /\ lastProtocol' = found
    /\ bleFound' = [bleFound EXCEPT ![c] = found]
    /\ UNCHANGED <<car, vinFile, obdVars, boots, badBoots>>

\* WriteVINConfig, which may fail, and the answer.
BleSaves(c) ==
    /\ BleGoes(c, "save", "idle")
    /\ vinFile' \in {vinFile,
                     [name |-> bleFound[c], vin |-> lastVIN, failed |-> 0]}
    /\ UNCHANGED <<car, mu, obdVars, bleFound, lastVIN, lastProtocol, boots,
                   badBoots>>
-----------------------------------------------------------------------------
Writing ==
    obdPc \in {"erase", "remember"} \/ \E c \in Clients : blePc[c] = "save"

\* The power fails; the device comes back in the same car or in another.
\* A file that was being written may be unreadable, and reads as missing.
PowerCycle ==
    /\ boots < MaxBoots /\ boots' = boots + 1
    /\ vinFile' \in {vinFile} \cup (IF Writing THEN {None} ELSE {})
    /\ pastName' = None /\ allTime' = 0
    /\ car' \in Cars
    /\ mu' = "free"
    /\ obdPc' = "boot" /\ failureCount' = 0 /\ fingerprint' = None
    /\ done' = "no" /\ dtcFailures' = 0 /\ dtcDone' = "no"
    /\ blePc' = [c \in Clients |-> "idle"]
    /\ bleFound' = [c \in Clients |-> None]
    /\ lastVIN' = None /\ lastProtocol' = None
    /\ UNCHANGED badBoots

ObdStep ==
    \/ ReadsVINConfig \/ ObdStarts \/ ObdLocks \/ FailsVIN \/ IncrementFailuresReached
    \/ \E found \in Names : GetsVIN(found)
    \/ Remembers \/ SendsFingerprint \/ DtcErrors \/ SkipsDtc \/ ObdEnds

BleStep(c) ==
    \/ ReadsCachedVIN(c) \/ ReadsVIN(c) \/ BleDeletes(c) \/ ReadsProtocol(c)
    \/ BleLocks(c) \/ BleFails(c) \/ BleSaves(c)
    \/ \E found \in Names : BleGetsVIN(c, found)

Next == ObdStep \/ (\E c \in Clients : BleStep(c)) \/ PowerCycle

Spec == Init /\ [][Next]_vars

\* The steps of a client that are its own: not the start of a read.
BleWorks(c) ==
    \/ BleDeletes(c) \/ BleFails(c) \/ BleSaves(c)
    \/ \E found \in Names : BleGetsVIN(c, found)

\* Goroutines that can run are scheduled, calls to the AutoPi API return, and
\* the Go mutex starves nobody who waits for it.
FairSpec ==
    /\ Spec
    /\ WF_vars(ObdStep) /\ SF_vars(ObdLocks)
    /\ \A c \in Clients : WF_vars(BleWorks(c)) /\ SF_vars(BleLocks(c))
-----------------------------------------------------------------------------
\* A query name on disk is one that works on the car whose VIN is next to it,
\* although three goroutines write the file, a client takes the VIN from the
\* cache another one may have set, and cars are swapped between boots
\* (FingerprintSimple, IncrementFailuresReached and the VIN characteristic).
NameFitsVIN ==
    vinFile # None =>
        /\ vinFile.name = None <=> vinFile.vin = None
        /\ vinFile.name # None => vinFile.name \in Works[vinFile.vin]

\* The count of failures on disk grows by one for a boot that fails, however
\* often it tries and whatever is deleted meanwhile (fingerprint.go:36,
\* "Increments by 1 per boot cycle even if retried many times in one boot").
FailedBootsCounted ==
    /\ vinFile # None => vinFile.failed <= badBoots
    /\ badBoots <= boots

\* A read of the VIN or the protocol is answered, whatever the OBD loop and
\* the other clients do.
ReadsAnswered == \A c \in Clients : blePc[c] # "idle" ~> blePc[c] = "idle"
=============================================================================
