-------------------------- MODULE VinConfigProofs --------------------------
(***************************************************************************)
(* The file of the VIN settings for every list of queries, every set of    *)
(* cars and clients, every maximum and any number of starts: whatever the  *)
(* OBD loop and the Bluetooth clients do, the name in it works on the car  *)
(* whose VIN is next to it, and its count is one of starts.                *)
(***************************************************************************)
EXTENDS VinConfig, WellFoundedInduction, TLAPS

\* Natural numbers are well-founded, ...
LEMMA LessIsWellFounded ==
    \E R : /\ IsWellFoundedOn(R, Nat)
           /\ \A x, y \in Nat : x < y => <<x, y>> \in R
<1>1. IsWellFoundedOn(OpToRel(<, Nat), Nat)
    BY NatLessThanWellFounded
<1>2. \A x, y \in Nat : x < y => <<x, y>> \in OpToRel(<, Nat)
    BY DEF OpToRel
<1> QED BY <1>1, <1>2

\* ... so the first index of a set of them is in it.
LEMMA FirstIsIn ==
    ASSUME NEW is, is \subseteq Nat, is # {}
    PROVE  FirstOf(is) \in is
<1>1. PICK R : /\ IsWellFoundedOn(R, Nat)
               /\ \A x, y \in Nat : x < y => <<x, y>> \in R
    BY LessIsWellFounded
<1>2. \E i \in is : \A j \in is : ~ (<<j, i>> \in R)
    <2>1. IsWellFoundedOn(R, Nat)
        BY <1>1
    <2> HIDE <1>1
    <2> QED BY <2>1, WFMin, Zenon
<1>3. PICK i \in is : \A j \in is : ~ (<<j, i>> \in R)
    BY <1>2
<1>4. ASSUME NEW j \in is PROVE i <= j
    <2>1. i \in Nat /\ j \in Nat
        OBVIOUS
    <2>2. ~ (j < i)
        BY <1>1, <1>3, <2>1
    <2> QED BY <2>1, <2>2
<1> QED BY <1>4, Zenon DEF FirstOf

\* A query that gave a VIN is one the car answers with it.
LEMMA ResultWorks ==
    ASSUME NEW queryName, NEW result, VinResult(queryName, result),
           result # None
    PROVE  result \in Works[car]
<1>1. PICK answers \in Answers(car), passive \in PassiveScans(car) :
          result = GetVIN(queryName, answers, passive)
    BY DEF VinResult
<1> DEFINE gave == {i \in Asked(queryName) : answers[i] = "vin"}
<1>2. gave \subseteq DOMAIN Queries /\ DOMAIN Queries \subseteq Nat
    BY VinAssumption DEF Asked
<1>3. CASE gave # {}
    <2>1. FirstOf(gave) \in gave
        BY <1>2, <1>3, FirstIsIn
    <2>2. result = Queries[FirstOf(gave)]
        BY <1>1, <1>3 DEF GetVIN
    <2> QED BY <1>2, <2>1, <2>2 DEF Answers
<1>4. CASE gave = {}
    <2>1. result = Citroen /\ passive = "vin"
        BY <1>1, <1>4 DEF GetVIN
    <2> QED BY <2>1 DEF PassiveScans
<1> QED BY <1>3, <1>4

\* Names that work are names, and not None.
LEMMA WorksAreNames ==
    ASSUME NEW name, car \in Cars, name \in Works[car]
    PROVE  name \in Names /\ name # None
BY VinAssumption
-----------------------------------------------------------------------------
\* The counters of the OBD loop stop where they should.
Counting ==
    /\ obdPc \in {"lock", "vin"} => failureCount <= maxFingerprintFailures
    /\ obdPc = "erase" => failureCount = maxFingerprintFailures
    /\ dtcDone = "no" => dtcFailures < maxDtcFailures

\* What is about to be written, and the caches, are of this car.
OfThisCar ==
    /\ obdPc = "remember" => fingerprint \in Works[car]
    /\ lastVIN \in {None, car}
    /\ \A c \in Clients :
           blePc[c] = "save" => bleFound[c] \in Works[car] /\ lastVIN = car

\* A start that has not failed yet is not counted yet.
NotYetCounted ==
    /\ allTime <= badBoots
    /\ failureCount < maxFingerprintFailures \/ obdPc = "erase"
           => badBoots < boots

IInv ==
    /\ TypeOK /\ Counting /\ OfThisCar /\ NameFitsVIN
    /\ NotYetCounted /\ FailedBootsCounted

\* The first start satisfies the invariant.
LEMMA InitHolds == Init => IInv
<1> SUFFICES ASSUME Init PROVE IInv
    OBVIOUS
<1>1. /\ 0 < maxFingerprintFailures /\ 0 < maxDtcFailures
      /\ 0 \in 0..maxFingerprintFailures + 1 /\ 0 \in 0..maxDtcFailures
    BY ConfigAssumption
<1>2. TypeOK
    BY <1>1 DEF Init, TypeOK, YesNo, NameIn, FailedIn
<1>3. Counting /\ OfThisCar /\ NameFitsVIN
    BY <1>1 DEF Init, Counting, OfThisCar, NameFitsVIN
<1>4. NotYetCounted /\ FailedBootsCounted
    BY DEF Init, NotYetCounted, FailedBootsCounted, FailedIn
<1> QED BY <1>2, <1>3, <1>4 DEF IInv

\* Settings made of such parts are settings.
LEMMA SettingsType ==
    ASSUME NEW name \in Names \cup {None}, NEW vin \in Cars \cup {None},
           NEW failed \in Nat
    PROVE  [name |-> name, vin |-> vin, failed |-> failed] \in VinSettings
BY DEF VinSettings

LEMMA SettingsParts ==
    ASSUME NEW settings \in VinSettings
    PROVE  settings.name \in Names \cup {None} /\ settings.failed \in Nat
BY DEF VinSettings

\* Every step keeps the types and the counters.
LEMMA TypeStep ==
    TypeOK /\ Counting /\ [Next]_vars => TypeOK' /\ Counting'
<1> SUFFICES ASSUME TypeOK, Counting, [Next]_vars
             PROVE  TypeOK' /\ Counting'
    OBVIOUS
<1>1. /\ maxFingerprintFailures \in Nat \ {0} /\ maxDtcFailures \in Nat \ {0}
    BY ConfigAssumption
<1>2. /\ failureCount \in Nat /\ dtcFailures \in Nat /\ allTime \in Nat
      /\ boots \in Nat /\ badBoots \in Nat
      /\ boots + 1 \in Nat /\ badBoots + 1 \in Nat /\ allTime + 1 \in Nat
    <2>1. /\ failureCount \in 0..maxFingerprintFailures + 1
          /\ dtcFailures \in 0..maxDtcFailures /\ allTime \in Nat
          /\ boots \in Nat /\ badBoots \in Nat
        BY Zenon DEF TypeOK
    <2> QED BY <1>1, <2>1
<1>3. /\ 0 \in 0..maxFingerprintFailures + 1 /\ 0 \in 0..maxDtcFailures
      /\ 0 < maxDtcFailures
    BY <1>1
<1>4. failureCount <= maxFingerprintFailures =>
          failureCount + 1 \in 0..maxFingerprintFailures + 1
    BY <1>1, <1>2
<1>5. dtcFailures < maxDtcFailures =>
          /\ dtcFailures + 1 \in 0..maxDtcFailures
          /\ dtcFailures + 1 # maxDtcFailures
                 => dtcFailures + 1 < maxDtcFailures
    BY <1>1, <1>2
<1>6. TypeOK /\ Counting
    OBVIOUS
<1>7. /\ vinFile \in VinSettings \cup {None} /\ car \in Cars
      /\ fingerprint \in Names \cup {None} /\ lastVIN \in Cars \cup {None}
      /\ \A c \in Clients : bleFound[c] \in Names \cup {None}
    BY Zenon DEF TypeOK
<1>8. ASSUME UNCHANGED vars PROVE TypeOK' /\ Counting'
    <2>1. /\ car' = car /\ vinFile' = vinFile /\ mu' = mu
          /\ pastName' = pastName /\ allTime' = allTime /\ obdPc' = obdPc
          /\ failureCount' = failureCount /\ fingerprint' = fingerprint
          /\ done' = done /\ dtcFailures' = dtcFailures /\ dtcDone' = dtcDone
          /\ blePc' = blePc /\ bleFound' = bleFound /\ lastVIN' = lastVIN
          /\ lastProtocol' = lastProtocol /\ boots' = boots
          /\ badBoots' = badBoots
        BY <1>8 DEF vars, obdVars, bleVars
    <2>2. TypeOK'
        BY <1>6, <2>1 DEF TypeOK
    <2>3. Counting'
        BY <1>6, <2>1 DEF Counting
    <2> QED BY <2>2, <2>3
<1> USE DEF TypeOK, Counting, obdVars, bleVars, YesNo
<1>23. CASE ReadsVINConfig
    <2>1. NameIn(vinFile) \in Names \cup {None} /\ FailedIn(vinFile) \in Nat
        <3>1. CASE vinFile = None
            BY <3>1 DEF NameIn, FailedIn
        <3>2. CASE vinFile \in VinSettings /\ vinFile # None
            <4>1. PICK settings \in VinSettings : settings = vinFile
                BY <3>2
            <4>2. NameIn(vinFile) = settings.name
                BY <3>2, <4>1 DEF NameIn
            <4>3. FailedIn(vinFile) = settings.failed
                BY <3>2, <4>1 DEF FailedIn
            <4> QED BY <4>2, <4>3, SettingsParts
        <3> QED BY <1>7, <3>1, <3>2
    <2>2. pastName' \in Names \cup {None} /\ allTime' \in Nat
        BY <1>23, <2>1 DEF ReadsVINConfig
    <2> QED BY <1>6, <1>23, <2>2 DEF ReadsVINConfig
<1>9. CASE ObdStarts
    BY <1>6, <1>9 DEF ObdStarts
<1>10. CASE ObdLocks
    BY <1>6, <1>10 DEF ObdLocks
<1>11. ASSUME NEW found \in Names, GetsVIN(found) PROVE TypeOK' /\ Counting'
    BY <1>6, <1>11 DEF GetsVIN
<1>12. CASE FailsVIN
    BY <1>4, <1>6, <1>12 DEF FailsVIN
<1>13. CASE IncrementFailuresReached
    <2> DEFINE settings == [name |-> None, vin |-> None, failed |-> allTime + 1]
    <2>1. vinFile' \in VinSettings \cup {None}
        <3>1. settings \in VinSettings
            BY <1>2, SettingsType
        <3>2. vinFile' \in {vinFile, settings}
            BY <1>13 DEF IncrementFailuresReached
        <3> HIDE DEF settings
        <3> QED BY <1>7, <3>1, <3>2, Zenon
    <2> QED BY <1>2, <1>6, <1>13, <2>1 DEF IncrementFailuresReached
<1>14. CASE Remembers
    <2> DEFINE settings == [name |-> fingerprint, vin |-> car, failed |-> 0]
    <2>1. vinFile' \in VinSettings \cup {None}
        <3>1. settings \in VinSettings
            BY <1>7, SettingsType
        <3>2. vinFile' \in {vinFile, settings}
            BY <1>14 DEF Remembers
        <3> HIDE DEF settings
        <3> QED BY <1>7, <3>1, <3>2, Zenon
    <2> QED BY <1>6, <1>14, <2>1 DEF Remembers
<1>15. CASE SendsFingerprint \/ SkipsDtc \/ ObdEnds
    BY <1>6, <1>15 DEF SendsFingerprint, SkipsDtc, ObdEnds
<1>16. CASE DtcErrors
    <2>1. CASE DtcSucceeds
        BY <1>6, <1>16, <2>1 DEF DtcErrors, DtcSucceeds
    <2>2. CASE DtcScanFails
        BY <1>5, <1>6, <1>16, <2>2 DEF DtcErrors, DtcScanFails
    <2>3. CASE DtcSendFails
        BY <1>6, <1>16, <2>3 DEF DtcErrors, DtcSendFails
    <2> QED BY <1>16, <2>1, <2>2, <2>3 DEF DtcErrors
<1>17. ASSUME NEW c \in Clients, ReadsCachedVIN(c)
       PROVE  TypeOK' /\ Counting'
    <2>1. UNCHANGED vars
        BY <1>17 DEF ReadsCachedVIN, vars
    <2> QED BY <1>8, <2>1
<1>18. ASSUME NEW c \in Clients,
              ReadsVIN(c) \/ BleDeletes(c) \/ ReadsProtocol(c)
       PROVE  TypeOK' /\ Counting'
    BY <1>6, <1>18 DEF ReadsVIN, BleDeletes, ReadsProtocol, BleGoes
<1>19. ASSUME NEW c \in Clients, BleLocks(c) \/ BleFails(c)
       PROVE  TypeOK' /\ Counting'
    BY <1>6, <1>19 DEF BleLocks, BleFails, BleGoes
<1>20. ASSUME NEW c \in Clients, BleSaves(c) PROVE TypeOK' /\ Counting'
    <2> DEFINE settings ==
            [name |-> bleFound[c], vin |-> lastVIN, failed |-> 0]
    <2>1. vinFile' \in VinSettings \cup {None}
        <3>1. settings \in VinSettings
            BY <1>7, SettingsType
        <3>2. vinFile' \in {vinFile, settings}
            BY <1>20 DEF BleSaves
        <3> HIDE DEF settings
        <3> QED BY <1>7, <3>1, <3>2, Zenon
    <2>2. /\ car' = car /\ mu' = mu /\ bleFound' = bleFound
          /\ lastVIN' = lastVIN /\ lastProtocol' = lastProtocol
          /\ blePc' = [blePc EXCEPT ![c] = "idle"]
        BY <1>20 DEF BleSaves, BleGoes
    <2>3. /\ pastName' = pastName /\ allTime' = allTime /\ obdPc' = obdPc
          /\ failureCount' = failureCount /\ fingerprint' = fingerprint
          /\ done' = done /\ dtcFailures' = dtcFailures
          /\ dtcDone' = dtcDone /\ boots' = boots /\ badBoots' = badBoots
        BY <1>20 DEF BleSaves
    <2> HIDE DEF settings
    <2>4. Counting'
        BY <2>3
    <2> QED BY <1>6, <2>1, <2>2, <2>3, <2>4
<1>21. ASSUME NEW c \in Clients, NEW found \in Names, BleGetsVIN(c, found)
       PROVE  TypeOK' /\ Counting'
    BY <1>6, <1>21 DEF BleGetsVIN, BleGoes
<1>22. CASE PowerCycle
    <2>1. vinFile' \in VinSettings \cup {None}
        BY <1>6, <1>22 DEF PowerCycle
    <2>2. pastName' \in Names \cup {None} /\ allTime' \in Nat
        BY <1>22 DEF PowerCycle
    <2> QED BY <1>2, <1>3, <1>6, <1>22, <2>1, <2>2 DEF PowerCycle
<1> HIDE DEF TypeOK, Counting, obdVars, bleVars, YesNo
<1> QED BY <1>9, <1>10, <1>11, <1>12, <1>13, <1>14, <1>15, <1>16, <1>17, <1>18,
           <1>19, <1>20, <1>21, <1>22, <1>23, <1>8 DEF Next, ObdStep, BleStep

\* Every step keeps the file, and what is about to be written to it, fitting.
LEMMA FileStep ==
    TypeOK /\ OfThisCar /\ NameFitsVIN /\ [Next]_vars
    => OfThisCar' /\ NameFitsVIN'
<1> SUFFICES ASSUME TypeOK, OfThisCar, NameFitsVIN, [Next]_vars
             PROVE  OfThisCar' /\ NameFitsVIN'
    OBVIOUS
<1>1. /\ car \in Cars /\ lastVIN \in Cars \cup {None} /\ None \notin Cars
      /\ blePc \in [Clients -> {"idle", "delete", "lock vin", "vin", "save",
                                "lock protocol", "protocol"}]
      /\ bleFound \in [Clients -> Names \cup {None}]
    BY VinAssumption, Zenon DEF TypeOK
<1> USE DEF OfThisCar
<1>2. ASSUME UNCHANGED <<car, bleVars, vinFile>>, obdPc' # "remember"
      PROVE  OfThisCar' /\ NameFitsVIN'
    BY <1>2 DEF bleVars, NameFitsVIN
<1>3. CASE ReadsVINConfig \/ ObdStarts \/ ObdLocks \/ FailsVIN
           \/ SendsFingerprint \/ DtcErrors \/ SkipsDtc \/ ObdEnds
    BY <1>2, <1>3 DEF ReadsVINConfig, ObdStarts, ObdLocks, FailsVIN, SendsFingerprint,
                      DtcErrors, SkipsDtc, ObdEnds
<1>4. ASSUME NEW found \in Names, GetsVIN(found)
      PROVE  OfThisCar' /\ NameFitsVIN'
    <2>1. found \in Works[car]
        BY <1>4, ResultWorks DEF GetsVIN
    <2> QED BY <1>4, <2>1 DEF GetsVIN, bleVars, NameFitsVIN
<1>5. CASE IncrementFailuresReached
    <2>1. OfThisCar'
        BY <1>5 DEF IncrementFailuresReached, bleVars
    <2>2. NameFitsVIN'
        BY <1>5 DEF IncrementFailuresReached, NameFitsVIN
    <2> QED BY <2>1, <2>2
<1>6. CASE Remembers
    <2>1. fingerprint \in Works[car] /\ fingerprint # None
        BY <1>1, <1>6, WorksAreNames DEF Remembers
    <2>2. OfThisCar'
        BY <1>6 DEF Remembers, bleVars
    <2>3. \/ vinFile' = vinFile
          \/ vinFile'.name = fingerprint /\ vinFile'.vin = car
        BY <1>6 DEF Remembers
    <2>4. NameFitsVIN'
        BY <1>1, <2>1, <2>3 DEF NameFitsVIN
    <2> QED BY <2>2, <2>4
<1>7. ASSUME NEW c \in Clients,
             \/ ReadsCachedVIN(c) \/ ReadsVIN(c) \/ BleDeletes(c)
             \/ ReadsProtocol(c) \/ BleLocks(c) \/ BleFails(c)
      PROVE  OfThisCar' /\ NameFitsVIN'
    <2>1. /\ UNCHANGED <<car, bleFound, lastVIN, obdPc, fingerprint>>
          /\ vinFile' = vinFile \/ vinFile' = None
        BY <1>7 DEF ReadsCachedVIN, ReadsVIN, BleDeletes, ReadsProtocol,
                    BleLocks, BleFails, obdVars, bleVars
    <2>2. \A d \in Clients : blePc'[d] = "save" => blePc[d] = "save"
        BY <1>1, <1>7 DEF ReadsCachedVIN, ReadsVIN, BleDeletes,
                          ReadsProtocol, BleLocks, BleFails, BleGoes, bleVars
    <2>3. OfThisCar'
        BY <2>1, <2>2
    <2> QED BY <2>1, <2>3 DEF NameFitsVIN
<1>8. ASSUME NEW c \in Clients, BleSaves(c)
      PROVE  OfThisCar' /\ NameFitsVIN'
    <2>1. bleFound[c] \in Works[car] /\ bleFound[c] # None /\ lastVIN = car
        BY <1>1, <1>8, WorksAreNames DEF BleSaves, BleGoes
    <2>2. /\ UNCHANGED <<car, bleFound, lastVIN, obdPc, fingerprint>>
          /\ \A d \in Clients : blePc'[d] = "save" => blePc[d] = "save"
        BY <1>1, <1>8 DEF BleSaves, BleGoes, obdVars
    <2>3. OfThisCar'
        BY <2>2
    <2>4. \/ vinFile' = vinFile
          \/ vinFile'.name = bleFound[c] /\ vinFile'.vin = lastVIN
        BY <1>8 DEF BleSaves
    <2>5. NameFitsVIN'
        BY <1>1, <2>1, <2>4 DEF NameFitsVIN
    <2> QED BY <2>3, <2>5
<1>9. ASSUME NEW c \in Clients, NEW found \in Names, BleGetsVIN(c, found)
      PROVE  OfThisCar' /\ NameFitsVIN'
    <2>1. found \in Works[car]
        BY <1>9, ResultWorks DEF BleGetsVIN
    <2>2. /\ UNCHANGED <<car, vinFile, obdPc, fingerprint>>
          /\ lastVIN' = car
          /\ bleFound' = [bleFound EXCEPT ![c] = found]
          /\ \A d \in Clients : blePc'[d] = "save" =>
                 d = c \/ blePc[d] = "save"
        BY <1>1, <1>9 DEF BleGetsVIN, BleGoes, obdVars
    <2>3. OfThisCar'
        BY <1>1, <2>1, <2>2
    <2> QED BY <2>2, <2>3 DEF NameFitsVIN
<1>10. CASE PowerCycle
    <2>1. OfThisCar'
        BY <1>10 DEF PowerCycle
    <2>2. vinFile' = vinFile \/ vinFile' = None
        BY <1>10 DEF PowerCycle
    <2> QED BY <2>1, <2>2 DEF NameFitsVIN
<1>11. CASE UNCHANGED vars
    BY <1>11 DEF vars, obdVars, bleVars, NameFitsVIN
<1> QED BY <1>3, <1>4, <1>5, <1>6, <1>7, <1>8, <1>9, <1>10, <1>11
        DEF Next, ObdStep, BleStep

\* A loss of power leaves the file or loses it.
LEMMA FileAfterPowerCycle ==
    PowerCycle => vinFile' = vinFile \/ vinFile' = None
<1> SUFFICES ASSUME PowerCycle PROVE vinFile' = vinFile \/ vinFile' = None
    OBVIOUS
<1>1. vinFile' \in {vinFile} \cup (IF Writing THEN {None} ELSE {})
    BY Zenon DEF PowerCycle
<1>2. CASE Writing
    BY <1>1, <1>2, Zenon
<1>3. CASE ~ Writing
    BY <1>1, <1>3, Zenon
<1> QED BY <1>2, <1>3

\* Every step keeps the count on disk below that of the starts that failed.
LEMMA CountStep ==
    TypeOK /\ Counting /\ NotYetCounted /\ FailedBootsCounted /\ [Next]_vars
    => NotYetCounted' /\ FailedBootsCounted'
<1> SUFFICES ASSUME TypeOK, Counting, NotYetCounted, FailedBootsCounted,
                    [Next]_vars
             PROVE  NotYetCounted' /\ FailedBootsCounted'
    OBVIOUS
<1>1. /\ failureCount \in Nat /\ allTime \in Nat
      /\ boots \in Nat /\ badBoots \in Nat
      /\ maxFingerprintFailures \in Nat
    <2>1. /\ failureCount \in 0..maxFingerprintFailures + 1
          /\ allTime \in Nat /\ boots \in Nat /\ badBoots \in Nat
        BY Zenon DEF TypeOK
    <2> QED BY <2>1, ConfigAssumption
<1>2. ASSUME UNCHANGED <<allTime, failureCount, boots, badBoots>>,
             obdPc' # "erase",
             \/ vinFile' = vinFile \/ vinFile' = None
             \/ vinFile'.failed = 0
      PROVE  NotYetCounted' /\ FailedBootsCounted'
    BY <1>1, <1>2 DEF NotYetCounted, FailedBootsCounted
<1>3. CASE \/ ObdStarts \/ ObdLocks \/ Remembers \/ SendsFingerprint
           \/ DtcErrors \/ SkipsDtc \/ ObdEnds
           \/ \E found \in Names : GetsVIN(found)
    <2>1. /\ UNCHANGED <<allTime, failureCount, boots, badBoots>>
          /\ obdPc' # "erase"
        BY <1>3 DEF ObdStarts, ObdLocks, GetsVIN, Remembers,
                    SendsFingerprint, DtcErrors, SkipsDtc, ObdEnds
    <2>2. vinFile' = vinFile \/ vinFile'.failed = 0
        BY <1>3 DEF ObdStarts, ObdLocks, GetsVIN, Remembers,
                    SendsFingerprint, DtcErrors, SkipsDtc, ObdEnds
    <2> QED BY <1>2, <2>1, <2>2
<1>9. CASE ReadsVINConfig
    <2>1. /\ failureCount' = failureCount /\ boots' = boots
          /\ badBoots' = badBoots /\ vinFile' = vinFile /\ obdPc' # "erase"
          /\ allTime' = FailedIn(vinFile)
        BY <1>9 DEF ReadsVINConfig
    <2>2. allTime' <= badBoots
        BY <1>1, <2>1 DEF FailedIn, FailedBootsCounted
    <2> QED BY <2>1, <2>2 DEF NotYetCounted, FailedBootsCounted
<1>4. CASE FailsVIN
    BY <1>1, <1>4
    DEF FailsVIN, NotYetCounted, FailedBootsCounted, Counting
<1>5. CASE IncrementFailuresReached
    <2>1. /\ failureCount = maxFingerprintFailures /\ badBoots < boots
          /\ failureCount' = failureCount /\ obdPc' # "erase"
          /\ allTime' = allTime /\ boots' = boots /\ badBoots' = badBoots + 1
        BY <1>5 DEF IncrementFailuresReached, Counting, NotYetCounted
    <2>2. vinFile' = vinFile \/ vinFile'.failed = allTime + 1
        BY <1>5 DEF IncrementFailuresReached
    <2>3. NotYetCounted'
        BY <1>1, <2>1 DEF NotYetCounted
    <2>4. vinFile' # None => vinFile'.failed <= badBoots + 1
        <3>1. CASE vinFile' = vinFile /\ vinFile' # None
            <4>1. vinFile.failed \in Nat /\ vinFile.failed <= badBoots
                BY <3>1, SettingsParts DEF TypeOK, FailedBootsCounted
            <4> QED BY <1>1, <3>1, <4>1
        <3>2. CASE vinFile'.failed = allTime + 1
            BY <1>1, <3>2 DEF NotYetCounted
        <3> QED BY <2>2, <3>1, <3>2
    <2>5. badBoots' <= boots'
        BY <1>1, <2>1
    <2> QED BY <2>1, <2>3, <2>4, <2>5 DEF FailedBootsCounted
<1>6. ASSUME NEW c \in Clients, BleStep(c)
      PROVE  NotYetCounted' /\ FailedBootsCounted'
    <2>1. UNCHANGED <<allTime, failureCount, boots, badBoots, obdPc>>
        BY <1>6 DEF BleStep, ReadsCachedVIN, ReadsVIN, BleDeletes,
                    ReadsProtocol, BleLocks, BleFails, BleSaves, BleGetsVIN,
                    obdVars
    <2>2. vinFile' = vinFile \/ vinFile' = None \/ vinFile'.failed = 0
        <3>1. CASE BleSaves(c)
            <4>1. vinFile' \in {vinFile, [name |-> bleFound[c],
                                         vin |-> lastVIN, failed |-> 0]}
                BY <3>1 DEF BleSaves
            <4> QED BY <4>1
        <3>2. CASE BleDeletes(c)
            BY <3>2 DEF BleDeletes
        <3>3. CASE \/ ReadsCachedVIN(c) \/ ReadsVIN(c) \/ ReadsProtocol(c)
                   \/ BleLocks(c) \/ BleFails(c)
                   \/ \E found \in Names : BleGetsVIN(c, found)
            BY <3>3 DEF ReadsCachedVIN, ReadsVIN, ReadsProtocol, BleLocks,
                        BleFails, BleGetsVIN
        <3> QED BY <1>6, <3>1, <3>2, <3>3 DEF BleStep
    <2> QED BY <1>1, <2>1, <2>2 DEF NotYetCounted, FailedBootsCounted
<1>7. CASE PowerCycle
    <2>1. /\ vinFile' = vinFile \/ vinFile' = None
          /\ allTime' = 0
          /\ boots' = boots + 1 /\ badBoots' = badBoots
        <3>1. vinFile' = vinFile \/ vinFile' = None
            BY <1>7, FileAfterPowerCycle
        <3>2. /\ allTime' = 0
              /\ boots' = boots + 1 /\ badBoots' = badBoots
            BY <1>7 DEF PowerCycle
        <3> QED BY <3>1, <3>2
    <2>2. allTime' <= badBoots /\ badBoots <= boots
        BY <1>1, <2>1 DEF FailedBootsCounted
    <2> QED BY <1>1, <2>1, <2>2 DEF NotYetCounted, FailedBootsCounted
<1>8. CASE UNCHANGED vars
    BY <1>8 DEF vars, obdVars, NotYetCounted, FailedBootsCounted
<1> QED BY <1>3, <1>4, <1>5, <1>6, <1>7, <1>8, <1>9 DEF Next, ObdStep

\* Together.
LEMMA StepHolds == IInv /\ [Next]_vars => IInv'
BY TypeStep, FileStep, CountStep DEF IInv

\* Every variable keeps its type, and the loops over failures end at their
\* maxima (fingerprint.go, dtcErrors.go).
THEOREM TypeCorrect == Spec => []TypeOK
<1>1. IInv => TypeOK
    BY DEF IInv
<1> QED BY InitHolds, StepHolds, <1>1, PTL DEF Spec

\* The query name on disk works on the car whose VIN is next to it
\* (fingerprint.go, ble_chars.go:426-466).
THEOREM NameHolds == Spec => []NameFitsVIN
<1>1. IInv => NameFitsVIN
    BY DEF IInv
<1> QED BY InitHolds, StepHolds, <1>1, PTL DEF Spec

\* The count on disk is never above the number of starts that failed
\* (fingerprint.go:36).
THEOREM FailedHolds == Spec => []FailedBootsCounted
<1>1. IInv => FailedBootsCounted
    BY DEF IInv
<1> QED BY InitHolds, StepHolds, <1>1, PTL DEF Spec
=============================================================================
