--------------------------- MODULE StartupProofs ---------------------------
(***************************************************************************)
(* The start of the process implements the certificate service, so what is *)
(* proved of the latter holds of the former: MismatchIsDue and             *)
(* WeekOfService for every window, every set of lifetimes longer than it,  *)
(* and any number of days and starts.  And a start that knows its vehicle  *)
(* does not give up, for every set of vehicles, every number of attempts,  *)
(* and any number of deletions and pairings.                               *)
(***************************************************************************)
EXTENDS Startup, TLAPS

(* The certificate service. *)

\* A renewal in progress has not made the certificate that is still there
\* any less due, and time stands still between the check and the load.
Renewing == pc \in {"token", "key", "key open", "sign", "cert"} => Due
Emptied == pc = "cert open" => certFile = "torn"
KeyWritten == pc \in {"sign", "cert", "cert open"} => keyFile = boots
SameDay == pc \notin {"check", "running"} => started = now

\* What a start without failure is about to load, and what it has loaded.
GoodToLoad ==
    pc = "load" /\ trouble = "no" /\ foundTorn = "no" =>
        certFile = "whole" /\ keyFile = certKey /\ expires > now + Window
GoodLoaded ==
    pc = "running" /\ trouble = "no" /\ foundTorn = "no" =>
        loaded > started + Window

IInv ==
    /\ TypeOK /\ Renewing /\ Emptied /\ KeyWritten /\ SameDay
    /\ MismatchIsDue /\ GoodToLoad /\ GoodLoaded

\* The first start satisfies the invariant.
LEMMA InitHolds == Init => IInv
BY DEF Init, IInv, TypeOK, Renewing, Emptied, KeyWritten, SameDay,
       MismatchIsDue, Due, GoodToLoad, GoodLoaded

\* Every step keeps it: the steps that fail, those that write a file, the
\* load, and time.
LEMMA StepHolds == IInv /\ [Next]_vars => IInv'
<1> SUFFICES ASSUME IInv, [Next]_vars PROVE IInv'
    OBVIOUS
<1>1. TypeOK'
    <2> USE DEF TypeOK, files
    <2>1. TypeOK
        BY DEF IInv
    <2>2. CASE Checks
        BY <2>1, <2>2 DEF Checks
    <2>3. CASE GetsToken \/ Signs
        BY <2>1, <2>3 DEF GetsToken, Signs
    <2>4. CASE TokenFails \/ KeyFails \/ SignFails \/ CertFails
        BY <2>1, <2>4 DEF TokenFails, KeyFails, SignFails, CertFails, Fails
    <2>5. CASE OpensKey \/ WritesKey \/ OpensCert
        BY <2>1, <2>5 DEF OpensKey, WritesKey, OpensCert
    <2>6. CASE WritesCert
        <3>1. PICK life \in Lifetimes : expires' = now + life
            BY <2>6 DEF WritesCert
        <3>2. life \in Nat
            BY LifetimesAssumption
        <3>3. now \in Nat
            BY <2>1
        <3>4. expires' \in Nat
            BY <3>1, <3>2, <3>3
        <3> QED BY <2>1, <2>6, <3>4 DEF WritesCert
    <2>7. CASE Loads
        BY <2>1, <2>7 DEF Loads, Pair
    <2>8. CASE Day
        <3>1. now \in Nat /\ started \in 0..now
            BY <2>1
        <3>2. now' \in Nat /\ started \in 0..now'
            BY <2>8, <3>1 DEF Day
        <3> QED BY <2>1, <2>8, <3>2 DEF Day
    <2>9. CASE Restarts
        <3>1. boots \in Nat \ {0}
            BY <2>1
        <3>2. boots' \in Nat \ {0}
            BY <2>9, <3>1 DEF Restarts
        <3> QED BY <2>1, <2>9, <3>2 DEF Restarts
    <2>10. CASE UNCHANGED vars
        BY <2>1, <2>10 DEF vars
    <2> QED BY <2>2, <2>3, <2>4, <2>5, <2>6, <2>7, <2>8, <2>9, <2>10 DEF Next
<1>2. /\ now \in Nat /\ expires \in Nat /\ started \in Nat
      /\ now' \in Nat /\ expires' \in Nat /\ started' \in Nat
    <2>1. /\ now \in Nat /\ expires \in Nat /\ started \in 0..now
          /\ now' \in Nat /\ expires' \in Nat /\ started' \in 0..now'
        BY <1>1, Zenon DEF IInv, TypeOK
    <2> QED BY <2>1
<1> DEFINE Rest == /\ Renewing /\ Emptied /\ KeyWritten /\ SameDay
                   /\ MismatchIsDue /\ GoodToLoad /\ GoodLoaded
<1>3. Rest
    BY DEF IInv
<1>4. WritesCert => expires' > now' + Window
    <2> SUFFICES ASSUME WritesCert PROVE expires' > now' + Window
        OBVIOUS
    <2>1. PICK life \in Lifetimes : expires' = now + life
        BY DEF WritesCert
    <2>2. now' = now
        BY DEF WritesCert
    <2>3. life \in Nat /\ life > Window
        BY LifetimesAssumption
    <2> QED BY <1>2, <2>1, <2>2, <2>3, WindowAssumption
<1>5. Day /\ Due => Due'
    BY <1>2, WindowAssumption DEF Day, Due, files
<1>6. Rest'
    <2> USE WindowAssumption, <1>2, <1>3
    <2> USE DEF Renewing, Emptied, KeyWritten, SameDay, MismatchIsDue, Due,
                GoodToLoad, GoodLoaded, files
    <2>1. CASE Checks
        <3>1. certFile \in {"none", "torn", "whole"}
            BY DEF IInv, TypeOK
        <3> QED BY <2>1, <3>1 DEF Checks
    <2>2. CASE GetsToken \/ Signs
        BY <2>2 DEF GetsToken, Signs
    <2>3. CASE TokenFails \/ KeyFails \/ SignFails \/ CertFails
        BY <2>3 DEF TokenFails, KeyFails, SignFails, CertFails, Fails
    <2>4. CASE OpensKey \/ WritesKey
        BY <2>4 DEF OpensKey, WritesKey
    <2>5. CASE OpensCert
        BY <2>5 DEF OpensCert
    <2>6. CASE WritesCert
        <3>1. keyFile' = certKey' /\ pc' = "load" /\ certFile' = "whole"
            BY <2>6 DEF WritesCert
        <3>2. started' = now'
            BY <2>6 DEF WritesCert
        <3> QED BY <1>4, <2>6, <3>1, <3>2
    <2>7. CASE Loads
        BY <2>7 DEF Loads, Pair
    <2>8. CASE Day
        <3>1. now' = now + 1 /\ pc \in {"check", "running"} /\ pc' = pc
            BY <2>8 DEF Day
        <3> QED BY <1>5, <2>8, <3>1 DEF Day
    <2>9. CASE Restarts
        BY <2>9 DEF Restarts
    <2>10. CASE UNCHANGED vars
        BY <2>10 DEF vars
    <2> QED BY <2>1, <2>2, <2>3, <2>4, <2>5, <2>6, <2>7, <2>8, <2>9, <2>10
            DEF Next
<1> QED BY <1>1, <1>6 DEF IInv

\* Every variable keeps its type (certificate.go).
THEOREM TypeCorrect == Spec => []TypeOK
<1>1. IInv => TypeOK
    BY DEF IInv
<1> QED BY InitHolds, StepHolds, <1>1, PTL DEF Spec

\* A mismatched pair is always inside the renewal window, so the next start
\* repairs it (certificate.go:142-153, 201-216).
THEOREM MismatchHolds == Spec => []MismatchIsDue
<1>1. IInv => MismatchIsDue
    BY DEF IInv
<1> QED BY InitHolds, StepHolds, <1>1, PTL DEF Spec

\* A start without failure serves as long as the window is
\* (certificate.go:142, data_sender.go:119).
THEOREM WeekHolds == Spec => []WeekOfService
<1>1. IInv => WeekOfService
    BY WindowAssumption DEF IInv, TypeOK, GoodLoaded, WeekOfService
<1> QED BY InitHolds, StepHolds, <1>1, PTL DEF Spec
-----------------------------------------------------------------------------
(* The start of the process. *)

\* The initial states are the certificate's.
LEMMA StartInitMaps == StartInit => Init
BY DEF StartInit

\* Every step is one of the certificate's, or leaves its variables alone.
LEMMA StartStepMaps == [StartNext]_startVars => [Next]_vars
<1> SUFFICES ASSUME [StartNext]_startVars PROVE [Next]_vars
    OBVIOUS
<1>1. CASE ReadsRemoteConfig \/ FetchesConfig \/ WritesConfig \/ ConfigFails
    BY <1>1 DEF ReadsRemoteConfig, FetchesConfig, WritesConfig, ConfigFails
<1>9. CASE ReadsNoConfig
    BY <1>9 DEF ReadsNoConfig
<1>2. CASE Certifies
    BY <1>2 DEF Certifies, Certifying, Next
<1>3. CASE LoadsPair
    BY <1>3 DEF LoadsPair, Next
<1>4. CASE GetsVehicle \/ CannotAsk \/ GetsNoVehicle \/ ReadsCache \/ OpensCache
           \/ WritesCache
    BY <1>4 DEF GetsVehicle, CannotAsk, GetsNoVehicle, ReadsCache, OpensCache,
                WritesCache
<1>5. CASE DayPasses
    BY <1>5 DEF DayPasses, Next
<1>6. CASE StartsAgain
    BY <1>6 DEF StartsAgain, Next
<1>7. CASE Deletes \/ PairingChanges
    BY <1>7 DEF Deletes, PairingChanges
<1>8. CASE UNCHANGED startVars
    BY <1>8 DEF startVars
<1> QED BY <1>1, <1>2, <1>3, <1>4, <1>5, <1>6, <1>7, <1>8, <1>9
        DEF StartNext, Starting

\* The start of the process implements the certificate service
\* (main.go:166-187).
THEOREM StartImplementsCertificate == StartSpec => Spec
BY StartInitMaps, StartStepMaps, PTL DEF StartSpec, Spec

\* So a mismatched pair is due at the next start (certificate.go:201-216).
THEOREM StartMismatchHolds == StartSpec => []MismatchIsDue
BY StartImplementsCertificate, MismatchHolds, PTL

\* So a start without failure serves as long as the window is, however long
\* main waits for the vehicle (main.go:170, 312).
THEOREM StartWeekHolds == StartSpec => []WeekOfService
BY StartImplementsCertificate, WeekHolds, PTL
-----------------------------------------------------------------------------
\* Main gives up in a turn that found no vehicle in the file, and nobody writes
\* one after that.
GivesUpWithout == phase = "fatal" => cache \notin Vehicles

\* The types of main's own variables, and where the certificate's steps stand
\* in it.
StartIInv == TypeOK /\ StartTypeOK /\ GivesUpWithout

LEMMA StartInitHolds == StartInit => StartIInv
<1> SUFFICES ASSUME StartInit PROVE StartIInv
    OBVIOUS
<1>1. TypeOK
    BY InitHolds DEF StartInit, IInv
<1>2. StartTypeOK /\ GivesUpWithout
    BY TriesAssumption DEF StartInit, Init, StartTypeOK, GivesUpWithout
<1> QED BY <1>1, <1>2 DEF StartIInv

\* The step of the certificate service cannot leave the phase "certificate"
\* but by the load.
LEMMA CertifyingStays ==
    TypeOK /\ Certifying => pc' \in {"token", "key", "key open", "sign",
                                     "cert", "cert open", "load"}
BY DEF Certifying, Checks, GetsToken, TokenFails, OpensKey, WritesKey,
       KeyFails, Signs, SignFails, OpensCert, WritesCert, CertFails, Fails

\* Every step keeps main's types, and ends in "fatal" only without a vehicle
\* in the file.
LEMMA StartStepHolds ==
    StartIInv /\ TypeOK' /\ [StartNext]_startVars => StartIInv'
<1> SUFFICES ASSUME StartIInv, TypeOK', [StartNext]_startVars
             PROVE StartTypeOK' /\ GivesUpWithout'
    BY DEF StartIInv
<1>1. /\ attempt \in Nat /\ attempt + 1 \in Nat
      /\ pairings \in Nat /\ pairings + 1 \in Nat
      /\ deletes \in Nat /\ deletes + 1 \in Nat
      /\ 0 < ConfigTries /\ 0 < InfoTries
    <2>1. attempt \in Nat /\ pairings \in Nat /\ deletes \in Nat
        BY Zenon DEF StartIInv, StartTypeOK
    <2> QED BY <2>1, TriesAssumption
<1> USE VehiclesAssumption, TriesAssumption
<1> USE DEF StartTypeOK, GivesUpWithout
<1>2. StartTypeOK /\ GivesUpWithout
    BY DEF StartIInv
<1>3. UNCHANGED vars => UNCHANGED pc
    BY DEF vars
<1>4. CASE ReadsRemoteConfig \/ FetchesConfig \/ WritesConfig
    BY <1>2, <1>3, <1>4
    DEF ReadsRemoteConfig, FetchesConfig, WritesConfig, world
<1>15. CASE ReadsNoConfig
    BY <1>2, <1>3, <1>15 DEF ReadsNoConfig, world
<1>5. CASE ConfigFails
    <2>1. attempt + 1 # ConfigTries /\ attempt < ConfigTries
             => attempt + 1 < ConfigTries
        BY <1>1
    <2> QED BY <1>1, <1>2, <1>3, <1>5, <2>1 DEF ConfigFails, world
<1>6. CASE Certifies
    <2>1. pc' \notin {"check", "running"}
        BY <1>6, CertifyingStays DEF Certifies, StartIInv
    <2> QED BY <1>2, <1>6, <2>1 DEF Certifies, main, world
<1>7. CASE LoadsPair
    BY <1>1, <1>2, <1>7 DEF LoadsPair, Loads, world
<1>8. CASE GetsVehicle \/ CannotAsk \/ GetsNoVehicle
    BY <1>2, <1>3, <1>8 DEF GetsVehicle, CannotAsk, GetsNoVehicle, world
<1>9. CASE ReadsCache
    <2>1. attempt + 1 # InfoTries /\ attempt < InfoTries
             => attempt + 1 < InfoTries
        BY <1>1
    <2> QED BY <1>1, <1>2, <1>3, <1>9, <2>1 DEF ReadsCache, world
<1>10. CASE OpensCache \/ WritesCache
    BY <1>2, <1>3, <1>10 DEF OpensCache, WritesCache, world
<1>11. CASE DayPasses
    BY <1>2, <1>11 DEF DayPasses, Day, main, world
<1>12. CASE StartsAgain
    BY <1>1, <1>2, <1>12 DEF StartsAgain, Restarts, world
<1>13. CASE Deletes \/ PairingChanges
    BY <1>1, <1>2, <1>3, <1>13 DEF Deletes, PairingChanges, main
<1>14. CASE UNCHANGED startVars
    BY <1>2, <1>3, <1>14 DEF startVars, main, world
<1> QED BY <1>4, <1>5, <1>6, <1>7, <1>8, <1>9, <1>10, <1>11, <1>12, <1>13,
           <1>14, <1>15 DEF StartNext, Starting

\* Every variable of main keeps its type, a vehicle is known whenever the
\* process runs with one, and the certificate is loaded before the vehicle is
\* asked for (main.go:166-190).
THEOREM StartTypeCorrect == StartSpec => []StartTypeOK
<1>1. StartIInv => StartTypeOK
    BY DEF StartIInv
<1> QED BY StartImplementsCertificate, TypeCorrect, StartInitHolds,
           StartStepHolds, <1>1, PTL DEF StartSpec

\* A start that gives up although the API could not be asked in one of its
\* turns has no vehicle in the file (main.go:306-338).
THEOREM KnownVehicleHolds == StartSpec => []KnownVehicleRuns
<1>1. StartIInv => KnownVehicleRuns
    BY DEF StartIInv, GivesUpWithout, KnownVehicleRuns
<1> QED BY StartImplementsCertificate, TypeCorrect, StartInitHolds,
           StartStepHolds, <1>1, PTL DEF StartSpec
=============================================================================
