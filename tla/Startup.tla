------------------------------ MODULE Startup ------------------------------
(***************************************************************************)
(* The start of the process in main.go, as far as it waits for the cloud:  *)
(* ReadConfig fetches the secrets once and keeps them in a file            *)
(* (config/config.go); the certificate of the MQTT connection is checked,  *)
(* renewed when due, and loaded (module Certificate, of which this is an   *)
(* implementation); blockingGetVehicleInfo asks the identity API which     *)
(* vehicle the device is paired with and keeps the answer in a file.       *)
(* Bluetooth runs before all of it, so a client may have the files of the  *)
(* settings store deleted at any moment; power may go at any moment.       *)
(***************************************************************************)
EXTENDS Certificate

CONSTANTS
    Vehicles,     \* the vehicles a device may be paired with
    ConfigTries,  \* attempts of Retry in ReadConfig: 11
    InfoTries,    \* turns of blockingGetVehicleInfo: 60
    MaxPairings,  \* bound: changes of the pairing
    MaxDeletes    \* bound: DeleteAllSettings

ASSUME VehiclesAssumption == None \notin Vehicles /\ Torn \notin Vehicles
ASSUME TriesAssumption ==
    ConfigTries \in Nat \ {0} /\ InfoTries \in Nat \ {0}
ASSUME WorldAssumption == MaxPairings \in Nat /\ MaxDeletes \in Nat

VARIABLES
    remoteConfig,  \* remote-config.json: "none" (or without the secrets),
                   \* "bad" (cannot be parsed), "good"
    cache,         \* vehicle-info.json: None, Torn, or a vehicle
    pairing,       \* the vehicle the device is paired with on chain
    phase,         \* "config", "config open", "certificate", "info",
                   \* "cache", "write", "write open", "running", "fatal",
                   \* "panicked"
    attempt,       \* turns of the loop it is in that failed
    info,          \* vehicleInfo
    replies,       \* history: what the identity API gave in the turns of this
                   \* start: "vehicle", "unpaired", "unreachable"
    pairings, deletes  \* history: against the bounds

main == <<phase, attempt, info, replies>>
world == <<pairing, pairings, deletes>>
startVars == <<vars, remoteConfig, cache, main, world>>

StartTypeOK ==
    /\ remoteConfig \in {"none", "bad", "good"}
    /\ cache \in Vehicles \cup {None, Torn}
    /\ pairing \in Vehicles \cup {None}
    /\ phase \in {"config", "config open", "certificate", "info", "cache",
                  "write", "write open", "running", "fatal", "panicked"}
    /\ attempt \in Nat
    /\ phase \in {"config", "config open"} => attempt < ConfigTries
    /\ phase \in {"info", "cache"} => attempt < InfoTries
    /\ info \in Vehicles \cup {None}
    /\ replies \subseteq {"vehicle", "unpaired", "unreachable"}
    /\ phase \in {"write", "write open", "running"} => info # None
    /\ phase \in {"config", "config open", "panicked"} => pc = "check"
    /\ phase \in {"info", "cache", "write", "write open", "running", "fatal"}
           => pc = "running"
    /\ pairings \in Nat /\ deletes \in Nat

StartInit ==
    /\ Init
    /\ remoteConfig = "none" /\ cache = None
    /\ pairing \in Vehicles \cup {None}
    /\ phase = "config" /\ attempt = 0 /\ info = None /\ replies = {}
    /\ pairings = 0 /\ deletes = 0
-----------------------------------------------------------------------------
(* ReadConfig. *)

\* The part before Retry fails, as config.yaml cannot be written or read back;
\* main dereferences the nil config.
ReadsNoConfig ==
    /\ phase = "config" /\ attempt = 0
    /\ phase' = "panicked"
    /\ UNCHANGED <<vars, remoteConfig, cache, attempt, info, replies, world>>

\* GetRemoteConfig finds a file with the secrets.
ReadsRemoteConfig ==
    /\ phase = "config" /\ remoteConfig = "good"
    /\ phase' = "certificate"
    /\ UNCHANGED <<vars, remoteConfig, cache, attempt, info, replies, world>>

\* It finds none and the cloud answers; the file is opened ...
FetchesConfig ==
    /\ phase = "config" /\ remoteConfig = "none"
    /\ phase' = "config open"
    /\ UNCHANGED <<vars, remoteConfig, cache, attempt, info, replies, world>>

\* ... and written.  An answer without the secrets is taken as well; the token
\* or the signing may then fail, and the next start asks again.
WritesConfig ==
    /\ phase = "config open"
    /\ remoteConfig' \in {"good", "none"}
    /\ phase' = "certificate"
    /\ UNCHANGED <<vars, cache, attempt, info, replies, world>>

\* Variant: the number of the attempt is not compared any more.
ConfigFailsForever ==
    /\ \/ phase = "config" /\ remoteConfig # "good" /\ UNCHANGED remoteConfig
       \/ phase = "config open" /\ remoteConfig' \in {"none", "bad"}
    /\ phase' = "config"
    /\ UNCHANGED <<vars, cache, attempt, info, replies, world>>

\* An attempt of Retry fails: the file cannot be parsed, the cloud does not
\* answer, or the answer cannot be written.  Retry sleeps twice as long every
\* time, also after its last attempt; then main dereferences the nil config.
ConfigFails ==
    /\ \/ phase = "config" /\ remoteConfig # "good" /\ UNCHANGED remoteConfig
       \/ phase = "config open" /\ remoteConfig' \in {"none", "bad"}
    /\ attempt' = attempt + 1
    /\ phase' = IF attempt' = ConfigTries THEN "panicked" ELSE "config"
    /\ UNCHANGED <<vars, cache, info, replies, world>>
-----------------------------------------------------------------------------
(* CheckCertAndRenewIfExpiresSoon, then NewDataSender. *)

Certifying ==
    \/ Checks \/ GetsToken \/ TokenFails \/ OpensKey \/ WritesKey \/ KeyFails
    \/ Signs \/ SignFails \/ OpensCert \/ WritesCert \/ CertFails

Certifies ==
    /\ phase = "certificate" /\ Certifying
    /\ UNCHANGED <<remoteConfig, cache, main, world>>

\* Variant: the client is set up first, and never again.
LoadsFirst ==
    /\ phase = "certificate" /\ pc = "check"
    /\ pc' = "running" /\ loaded' = Pair /\ started' = now
    /\ phase' = "info" /\ attempt' = 0
    /\ UNCHANGED <<now, boots, files, trouble, foundTorn, remoteConfig, cache,
                   info, replies, world>>

\* The error of the check is only logged, when the client is there.
LoadsPair ==
    /\ phase = "certificate" /\ Loads
    /\ phase' = "info" /\ attempt' = 0
    /\ UNCHANGED <<remoteConfig, cache, info, replies, world>>
-----------------------------------------------------------------------------
(* blockingGetVehicleInfo. *)

\* getVehicleInfo gives the vehicle of the pairing.
GetsVehicle ==
    /\ phase = "info" /\ pairing # None
    /\ info' = pairing
    /\ phase' = "write"
    /\ replies' = replies \cup {"vehicle"}
    /\ UNCHANGED <<vars, remoteConfig, cache, attempt, world>>

\* It gives an error: the API could not be asked ...
CannotAsk ==
    /\ phase = "info" /\ phase' = "cache"
    /\ replies' = replies \cup {"unreachable"}
    /\ UNCHANGED <<vars, remoteConfig, cache, attempt, info, world>>

\* ... or says that there is no pairing.  The text looked for, "tokenId is
\* zero", is in neither of the errors: the gateway makes a token id of zero
\* ErrNotFound before getVehicleInfo can compare it.
GetsNoVehicle ==
    /\ phase = "info" /\ phase' = "cache"
    /\ pairing = None
    /\ replies' = replies \cup {"unpaired"}
    /\ UNCHANGED <<vars, remoteConfig, cache, attempt, info, world>>

\* Variant: the condition after ReadVehicleInfo is the only way out.
ReadsCacheInVain ==
    /\ phase = "cache"
    /\ attempt' = attempt + 1
    /\ phase' = IF attempt' = InfoTries THEN "fatal" ELSE "info"
    /\ UNCHANGED <<vars, remoteConfig, cache, info, replies, world>>

\* ReadVehicleInfo: what the file holds is used; without a file that can be
\* parsed the loop sleeps and tries again, and main ends after the last turn.
ReadsCache ==
    /\ phase = "cache"
    /\ IF cache \in Vehicles
       THEN info' = cache /\ phase' = "write" /\ UNCHANGED attempt
       ELSE /\ attempt' = attempt + 1
            /\ phase' = IF attempt' = InfoTries THEN "fatal" ELSE "info"
            /\ UNCHANGED info
    /\ UNCHANGED <<vars, remoteConfig, cache, replies, world>>

\* WriteVehicleInfo: the file is emptied, or cannot be opened ...
OpensCache ==
    /\ phase = "write"
    /\ \/ cache' = Torn /\ phase' = "write open"
       \/ phase' = "running" /\ UNCHANGED cache
    /\ UNCHANGED <<vars, remoteConfig, attempt, info, replies, world>>

\* ... and written.
WritesCache ==
    /\ phase = "write open" /\ phase' = "running"
    /\ cache' \in {info, Torn}
    /\ UNCHANGED <<vars, remoteConfig, attempt, info, replies, world>>
-----------------------------------------------------------------------------
(* The rest of the device and of the world. *)

DayPasses == Day /\ UNCHANGED <<remoteConfig, cache, main, world>>

\* The process ends in any way and starts again; a file that was being
\* written is left half written.
StartsAgain ==
    /\ Restarts
    /\ remoteConfig' \in {remoteConfig} \cup
           (IF phase = "config open" THEN {"bad"} ELSE {})
    /\ phase' = "config" /\ attempt' = 0 /\ info' = None /\ replies' = {}
    /\ UNCHANGED <<cache, world>>

\* A Bluetooth client reads the VIN, and DeleteAllSettings removes the file,
\* not while it is being written: that holds the mutex of the store.
Deletes ==
    /\ deletes < MaxDeletes /\ deletes' = deletes + 1
    /\ phase # "write open"
    /\ cache' = None
    /\ UNCHANGED <<vars, remoteConfig, main, pairing, pairings>>

PairingChanges ==
    /\ pairings < MaxPairings /\ pairings' = pairings + 1
    /\ pairing' \in (Vehicles \cup {None}) \ {pairing}
    /\ UNCHANGED <<vars, remoteConfig, cache, main, deletes>>

Starting ==
    \/ ReadsNoConfig
    \/ ReadsRemoteConfig \/ FetchesConfig \/ WritesConfig \/ ConfigFails
    \/ Certifies \/ LoadsPair
    \/ GetsVehicle \/ CannotAsk \/ GetsNoVehicle
    \/ ReadsCache \/ OpensCache \/ WritesCache

StartNext ==
    Starting \/ DayPasses \/ StartsAgain \/ Deletes \/ PairingChanges

StartSpec == StartInit /\ [][StartNext]_startVars

\* The goroutine of main goes on, and its sleeps and requests end.
StartFairSpec == StartSpec /\ WF_startVars(Starting)
-----------------------------------------------------------------------------
Ended == {"running", "fatal", "panicked"}

\* A device that has its vehicle on disk does not give up when the API could not
\* be asked in some turn of the loop, whatever it answered in the others and
\* whatever a client deletes (blockingGetVehicleInfo, main.go:306-338: the local
\* cache is for a "likely transient error").
KnownVehicleRuns ==
    phase = "fatal" /\ "unreachable" \in replies => cache \notin Vehicles

\* A start comes to an end, one way or the other, through the attempts at the
\* configuration, a renewal that may fail at any step, and the turns for the
\* vehicle (main.go:306, "retries getVehicleInfo for 60 times").
StartEnds == phase \notin Ended ~> phase \in Ended
=============================================================================
