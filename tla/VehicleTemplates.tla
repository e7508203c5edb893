-------------------------- MODULE VehicleTemplates --------------------------
(***************************************************************************)
(* GetTemplateSettings (internal/vehicle_template.go): at each boot the    *)
(* device asks the cloud which template the vehicle has, downloads its     *)
(* parts when that has changed, and keeps all of it in files (settingsStore*)
(* of internal/loggers/template_store.go) for boots without a connection.  *)
(*                                                                         *)
(* The template of a vehicle is the set of URLs of its parts; a URL names  *)
(* a version, so it stands for the content too.  The power may fail        *)
(* between any two steps, and during a write, which truncates the file     *)
(* first; a Bluetooth client may make the device delete all files one by   *)
(* one (DeleteAllSettings) at any moment.                                  *)
(***************************************************************************)
EXTENDS Naturals

CONSTANTS
    Configs,     \* the templates the cloud may assign: [Parts -> URLs]
    NoUrl,       \* the empty URL: the template has no such part
    None,        \* a missing file, a nil pointer
    Torn,        \* the content of a file whose write was cut off
    MaxBoots,    \* bound: starts of the process
    MaxChanges,  \* bound: changes of the template in the cloud
    MaxDeletes   \* bound: DeleteAllSettings

Parts == {"pids", "settings", "dbc"}

Files == Parts \cup {"urls"}

Urls == {c[p] : c \in Configs, p \in Parts}

ASSUME TemplateAssumption ==
    /\ Configs # {}
    /\ \A c \in Configs : DOMAIN c = Parts /\ c["settings"] # NoUrl
    /\ None # Torn
    /\ {None, Torn} \cap Configs = {} /\ {None, Torn} \cap Urls = {}
    /\ MaxBoots \in Nat /\ MaxChanges \in Nat /\ MaxDeletes \in Nat

VARIABLES
    file,      \* what the disk holds
    expired,   \* whether update_at is over 30 days old: "yes" or "no"
    cloud,     \* the template the cloud assigns
    pc,        \* the next step of GetTemplateSettings, see Boot
    local,     \* templateURLsLocal
    fetched,   \* templateURLsRemote
    inUse,     \* pidsConfig, deviceSettings and dbcFile
    clean,     \* history: no call, write or read of this boot was disturbed
    settled,   \* history: the template a clean boot left complete on disk
    deleting,  \* DeleteAllSettings: the file it deletes next, 0 when idle
    boots, changes, deletes  \* history: against the bounds

bounds == <<boots, changes, deletes>>
vars == <<file, expired, cloud, pc, local, fetched, inUse, clean,
          settled, deleting, bounds>>

\* The steps in order.  "stopped" is LogFatal in main, "running" is Run.
Reading == {"read urls", "read pids", "read settings", "read dbc"}
Saving == {"save urls", "save pids", "save settings", "save dbc"}

TypeOK ==
    /\ file = [f \in Files |-> file[f]]
    /\ file["urls"] \in Configs \cup {None, Torn}
    /\ \A p \in Parts : file[p] \in Urls \cup {None, Torn}
    /\ expired \in {"yes", "no"}
    /\ cloud \in Configs
    /\ pc \in Reading \cup Saving \cup
              {"fetch", "report", "get pids", "get settings", "get dbc",
               "running", "stopped"}
    /\ local \in Configs \cup {None} /\ fetched \in Configs \cup {None}
    /\ inUse \in [Parts -> Urls \cup {None, Torn}]
    /\ inUse["pids"] # Torn /\ inUse["settings"] # Torn
    /\ clean \in {"yes", "no"}
    /\ settled \in Configs \cup {None}
    /\ deleting \in 0..4
    /\ boots \in Nat /\ changes \in Nat /\ deletes \in Nat

Nothing == [p \in Parts |-> None]

Init ==
    /\ file = [f \in Files |-> None] /\ expired = "no"
    /\ cloud \in Configs
    /\ pc = "read urls" /\ local = None /\ fetched = None
    /\ inUse = Nothing
    /\ clean = "yes" /\ settled = None
    /\ deleting = 0
    /\ boots = 1 /\ changes = 0 /\ deletes = 0

Stays == UNCHANGED <<cloud, deleting, bounds>>
-----------------------------------------------------------------------------
(* Reading the files. *)

ReadTemplateURLs ==
    IF expired = "yes" \/ file["urls"] = Torn THEN None ELSE file["urls"]

\* A torn JSON file cannot be parsed; a torn DBC file is just a shorter text.
ReadPart(p) == IF p # "dbc" /\ file[p] = Torn THEN None ELSE file[p]

ReadsURLs ==
    /\ pc = "read urls"
    /\ local' = ReadTemplateURLs
    /\ pc' = IF local' = None THEN "fetch" ELSE "read pids"
    /\ UNCHANGED <<file, expired, fetched, inUse, clean, settled>>
    /\ Stays

ReadsPart(p, from, to) ==
    /\ pc = from /\ pc' = to
    /\ inUse' = [inUse EXCEPT ![p] = ReadPart(p)]
    /\ UNCHANGED <<file, expired, local, fetched, clean, settled>>
    /\ Stays

Reads ==
    \/ ReadsURLs
    \/ ReadsPart("pids", "read pids", "read settings")
    \/ ReadsPart("settings", "read settings", "read dbc")
    \/ ReadsPart("dbc", "read dbc", "fetch")
-----------------------------------------------------------------------------
(* Asking the cloud. *)

\* Variant: only the PID URL is compared.
SamePids(remote) ==
    /\ local # None /\ local["pids"] = remote["pids"]
    /\ inUse["settings"] # None /\ inUse["dbc"] # None

\* "No change": the PID file is not asked for, the two others must be there.
Unchanged(remote) ==
    /\ local = remote
    /\ inUse["settings"] # None /\ inUse["dbc"] # None

\* GetUrlsByEthAddr succeeds.
FetchesURLs ==
    /\ pc = "fetch"
    /\ fetched' = cloud
    /\ pc' = IF Unchanged(cloud) THEN "running" ELSE "save urls"
    /\ UNCHANGED <<file, expired, local, inUse, clean, settled>>
    /\ Stays

\* It fails three times: with no local URLs either, main ends the process.
CannotFetchURLs ==
    /\ pc = "fetch"
    /\ pc' = IF local = None THEN "stopped" ELSE "running"
    /\ clean' = "no"
    /\ UNCHANGED <<file, expired, local, fetched, inUse, settled>>
    /\ Stays

\* UpdateDeviceConfigStatus, which may fail without consequences.
Reports ==
    /\ pc = "report" /\ pc' = "get pids"
    /\ UNCHANGED <<file, expired, local, fetched, inUse, clean, settled>>
    /\ Stays

After(p) ==
    CASE p = "pids" -> "get settings"
      [] p = "settings" -> "get dbc"
      [] p = "dbc" -> "running"

Getting(p) ==
    CASE p = "pids" -> "get pids"
      [] p = "settings" -> "get settings"
      [] p = "dbc" -> "get dbc"

SaveOf(f) ==
    CASE f = "urls" -> "save urls"
      [] f = "pids" -> "save pids"
      [] f = "settings" -> "save settings"
      [] f = "dbc" -> "save dbc"

\* What a clean update leaves behind when it is over.
Settles(ok) ==
    settled' = IF pc' = "running" /\ ok = "yes" THEN fetched ELSE settled

\* The part is downloaded; GetPIDs refuses an empty URL.
Downloads(p) ==
    /\ pc = Getting(p) /\ fetched[p] # NoUrl
    /\ inUse' = [inUse EXCEPT ![p] = fetched[p]]
    /\ pc' = SaveOf(p)
    /\ UNCHANGED <<file, expired, local, fetched, clean, settled>>
    /\ Stays

\* The download fails: the PIDs read from disk stay in use, the settings and
\* the DBC file do not.
CannotDownload(p) ==
    /\ pc = Getting(p) /\ (p = "dbc" => fetched[p] # NoUrl)
    /\ inUse' = IF p = "pids" THEN inUse ELSE [inUse EXCEPT ![p] = None]
    /\ pc' = After(p)
    /\ clean' = "no"
    /\ UNCHANGED <<file, expired, local, fetched, settled>>
    /\ Stays

\* The template has no DBC file: the one read from disk stays in use.
SkipsDBC ==
    /\ pc = "get dbc" /\ fetched["dbc"] = NoUrl
    /\ pc' = "running"
    /\ Settles(clean)
    /\ UNCHANGED <<file, expired, local, fetched, inUse, clean>>
    /\ Stays
-----------------------------------------------------------------------------
(* Writing the files. *)

\* WriteTemplateURLs, which also renews update_at.
SavesURLs ==
    /\ pc = "save urls" /\ pc' = "report"
    /\ file' = [file EXCEPT !["urls"] = fetched]
    /\ expired' = "no"
    /\ settled' = None
    /\ UNCHANGED <<local, fetched, inUse, clean>>
    /\ Stays

\* Variant: a file that is there is not written again.
SavesMissing(p) ==
    /\ pc = SaveOf(p) /\ pc' = After(p)
    /\ file' = IF file[p] = None THEN [file EXCEPT ![p] = inUse[p]] ELSE file
    /\ Settles(clean)
    /\ UNCHANGED <<expired, local, fetched, inUse, clean>>
    /\ Stays

\* WritePIDsConfig, WriteTemplateDeviceSettings, WriteDBCFile.
SavesPart(p) ==
    /\ pc = SaveOf(p) /\ pc' = After(p)
    /\ file' = [file EXCEPT ![p] = inUse[p]]
    /\ Settles(clean)
    /\ UNCHANGED <<expired, local, fetched, inUse, clean>>
    /\ Stays

\* The file cannot be created, or not be written once it is truncated; this
\* is logged.
CannotSave(f) ==
    /\ pc = SaveOf(f)
    /\ file' \in {file, [file EXCEPT ![f] = Torn]}
    /\ pc' = IF f = "urls" THEN "report" ELSE After(f)
    /\ clean' = "no" /\ settled' = None
    /\ UNCHANGED <<expired, local, fetched, inUse>>
    /\ Stays
-----------------------------------------------------------------------------
(* The rest of the device and of the world. *)

\* The process ends and starts again; a file being written is left torn.
Reboot ==
    /\ boots < MaxBoots /\ boots' = boots + 1
    /\ \/ UNCHANGED <<file, settled>>
       \/ \E f \in Files :
              /\ pc = SaveOf(f)
              /\ file' = [file EXCEPT ![f] = Torn]
              /\ settled' = None
    /\ pc' = "read urls" /\ local' = None /\ fetched' = None
    /\ inUse' = Nothing
    /\ clean' = "yes"
    /\ deleting' = 0
    /\ UNCHANGED <<expired, cloud, changes, deletes>>

\* DeleteAllSettings, in its order (the other files are not of this module).
DeleteOrder == <<"pids", "settings", "urls", "dbc">>

StartsDeleting ==
    /\ deleting = 0 /\ deletes < MaxDeletes
    /\ deleting' = 1 /\ deletes' = deletes + 1
    /\ settled' = None
    /\ UNCHANGED <<file, expired, cloud, pc, local, fetched, inUse,
                   clean, boots, changes>>

Deletes ==
    /\ deleting > 0
    /\ file' = [file EXCEPT ![DeleteOrder[deleting]] = None]
    /\ deleting' = IF deleting = 4 THEN 0 ELSE deleting + 1
    /\ clean' = "no" /\ settled' = None
    /\ UNCHANGED <<expired, cloud, pc, local, fetched, inUse, bounds>>

Expires ==
    /\ expired = "no" /\ file["urls"] # None
    /\ expired' = "yes"
    /\ settled' = None
    /\ UNCHANGED <<file, cloud, pc, local, fetched, inUse, clean,
                   deleting, bounds>>

CloudChanges ==
    /\ changes < MaxChanges /\ changes' = changes + 1
    /\ cloud' \in Configs \ {cloud}
    /\ UNCHANGED <<file, expired, pc, local, fetched, inUse, clean,
                   settled, deleting, boots, deletes>>

Next ==
    \/ Reads \/ FetchesURLs \/ CannotFetchURLs \/ Reports
    \/ \E p \in Parts : Downloads(p) \/ CannotDownload(p) \/ SavesPart(p)
    \/ SkipsDBC \/ SavesURLs
    \/ \E f \in Files : CannotSave(f)
    \/ Reboot \/ StartsDeleting \/ Deletes \/ Expires \/ CloudChanges

Spec == Init /\ [][Next]_vars
-----------------------------------------------------------------------------
Running == pc = "running"

\* A part the template has is the one in use.
Uses(c) == \A p \in Parts : c[p] # NoUrl => inUse[p] = c[p]

\* A boot that finds another template in the cloud than on disk, or none on
\* disk, and is not disturbed, ends with every part of that template in use,
\* whatever earlier boots left behind (GetTemplateSettings).
UpdateRunsLatest ==
    Running /\ clean = "yes" /\ local # fetched => Uses(fetched)

\* A template that a boot downloaded and saved without a disturbance is what
\* a later boot without connection runs, however many boots ended half way,
\* until the files are changed, deleted or expire (GetTemplateSettings and
\* settingsStore across boots).
SettledSurvives ==
    Running /\ fetched = None /\ settled # None => Uses(settled)

\* An undisturbed boot runs the template of the cloud (vehicle_template.go:37,
\* "checks for any new template settings and if so updates the local
\* settings, returning the latest").
ReturnsLatest == Running /\ clean = "yes" => Uses(fetched)
=============================================================================
