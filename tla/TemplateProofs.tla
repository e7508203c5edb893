--------------------------- MODULE TemplateProofs ---------------------------
(***************************************************************************)
(* Proofs about the template of a vehicle, how the device comes by it and  *)
(* how it is used.                                                         *)
(*                                                                         *)
(* VehicleTemplates, for any templates and any number of boots, changes of *)
(* the cloud and deletions: an undisturbed update runs what it fetched,    *)
(* and what a clean update left on disk is what a later boot without a     *)
(* connection runs.                                                        *)
(*                                                                         *)
(* CanDecoding, for any templates, data, frames and VINs: the number       *)
(* taken from an answer is the one its bytes stand for, on both ways; a    *)
(* frame the vehicle broadcasts gives the signals its DBC file lists for   *)
(* it; the process ends in the known cases only; and a VIN is extracted    *)
(* whole.  Its lemmas say what the helpers on bytes and digits return;     *)
(* where they are recursive functions (the value of digits, the parser of  *)
(* a DBC file, the text of a VIN) by SetInduction, which comes from the    *)
(* well-foundedness of the natural numbers.                                *)
(***************************************************************************)
EXTENDS VehicleTemplates, CanDecoding, WellFoundedInduction, FiniteSetTheorems,
        SequenceTheorems, TLAPS

\* The steps of an update after its PIDs, and its settings, are in use; and all
\* after the URLs are saved.
AfterPids == {"save pids", "get settings", "save settings", "get dbc", "save dbc"}
Updating == {"report", "get pids"} \cup AfterPids
AfterSettings == {"save settings", "get dbc", "save dbc"}

\* The parts of an update that was not disturbed so far are those of the
\* template it fetched; when it is over all of them are.
UpdateInUse ==
    clean = "yes" =>
        /\ pc \in AfterPids => inUse["pids"] = fetched["pids"]
        /\ pc \in AfterSettings => inUse["settings"] = fetched["settings"]
        /\ pc = "save dbc" => inUse["dbc"] = fetched["dbc"]
        /\ pc = "running" /\ local # fetched => Uses(fetched)

\* A template is fetched before its parts are, and once.
FetchedFirst ==
    /\ fetched = None => pc \in Reading \cup {"fetch", "stopped", "running"}
    /\ pc \in Reading \cup {"fetch", "stopped"} => fetched = None
    /\ pc = "running" /\ fetched = None => local # None

\* The files an update wrote so far, unless it was disturbed: a deletion that
\* has begun, or a change of update_at, is not one.
UpdateOnDisk ==
    clean = "yes" =>
        /\ pc \in Updating => file["urls"] = fetched
        /\ pc \in AfterPids \ {"save pids"} => file["pids"] = fetched["pids"]
        /\ pc \in {"get dbc", "save dbc"} => file["settings"] = fetched["settings"]

\* What a clean update left complete is still on disk, and no update is under way.
SettledOnDisk ==
    settled # None =>
        /\ pc \notin Updating
        /\ file["urls"] = settled
        /\ \A p \in Parts : settled[p] # NoUrl => file[p] = settled[p]

\* A boot that has fetched nothing took what it uses from the files.
ReadFromDisk ==
    settled # None /\ fetched = None =>
        /\ pc # "read urls" /\ local # None => local = settled
        /\ pc \in {"read settings", "read dbc"} =>
               inUse["pids"] = ReadPart("pids")
        /\ pc = "read dbc" => inUse["settings"] = ReadPart("settings")
        /\ pc \in {"fetch", "running"} /\ local # None =>
               \A p \in Parts : inUse[p] = ReadPart(p)

IInv ==
    /\ TypeOK /\ FetchedFirst /\ UpdateInUse
    /\ UpdateOnDisk /\ SettledOnDisk /\ ReadFromDisk

\* Each part has steps of its own.
LEMMA StepsOf ==
    /\ Parts = {"pids", "settings", "dbc"} /\ Files = {"pids", "settings", "dbc", "urls"}
    /\ Getting("pids") = "get pids" /\ Getting("settings") = "get settings"
    /\ Getting("dbc") = "get dbc"
    /\ SaveOf("pids") = "save pids" /\ SaveOf("settings") = "save settings"
    /\ SaveOf("dbc") = "save dbc" /\ SaveOf("urls") = "save urls"
    /\ After("pids") = "get settings" /\ After("settings") = "get dbc"
    /\ After("dbc") = "running"
<1>1. "pids" # "settings" /\ "pids" # "dbc" /\ "settings" # "dbc"
      /\ "urls" # "pids" /\ "urls" # "settings" /\ "urls" # "dbc"
    OBVIOUS
<1>2. Getting("pids") = "get pids" /\ Getting("settings") = "get settings"
      /\ Getting("dbc") = "get dbc"
    BY <1>1 DEF Getting
<1>3. SaveOf("pids") = "save pids" /\ SaveOf("settings") = "save settings"
      /\ SaveOf("dbc") = "save dbc" /\ SaveOf("urls") = "save urls"
    BY <1>1 DEF SaveOf
<1>4. After("pids") = "get settings" /\ After("settings") = "get dbc"
      /\ After("dbc") = "running"
    BY <1>1 DEF After
<1> QED BY <1>2, <1>3, <1>4 DEF Parts, Files

\* A part of a template is a URL, which is neither None nor Torn.
LEMMA PartsAreUrls ==
    /\ \A c \in Configs : c # None /\ c # Torn /\ \A p \in Parts : c[p] \in Urls
    /\ None # Torn /\ None \notin Urls /\ Torn \notin Urls
BY TemplateAssumption DEF Urls

\* The types of the files and of what is in use, which the steps change one
\* at a time.
FilesType(content) ==
    /\ content = [f \in Files |-> content[f]]
    /\ content["urls"] \in Configs \cup {None, Torn}
    /\ \A p \in Parts : content[p] \in Urls \cup {None, Torn}

InUseType(used) ==
    /\ used \in [Parts -> Urls \cup {None, Torn}]
    /\ used["pids"] # Torn /\ used["settings"] # Torn

\* A write to one file, a cut-off one and a deletion included, keeps their types, ...
LEMMA FileChanges ==
    ASSUME FilesType(file), NEW f \in Files, NEW content,
           content \in {None, Torn} \/ (f = "urls" /\ content \in Configs)
                                    \/ (f \in Parts /\ content \in Urls)
    PROVE  FilesType([file EXCEPT ![f] = content])
<1> DEFINE after == [file EXCEPT ![f] = content]
<1>1. /\ after = [g \in Files |-> IF g = f THEN content ELSE file[g]]
    BY DEF FilesType
<1>2. \A g \in Files : after[g] = IF g = f THEN content ELSE file[g]
    BY <1>1
<1>3. after = [g \in Files |-> after[g]]
    BY <1>1, <1>2
<1> HIDE DEF after
<1>4. after["urls"] \in Configs \cup {None, Torn}
    BY <1>2, StepsOf DEF FilesType
<1>5. ASSUME NEW p \in Parts PROVE after[p] \in Urls \cup {None, Torn}
    BY <1>2, StepsOf DEF FilesType
<1> QED BY <1>3, <1>4, <1>5 DEF FilesType, after

\* ... and so does a part taken into use.
LEMMA UseChanges ==
    ASSUME InUseType(inUse), NEW p \in Parts, NEW used \in Urls \cup {None, Torn},
           used = Torn => p = "dbc"
    PROVE  InUseType([inUse EXCEPT ![p] = used])
BY StepsOf DEF InUseType

\* Each of the four files is deleted, whichever the walk has come to.
LEMMA OrderOfDeletion == \A i \in 1..4 : DeleteOrder[i] \in Files
<1>1. /\ DeleteOrder[1] = "pids" /\ DeleteOrder[2] = "settings"
      /\ DeleteOrder[3] = "urls" /\ DeleteOrder[4] = "dbc"
    BY DEF DeleteOrder
<1>2. \A i \in 1..4 : i = 1 \/ i = 2 \/ i = 3 \/ i = 4
    OBVIOUS
<1> QED BY <1>1, <1>2, StepsOf

\* The first state satisfies the invariant.
LEMMA InitHolds == Init => IInv
<1> SUFFICES ASSUME Init PROVE IInv
    OBVIOUS
<1>1. FilesType(file)
    BY StepsOf DEF Init, FilesType
<1>2. InUseType(inUse)
    BY StepsOf, PartsAreUrls DEF Init, InUseType, Nothing
<1>3. TypeOK
    <2>1. 0 \in 0..4 /\ 0 \in Nat /\ 1 \in Nat
        OBVIOUS
    <2> QED BY <1>1, <1>2, <2>1
            DEF Init, TypeOK, FilesType, InUseType, Reading
<1>4. FetchedFirst /\ UpdateInUse /\ UpdateOnDisk /\ SettledOnDisk /\ ReadFromDisk
    BY DEF Init, FetchedFirst, UpdateInUse, UpdateOnDisk, SettledOnDisk,
           ReadFromDisk, Reading, Updating, AfterPids, AfterSettings
<1> QED BY <1>3, <1>4 DEF IInv

\* Every step keeps the types, and that the URLs are fetched first.
LEMMA TypeStep ==
    TypeOK /\ FetchedFirst /\ [Next]_vars => TypeOK' /\ FetchedFirst'
<1> SUFFICES ASSUME TypeOK, FetchedFirst, [Next]_vars
             PROVE  TypeOK' /\ FetchedFirst'
    OBVIOUS
<1> DEFINE Rest == /\ expired \in {"yes", "no"} /\ cloud \in Configs
                   /\ pc \in Reading \cup Saving \cup
                             {"fetch", "report", "get pids", "get settings",
                              "get dbc", "running", "stopped"}
                   /\ local \in Configs \cup {None}
                   /\ fetched \in Configs \cup {None}
                   /\ clean \in {"yes", "no"}
                   /\ settled \in Configs \cup {None}
                   /\ deleting \in 0..4
                   /\ boots \in Nat /\ changes \in Nat /\ deletes \in Nat
                   /\ FetchedFirst
<1>1. FilesType(file) /\ InUseType(inUse) /\ Rest
    BY DEF TypeOK, FilesType, InUseType
<1>2. FilesType(file)' /\ InUseType(inUse)' /\ Rest' => TypeOK' /\ FetchedFirst'
    BY DEF TypeOK, FilesType, InUseType
<1>3. file' = file => FilesType(file)'
    BY <1>1 DEF FilesType
<1>4. inUse' = inUse => InUseType(inUse)'
    BY <1>1 DEF InUseType
<1>22. /\ boots + 1 \in Nat /\ changes + 1 \in Nat /\ deletes + 1 \in Nat
       /\ 0 \in 0..4 /\ 1 \in 0..4
       /\ deleting > 0 => deleting \in 1..4
                            /\ (deleting # 4 => deleting + 1 \in 0..4)
    <2>1. /\ boots \in Nat /\ changes \in Nat /\ deletes \in Nat
          /\ deleting \in 0..4
        BY DEF TypeOK
    <2> HIDE DEF Rest
    <2> QED BY ONLY <2>1
<1> USE StepsOf, PartsAreUrls
        DEF FetchedFirst, Reading, Saving, Stays, bounds
<1>5. CASE ReadsURLs
    <2>1. local' \in Configs \cup {None}
        BY <1>1, <1>5 DEF ReadsURLs, ReadTemplateURLs, FilesType
    <2>2. Rest'
        BY <1>1, <1>5, <2>1 DEF ReadsURLs
    <2> QED BY <1>2, <1>3, <1>4, <1>5, <2>2 DEF ReadsURLs
<1>6. ASSUME NEW p \in Parts, NEW from, NEW to, ReadsPart(p, from, to),
             \/ from = "read pids" /\ to = "read settings"
             \/ from = "read settings" /\ to = "read dbc"
             \/ from = "read dbc" /\ to = "fetch"
      PROVE  TypeOK' /\ FetchedFirst'
    <2>1. inUse' = [inUse EXCEPT ![p] = ReadPart(p)]
        BY <1>6 DEF ReadsPart
    <2>2. ReadPart(p) \in Urls \cup {None, Torn} /\ (ReadPart(p) = Torn => p = "dbc")
        BY <1>1 DEF ReadPart, FilesType
    <2>3. InUseType(inUse')
        BY <1>1, <2>1, <2>2, UseChanges
    <2>4. Rest'
        BY <1>1, <1>6 DEF ReadsPart
    <2> QED BY <1>2, <1>3, <1>6, <2>3, <2>4 DEF ReadsPart
<1>7. CASE FetchesURLs
    <2>1. Rest'
        BY <1>1, <1>7 DEF FetchesURLs
    <2> QED BY <1>2, <1>3, <1>4, <1>7, <2>1 DEF FetchesURLs
<1>8. CASE CannotFetchURLs
    <2>1. Rest'
        BY <1>1, <1>8 DEF CannotFetchURLs
    <2> QED BY <1>2, <1>3, <1>4, <1>8, <2>1 DEF CannotFetchURLs
<1>9. CASE Reports
    <2>1. Rest'
        BY <1>1, <1>9 DEF Reports
    <2> QED BY <1>2, <1>3, <1>4, <1>9, <2>1 DEF Reports
<1>10. ASSUME NEW p \in Parts, Downloads(p) PROVE TypeOK' /\ FetchedFirst'
    <2>1. fetched \in Configs
        BY <1>1, <1>10 DEF Downloads
    <2>2. InUseType(inUse')
        BY <1>1, <1>10, <2>1, UseChanges DEF Downloads
    <2>3. Rest'
        BY <1>1, <1>10 DEF Downloads
    <2> QED BY <1>2, <1>3, <1>10, <2>2, <2>3 DEF Downloads
<1>11. ASSUME NEW p \in Parts, CannotDownload(p) PROVE TypeOK' /\ FetchedFirst'
    <2>1. InUseType(inUse')
        BY <1>1, <1>4, <1>11, UseChanges DEF CannotDownload
    <2>2. Rest'
        BY <1>1, <1>11 DEF CannotDownload
    <2> QED BY <1>2, <1>3, <1>11, <2>1, <2>2 DEF CannotDownload
<1>12. ASSUME NEW p \in Parts, SavesPart(p) PROVE TypeOK' /\ FetchedFirst'
    <2>1. inUse[p] \in Urls \cup {None, Torn}
        BY <1>1 DEF InUseType
    <2>2. FilesType(file')
        BY <1>1, <1>12, <2>1, FileChanges DEF SavesPart
    <2>3. Rest'
        BY <1>1, <1>12 DEF SavesPart, Settles
    <2> QED BY <1>2, <1>4, <1>12, <2>2, <2>3 DEF SavesPart
<1>13. CASE SkipsDBC
    <2>1. Rest'
        BY <1>1, <1>13 DEF SkipsDBC, Settles
    <2> QED BY <1>2, <1>3, <1>4, <1>13, <2>1 DEF SkipsDBC
<1>14. CASE SavesURLs
    <2>1. fetched \in Configs
        BY <1>1, <1>14 DEF SavesURLs
    <2>2. FilesType(file')
        BY <1>1, <1>14, <2>1, FileChanges DEF SavesURLs
    <2>3. Rest'
        BY <1>1, <1>14 DEF SavesURLs
    <2> QED BY <1>2, <1>4, <1>14, <2>2, <2>3 DEF SavesURLs
<1>15. ASSUME NEW f \in Files, CannotSave(f) PROVE TypeOK' /\ FetchedFirst'
    <2>1. FilesType([file EXCEPT ![f] = Torn])
        BY <1>1, FileChanges
    <2>3. FilesType(file')
        BY <1>1, <1>15, <2>1 DEF CannotSave
    <2>2. Rest'
        BY <1>1, <1>15 DEF CannotSave
    <2> QED BY <1>2, <1>4, <1>15, <2>2, <2>3 DEF CannotSave
<1>16. CASE Reboot
    <2>1. FilesType(file')
        <3>1. \A f \in Files : FilesType([file EXCEPT ![f] = Torn])
            BY <1>1, FileChanges
        <3> QED BY <1>1, <1>16, <3>1 DEF Reboot
    <2>2. InUseType(inUse')
        BY <1>16 DEF Reboot, Nothing, InUseType
    <2>3. Rest'
        BY <1>1, <1>16, <1>22 DEF Reboot
    <2> QED BY <1>2, <2>1, <2>2, <2>3
<1>17. CASE StartsDeleting
    <2>1. Rest'
        BY <1>1, <1>17, <1>22 DEF StartsDeleting
    <2> QED BY <1>2, <1>3, <1>4, <1>17, <2>1 DEF StartsDeleting
<1>18. CASE Deletes
    <2>1. deleting \in 1..4 /\ DeleteOrder[deleting] \in Files
        <3>1. deleting \in 1..4
            BY <1>18, <1>22 DEF Deletes
        <3> QED BY <3>1, OrderOfDeletion
    <2>2. FilesType(file')
        BY <1>1, <1>18, <2>1, FileChanges DEF Deletes
    <2>3. Rest'
        BY <1>1, <1>18, <1>22, <2>1 DEF Deletes
    <2> QED BY <1>2, <1>4, <1>18, <2>2, <2>3 DEF Deletes
<1>19. CASE Expires
    <2>1. Rest'
        BY <1>1, <1>19 DEF Expires
    <2> QED BY <1>2, <1>3, <1>4, <1>19, <2>1 DEF Expires
<1>20. CASE CloudChanges
    <2>1. Rest'
        BY <1>1, <1>20, <1>22 DEF CloudChanges
    <2> QED BY <1>2, <1>3, <1>4, <1>20, <2>1 DEF CloudChanges
<1>21. CASE UNCHANGED vars
    BY <1>1, <1>2, <1>3, <1>4, <1>21 DEF vars
<1> QED BY <1>5, <1>6, <1>7, <1>8, <1>9, <1>10, <1>11, <1>12, <1>13, <1>14,
           <1>15, <1>16, <1>17, <1>18, <1>19, <1>20, <1>21 DEF Next, Reads

\* A file, and a part in use, that a step does not write stays.
LEMMA Overwriting ==
    ASSUME TypeOK
    PROVE  /\ \A f, g \in Files : \A content :
                  [file EXCEPT ![f] = content][g] = IF g = f THEN content ELSE file[g]
           /\ \A p, q \in Parts : \A content :
                  [inUse EXCEPT ![p] = content][q] = IF q = p THEN content ELSE inUse[q]
<1>1. DOMAIN file = Files /\ DOMAIN inUse = Parts
    BY DEF TypeOK
<1> QED BY <1>1

\* What a clean update settles, when its last step leaves all of it on disk.
LEMMA SettlesAll ==
    ASSUME IInv, pc \in Updating, Settles(clean), fetched' = fetched,
           pc' \notin Updating, clean = "yes" /\ pc' = "running" =>
               /\ file'["urls"] = fetched
               /\ \A p \in Parts : fetched[p] # NoUrl => file'[p] = fetched[p]
    PROVE  SettledOnDisk' /\ ReadFromDisk'
<1>1. settled = None
    BY DEF IInv, SettledOnDisk
<1>2. settled' = None \/ (settled' = fetched /\ clean = "yes" /\ pc' = "running")
    BY <1>1 DEF Settles
<1>3. fetched # None
    BY DEF IInv, FetchedFirst, Updating, AfterPids, Reading
<1> QED BY <1>2, <1>3 DEF SettledOnDisk, ReadFromDisk

\* Every step keeps what an update has put in use and on disk, and what was
\* settled.
LEMMA DataStep ==
    IInv /\ [Next]_vars =>
        UpdateInUse' /\ UpdateOnDisk' /\ SettledOnDisk' /\ ReadFromDisk'
<1> SUFFICES ASSUME IInv, [Next]_vars
             PROVE  UpdateInUse' /\ UpdateOnDisk' /\ SettledOnDisk' /\ ReadFromDisk'
    OBVIOUS
<1> DEFINE Goal == UpdateInUse' /\ UpdateOnDisk' /\ SettledOnDisk' /\ ReadFromDisk'
<1>0. /\ UpdateInUse /\ UpdateOnDisk /\ SettledOnDisk /\ ReadFromDisk
      /\ FetchedFirst /\ TypeOK
    BY DEF IInv
<1>1. /\ \A f, g \in Files : \A content :
              [file EXCEPT ![f] = content][g] = IF g = f THEN content ELSE file[g]
      /\ \A p, q \in Parts : \A content :
              [inUse EXCEPT ![p] = content][q] = IF q = p THEN content ELSE inUse[q]
    BY <1>0, Overwriting
<1> USE DEF Updating, AfterPids, AfterSettings, Stays, bounds
<1>2. CASE ReadsURLs
    <2>1. UpdateInUse' /\ UpdateOnDisk' /\ SettledOnDisk'
        BY <1>0, <1>2 DEF ReadsURLs, UpdateInUse, UpdateOnDisk, SettledOnDisk
    <2>2. settled # None => local' = None \/ local' = settled
        BY <1>0, <1>2 DEF ReadsURLs, ReadTemplateURLs, SettledOnDisk
    <2>3. ReadFromDisk'
        BY <1>2, <2>2 DEF ReadsURLs, ReadFromDisk
    <2> QED BY <2>1, <2>3
<1>3. CASE ReadsPart("pids", "read pids", "read settings")
    <2>1. UpdateInUse' /\ UpdateOnDisk' /\ SettledOnDisk'
        BY <1>0, <1>3 DEF ReadsPart, UpdateInUse, UpdateOnDisk, SettledOnDisk
    <2>5. inUse' = [inUse EXCEPT !["pids"] = ReadPart("pids")] /\ file' = file
        BY <1>3 DEF ReadsPart
    <2>6. \A p \in Parts : ReadPart(p)' = ReadPart(p)
        BY <2>5 DEF ReadPart
    <2>7. \A p \in Parts : inUse'[p] = IF p = "pids" THEN ReadPart("pids") ELSE inUse[p]
        BY ONLY <1>1, <2>5, StepsOf
    <2>2. inUse'["pids"] = ReadPart("pids") /\ ReadPart("pids")' = ReadPart("pids")
        BY <2>6, <2>7, StepsOf
    <2>3. ReadFromDisk'
        BY <1>0, <1>3, <2>2 DEF ReadsPart, ReadFromDisk
    <2> QED BY <2>1, <2>3
<1>4. CASE ReadsPart("settings", "read settings", "read dbc")
    <2>1. UpdateInUse' /\ UpdateOnDisk' /\ SettledOnDisk'
        BY <1>0, <1>4 DEF ReadsPart, UpdateInUse, UpdateOnDisk, SettledOnDisk
    <2>5. inUse' = [inUse EXCEPT !["settings"] = ReadPart("settings")] /\ file' = file
        BY <1>4 DEF ReadsPart
    <2>6. \A p \in Parts : ReadPart(p)' = ReadPart(p)
        BY <2>5 DEF ReadPart
    <2>7. \A p \in Parts : inUse'[p] = IF p = "settings" THEN ReadPart("settings") ELSE inUse[p]
        BY ONLY <1>1, <2>5, StepsOf
    <2>2. /\ inUse'["settings"] = ReadPart("settings") /\ inUse'["pids"] = inUse["pids"]
          /\ ReadPart("settings")' = ReadPart("settings")
          /\ ReadPart("pids")' = ReadPart("pids")
        BY <2>6, <2>7, StepsOf
    <2>3. ReadFromDisk'
        BY <1>0, <1>4, <2>2 DEF ReadsPart, ReadFromDisk
    <2> QED BY <2>1, <2>3
<1>5. CASE ReadsPart("dbc", "read dbc", "fetch")
    <2>1. UpdateInUse' /\ UpdateOnDisk' /\ SettledOnDisk'
        BY <1>0, <1>5 DEF ReadsPart, UpdateInUse, UpdateOnDisk, SettledOnDisk
    <2>5. inUse' = [inUse EXCEPT !["dbc"] = ReadPart("dbc")] /\ file' = file
        BY <1>5 DEF ReadsPart
    <2>6. \A p \in Parts : ReadPart(p)' = ReadPart(p)
        BY <2>5 DEF ReadPart
    <2>7. \A p \in Parts : inUse'[p] = IF p = "dbc" THEN ReadPart("dbc") ELSE inUse[p]
        BY ONLY <1>1, <2>5, StepsOf
    <2>2. /\ inUse'["dbc"] = ReadPart("dbc") /\ inUse'["pids"] = inUse["pids"]
          /\ inUse'["settings"] = inUse["settings"]
          /\ \A p \in Parts : ReadPart(p)' = ReadPart(p)
        BY <2>6, <2>7, StepsOf
    <2>3. settled # None /\ fetched = None => \A p \in Parts : inUse'[p] = ReadPart(p)'
        BY <1>0, <1>5, <2>2, StepsOf DEF ReadsPart, ReadFromDisk
    <2>4. ReadFromDisk'
        BY <1>0, <1>5, <2>3 DEF ReadsPart, ReadFromDisk
    <2> QED BY <2>1, <2>4
<1>6. CASE FetchesURLs
    <2>1. cloud # None
        BY <1>0, PartsAreUrls DEF TypeOK
    <2> QED BY <1>0, <1>6, <2>1
            DEF FetchesURLs, Unchanged, UpdateInUse, UpdateOnDisk,
                SettledOnDisk, ReadFromDisk
<1>7. CASE CannotFetchURLs
    <2>1. \A p \in Parts : ReadPart(p)' = ReadPart(p)
        BY <1>7 DEF CannotFetchURLs, ReadPart
    <2> QED BY <1>0, <1>7, <2>1
            DEF CannotFetchURLs, UpdateInUse, UpdateOnDisk, SettledOnDisk,
                ReadFromDisk
<1>8. CASE Reports
    BY <1>0, <1>8 DEF Reports, UpdateInUse, UpdateOnDisk, SettledOnDisk,
                      ReadFromDisk
<1>9. ASSUME NEW p \in Parts, Downloads(p) PROVE Goal
    <2>1. settled' = None
        BY <1>0, <1>9, StepsOf DEF Downloads, SettledOnDisk
    <2>2. SettledOnDisk' /\ ReadFromDisk'
        BY <2>1 DEF SettledOnDisk, ReadFromDisk
    <2>3. UpdateOnDisk'
        BY <1>0, <1>9, StepsOf DEF Downloads, UpdateOnDisk
    <2>4. \A q \in Parts : inUse'[q] = IF q = p THEN fetched[p] ELSE inUse[q]
        BY <1>1, <1>9 DEF Downloads
    <2>5. UpdateInUse'
        BY <1>0, <1>9, <2>4, StepsOf DEF Downloads, UpdateInUse
    <2> QED BY <2>2, <2>3, <2>5
<1>10. ASSUME NEW p \in Parts, CannotDownload(p) PROVE Goal
    <2>1. settled' = None /\ clean' = "no"
        BY <1>0, <1>10, StepsOf DEF CannotDownload, SettledOnDisk
    <2> QED BY <2>1 DEF UpdateInUse, UpdateOnDisk, SettledOnDisk, ReadFromDisk
<1>11. ASSUME NEW p \in Parts, SavesPart(p) PROVE Goal
    <2>1. \A f \in Files : file'[f] = IF f = p THEN inUse[p] ELSE file[f]
        <3>1. file' = [file EXCEPT ![p] = inUse[p]] /\ p \in Files
            BY <1>11, StepsOf DEF SavesPart
        <3> QED BY ONLY <1>1, <3>1
    <2>2. UpdateOnDisk'
        BY <1>0, <1>11, <2>1, StepsOf DEF SavesPart, UpdateInUse, UpdateOnDisk
    <2>3. UpdateInUse'
        BY <1>0, <1>11, StepsOf DEF SavesPart, UpdateInUse, Uses
    <2>4. CASE p = "dbc"
        <3>1. pc = "save dbc" /\ pc' = "running" /\ fetched' = fetched /\ Settles(clean)
            BY <1>11, <2>4, StepsOf DEF SavesPart
        <3>2. clean = "yes" =>
                  /\ file'["urls"] = fetched
                  /\ \A q \in Parts : fetched[q] # NoUrl => file'[q] = fetched[q]
            BY <1>0, <2>1, <2>4, <3>1, StepsOf DEF UpdateInUse, UpdateOnDisk
        <3> QED BY <2>2, <2>3, <3>1, <3>2, SettlesAll
    <2>5. CASE p # "dbc"
        <3>1. settled' = None
            BY <1>0, <1>11, <2>5, StepsOf DEF SavesPart, Settles, SettledOnDisk
        <3> QED BY <2>2, <2>3, <3>1 DEF SettledOnDisk, ReadFromDisk
    <2> QED BY <2>4, <2>5
<1>12. CASE SkipsDBC
    <2>1. UpdateOnDisk'
        BY <1>12 DEF SkipsDBC, UpdateOnDisk
    <2>2. UpdateInUse'
        BY <1>0, <1>12, StepsOf DEF SkipsDBC, UpdateInUse, Uses
    <2>3. clean = "yes" =>
              /\ file'["urls"] = fetched
              /\ \A q \in Parts : fetched[q] # NoUrl => file'[q] = fetched[q]
        BY <1>0, <1>12, StepsOf DEF SkipsDBC, UpdateOnDisk
    <2>4. pc = "get dbc" /\ pc' = "running" /\ fetched' = fetched /\ Settles(clean)
        BY <1>12 DEF SkipsDBC
    <2> QED BY <2>1, <2>2, <2>3, <2>4, SettlesAll
<1>13. CASE SavesURLs
    <2>1. settled' = None /\ file'["urls"] = fetched /\ pc' = "report"
          /\ fetched' = fetched
        BY <1>1, <1>13, StepsOf DEF SavesURLs
    <2> QED BY <2>1 DEF UpdateInUse, UpdateOnDisk, SettledOnDisk, ReadFromDisk
<1>14. ASSUME NEW f \in Files, CannotSave(f) PROVE Goal
    BY <1>14 DEF CannotSave, UpdateInUse, UpdateOnDisk, SettledOnDisk, ReadFromDisk
<1>15. CASE Reboot
    <2>1. /\ pc' = "read urls" /\ fetched' = None /\ local' = None
          /\ settled' = None \/ (settled' = settled /\ file' = file)
        BY <1>15 DEF Reboot
    <2> QED BY <1>0, <2>1 DEF UpdateInUse, UpdateOnDisk, SettledOnDisk, ReadFromDisk
<1>16. CASE StartsDeleting
    BY <1>0, <1>16 DEF StartsDeleting, UpdateInUse, UpdateOnDisk, SettledOnDisk,
                       ReadFromDisk, Uses
<1>17. CASE Deletes
    BY <1>17 DEF Deletes, UpdateInUse, UpdateOnDisk, SettledOnDisk, ReadFromDisk
<1>18. CASE Expires
    BY <1>0, <1>18 DEF Expires, UpdateInUse, UpdateOnDisk, SettledOnDisk,
                       ReadFromDisk, Uses
<1>19. CASE CloudChanges
    BY <1>0, <1>19 DEF CloudChanges, UpdateInUse, UpdateOnDisk, SettledOnDisk,
                       ReadFromDisk, ReadPart, Uses
<1>20. CASE UNCHANGED vars
    BY <1>0, <1>20 DEF vars, UpdateInUse, UpdateOnDisk, SettledOnDisk,
                       ReadFromDisk, ReadPart, Uses
<1> QED BY <1>2, <1>3, <1>4, <1>5, <1>6, <1>7, <1>8, <1>9, <1>10, <1>11, <1>12,
           <1>13, <1>14, <1>15, <1>16, <1>17, <1>18, <1>19, <1>20 DEF Next, Reads

\* Every step of a boot and of the world around it preserves the invariant.
LEMMA StepHolds == IInv /\ [Next]_vars => IInv'
BY TypeStep, DataStep DEF IInv

LEMMA Invariant == Spec => []IInv
BY InitHolds, StepHolds, PTL DEF Spec

\* The files, the template in use and the step of GetTemplateSettings keep their
\* types; PIDs or settings whose write was cut off are never what runs.
THEOREM TypeCorrect == Spec => []TypeOK
<1>1. IInv => TypeOK
    BY DEF IInv
<1> QED BY <1>1, Invariant, PTL

\* An undisturbed boot that finds another template in the cloud than on disk
\* ends with every part of it in use, for any templates and whatever earlier
\* boots left behind (GetTemplateSettings).
THEOREM LatestHolds == Spec => []UpdateRunsLatest
<1>1. IInv => UpdateRunsLatest
    BY DEF IInv, UpdateInUse, UpdateRunsLatest, Running
<1> QED BY <1>1, Invariant, PTL

\* What a clean update left on disk is what a later boot without a connection
\* runs, after any number of boots that ended half way (GetTemplateSettings,
\* settingsStore).
THEOREM SettledHolds == Spec => []SettledSurvives
<1>1. IInv => SettledSurvives
    <2> SUFFICES ASSUME IInv, Running, fetched = None, settled # None,
                        NEW p \in Parts, settled[p] # NoUrl
                 PROVE  inUse[p] = settled[p]
        BY DEF SettledSurvives, Uses
    <2>1. inUse[p] = ReadPart(p)
        BY DEF IInv, FetchedFirst, ReadFromDisk, Running
    <2>2. file[p] = settled[p]
        BY DEF IInv, SettledOnDisk
    <2>3. settled[p] # Torn
        BY PartsAreUrls DEF IInv, TypeOK
    <2> QED BY <2>1, <2>2, <2>3 DEF ReadPart
<1> QED BY <1>1, Invariant, PTL

-----------------------------------------------------------------------------
\* Induction over natural numbers.

\* The order of the natural numbers has no infinite descent ...
LEMMA LessIsWellFounded ==
    \E R : /\ IsWellFoundedOn(R, Nat)
           /\ \A x, y \in Nat : x < y => <<x, y>> \in R
<1>1. IsWellFoundedOn(OpToRel(<, Nat), Nat)
    BY NatLessThanWellFounded
<1>2. \A x, y \in Nat : x < y => <<x, y>> \in OpToRel(<, Nat)
    BY DEF OpToRel
<1> QED BY <1>1, <1>2

\* ... so a set of them has a least element,
LEMMA LeastExists ==
    ASSUME NEW S, S \subseteq Nat, S # {}
    PROVE  \E i \in S : \A j \in S : i <= j
<1>1. PICK R : /\ IsWellFoundedOn(R, Nat)
               /\ \A x, y \in Nat : x < y => <<x, y>> \in R
    BY LessIsWellFounded
<1>2. \E i \in S : \A j \in S : ~ (<<j, i>> \in R)
    <2>1. IsWellFoundedOn(R, Nat)
        BY <1>1
    <2> HIDE <1>1
    <2> QED BY <2>1, WFMin, Zenon
<1>3. PICK i \in S : \A j \in S : ~ (<<j, i>> \in R)
    BY <1>2
<1>4. ASSUME NEW j \in S PROVE i <= j
    <2>1. i \in Nat /\ j \in Nat
        OBVIOUS
    <2>2. ~ (j < i)
        BY <1>1, <1>3, <2>1
    <2> QED BY <2>1, <2>2
<1> QED BY <1>4

\* ... and what holds at 0 and goes from each number to the next holds up to n.
LEMMA SetInduction ==
    ASSUME NEW n \in Nat, NEW S, 0 \in S, \A k \in 1 .. n : k - 1 \in S => k \in S
    PROVE  0 .. n \subseteq S
<1> DEFINE Rest == (0 .. n) \ S
<1> SUFFICES ASSUME Rest # {} PROVE FALSE
    OBVIOUS
<1>1. Rest \subseteq Nat
    OBVIOUS
<1>2. PICK k \in Rest : \A j \in Rest : k <= j
    BY <1>1, LeastExists
<1>3. k \in 1 .. n /\ k - 1 \in 0 .. n /\ ~ (k <= k - 1)
    OBVIOUS
<1>4. k - 1 \in S
    BY <1>2, <1>3
<1> QED BY <1>3, <1>4

\* Min and Least choose it.
LEMMA MinIsLeast ==
    ASSUME NEW S, S \subseteq Nat, S # {}
    PROVE  /\ Min(S) \in S /\ \A j \in S : Min(S) <= j
           /\ Least(S) \in S /\ \A j \in S : Least(S) <= j
BY LeastExists DEF Min, Least

-----------------------------------------------------------------------------
\* A number of bytes, or of digits, is the number of all but the last times the
\* base, and the last.
LEMMA BigEndianSteps ==
    ASSUME NEW digits, Len(digits) \in Nat, \A k \in 1 .. Len(digits) : digits[k] \in Int,
           NEW base \in {16, 256}
    PROVE  \E value \in [0 .. Len(digits) -> Int] :
               /\ value[0] = 0
               /\ \A k \in 1 .. Len(digits) : value[k] = value[k - 1] * base + digits[k]
               /\ BigEndian(digits, base) = value[Len(digits)]
<1> DEFINE Follows(f, k) ==
               f = [j \in 0 .. k |-> IF j = 0 THEN 0 ELSE f[j - 1] * base + digits[j]]
           Reached == {k \in 0 .. Len(digits) : \E f : Follows(f, k)}
<1>1. 0 \in Reached
    <2>1. Follows([j \in 0 .. 0 |-> 0], 0)
        OBVIOUS
    <2> HIDE DEF Follows
    <2> QED BY <2>1
<1>2. ASSUME NEW k \in 1 .. Len(digits), k - 1 \in Reached PROVE k \in Reached
    <2>1. PICK f : Follows(f, k - 1)
        BY <1>2
    <2> DEFINE g == [j \in 0 .. k |-> IF j = k THEN f[k - 1] * base + digits[k] ELSE f[j]]
    <2>2. Follows(g, k)
        <3>1. \A j \in 0 .. k : g[j] = IF j = 0 THEN 0 ELSE g[j - 1] * base + digits[j]
            <4>1. CASE k = 1
                BY <2>1, <4>1
            <4> QED BY <2>1, <4>1
        <3> QED BY <3>1
    <2> HIDE DEF Follows, g
    <2> QED BY <2>2
<1> HIDE DEF Follows
<1>3. Len(digits) \in Reached
    <2>1. \A k \in 1 .. Len(digits) : k - 1 \in Reached => k \in Reached
        BY <1>2
    <2> HIDE DEF Reached
    <2>2. 0 .. Len(digits) \subseteq Reached
        BY <1>1, <2>1, SetInduction
    <2> QED BY <2>2
<1> DEFINE value == CHOOSE f : Follows(f, Len(digits))
<1>4. Follows(value, Len(digits))
    BY <1>3
<1>5. BigEndian(digits, base) = value[Len(digits)]
    BY DEF BigEndian, Follows
<1> HIDE DEF value
<1>6. /\ value[0] = 0
      /\ \A k \in 1 .. Len(digits) : value[k] = value[k - 1] * base + digits[k]
      /\ value = [j \in 0 .. Len(digits) |-> value[j]]
    <2>1. value = [j \in 0 .. Len(digits) |->
                      IF j = 0 THEN 0 ELSE value[j - 1] * base + digits[j]]
        BY <1>4 DEF Follows
    <2>2. \A j \in 0 .. Len(digits) :
              value[j] = IF j = 0 THEN 0 ELSE value[j - 1] * base + digits[j]
        BY <2>1
    <2>3. value = [j \in 0 .. Len(digits) |-> value[j]]
        BY <2>1, <2>2
    <2>4. 0 \in 0 .. Len(digits) /\ \A k \in 1 .. Len(digits) : k \in 0 .. Len(digits) /\ k # 0
        OBVIOUS
    <2>5. value[0] = 0
        BY ONLY <2>2, <2>4
    <2>6. \A k \in 1 .. Len(digits) : value[k] = value[k - 1] * base + digits[k]
        BY ONLY <2>2, <2>4
    <2> QED BY <2>3, <2>5, <2>6
<1>7. value \in [0 .. Len(digits) -> Int]
    <2> DEFINE Numbers == {k \in 0 .. Len(digits) : value[k] \in Int}
    <2>1. 0 \in Numbers
        BY <1>6
    <2>2. ASSUME NEW k \in 1 .. Len(digits), k - 1 \in Numbers PROVE k \in Numbers
        <3>1. value[k - 1] \in Int /\ digits[k] \in Int /\ value[k] = value[k - 1] * base + digits[k]
            BY <1>6, <2>2
        <3>2. CASE base = 16
            BY <3>1, <3>2
        <3>3. CASE base = 256
            BY <3>1, <3>3
        <3> QED BY <3>2, <3>3
    <2>3. 0 .. Len(digits) \subseteq Numbers
        <3> HIDE DEF Numbers
        <3> QED BY <2>1, <2>2, SetInduction
    <2> QED BY <1>6, <2>3
<1> QED BY <1>5, <1>6, <1>7

\* The number two bytes stand for.
LEMMA ValueOfPair ==
    ASSUME NEW pair, Len(pair) = 2, pair[1] \in Int, pair[2] \in Int
    PROVE  BigEndian(pair, 256) = pair[1] * 256 + pair[2]
<1>1. Len(pair) \in Nat /\ \A k \in 1 .. Len(pair) : pair[k] \in Int
    <2>1. \A k \in 1 .. 2 : k = 1 \/ k = 2
        OBVIOUS
    <2> QED BY <2>1
<1>2. PICK value \in [0 .. 2 -> Int] :
          /\ value[0] = 0
          /\ \A k \in 1 .. 2 : value[k] = value[k - 1] * 256 + pair[k]
          /\ BigEndian(pair, 256) = value[2]
    <2>1. \E value \in [0 .. Len(pair) -> Int] :
              /\ value[0] = 0
              /\ \A k \in 1 .. Len(pair) : value[k] = value[k - 1] * 256 + pair[k]
              /\ BigEndian(pair, 256) = value[Len(pair)]
        BY <1>1, BigEndianSteps, 256 \in {16, 256}
    <2> QED BY <2>1
<1>3. value[1] = value[0] * 256 + pair[1] /\ value[2] = value[1] * 256 + pair[2]
    <2>1. 1 \in 1 .. 2 /\ 2 \in 1 .. 2 /\ 1 - 1 = 0 /\ 2 - 1 = 1
        OBVIOUS
    <2> QED BY ONLY <1>2, <2>1
<1> QED BY <1>2, <1>3

\* The digits of bytes have the value of the bytes.
LEMMA HexDigits ==
    ASSUME NEW bytes \in Seq(Int)
    PROVE  /\ Len(Hex(bytes)) = 2 * Len(bytes) /\ Hex(bytes) \in Seq(Int)
           /\ \A k \in 1 .. Len(bytes) : /\ Hex(bytes)[2 * k - 1] = bytes[k] \div 16
                                         /\ Hex(bytes)[2 * k] = bytes[k] % 16
<1> DEFINE digit(k) == IF k % 2 = 1 THEN bytes[(k + 1) \div 2] \div 16
                                    ELSE bytes[k \div 2] % 16
<1>1. Hex(bytes) = [k \in 1 .. 2 * Len(bytes) |-> digit(k)]
    BY DEF Hex
<1>2. ASSUME NEW k \in 1 .. 2 * Len(bytes) PROVE digit(k) \in Int
    <2>1. IF k % 2 = 1 THEN (k + 1) \div 2 \in 1 .. Len(bytes)
                       ELSE k \div 2 \in 1 .. Len(bytes)
        OBVIOUS
    <2>2. \A b \in Int : b \div 16 \in Int /\ b % 16 \in Int
        OBVIOUS
    <2>3. \A i \in 1 .. Len(bytes) : bytes[i] \in Int
        OBVIOUS
    <2> QED BY ONLY <2>1, <2>2, <2>3
<1>3. 2 * Len(bytes) \in Nat
    OBVIOUS
<1>4. Len(Hex(bytes)) = 2 * Len(bytes) /\ Hex(bytes) \in Seq(Int)
    <2> HIDE DEF digit
    <2> QED BY <1>1, <1>2, <1>3
<1>5. ASSUME NEW k \in 1 .. Len(bytes)
      PROVE  Hex(bytes)[2 * k - 1] = bytes[k] \div 16 /\ Hex(bytes)[2 * k] = bytes[k] % 16
    <2>1. /\ 2 * k - 1 \in 1 .. 2 * Len(bytes) /\ 2 * k \in 1 .. 2 * Len(bytes)
          /\ (2 * k - 1) % 2 = 1 /\ (2 * k) % 2 = 0
          /\ (2 * k - 1 + 1) \div 2 = k /\ (2 * k) \div 2 = k
        OBVIOUS
    <2>2. digit(2 * k - 1) = bytes[k] \div 16 /\ digit(2 * k) = bytes[k] % 16
        BY ONLY <2>1
    <2> HIDE DEF digit
    <2> QED BY <1>1, <2>1, <2>2
<1> QED BY <1>4, <1>5

\* The digits of bytes stand for the same number as the bytes.
LEMMA ValueOfHex ==
    ASSUME NEW bytes \in Seq(Int)
    PROVE  BigEndian(Hex(bytes), 16) = BigEndian(bytes, 256)
<1> DEFINE hex == Hex(bytes)
<1>1. /\ Len(hex) = 2 * Len(bytes) /\ \A k \in 1 .. Len(hex) : hex[k] \in Int
      /\ \A k \in 1 .. Len(bytes) : hex[2 * k - 1] = bytes[k] \div 16 /\ hex[2 * k] = bytes[k] % 16
      /\ Len(hex) \in Nat /\ Len(bytes) \in Nat
    <2>1. hex \in Seq(Int)
        BY HexDigits
    <2>2. (\A k \in 1 .. Len(hex) : hex[k] \in Int) /\ Len(hex) \in Nat
        <3> HIDE DEF hex
        <3> QED BY <2>1
    <2> QED BY <2>2, HexDigits
<1> HIDE DEF hex
<1>2. \A k \in 1 .. Len(bytes) : bytes[k] \in Int
    OBVIOUS
<1>3. PICK high \in [0 .. Len(hex) -> Int] :
          /\ high[0] = 0
          /\ \A k \in 1 .. Len(hex) : high[k] = high[k - 1] * 16 + hex[k]
          /\ BigEndian(hex, 16) = high[Len(hex)]
    BY <1>1, BigEndianSteps, 16 \in {16, 256}
<1>4. PICK value \in [0 .. Len(bytes) -> Int] :
          /\ value[0] = 0
          /\ \A k \in 1 .. Len(bytes) : value[k] = value[k - 1] * 256 + bytes[k]
          /\ BigEndian(bytes, 256) = value[Len(bytes)]
    BY <1>1, <1>2, BigEndianSteps, 256 \in {16, 256}
<1> DEFINE Same == {k \in 0 .. Len(bytes) : high[2 * k] = value[k]}
<1>5. 0 \in Same
    BY <1>3, <1>4
<1>6. ASSUME NEW k \in 1 .. Len(bytes), k - 1 \in Same PROVE k \in Same
    <2>1. /\ 2 * k - 1 \in 1 .. Len(hex) /\ 2 * k \in 1 .. Len(hex)
          /\ 2 * k - 1 - 1 = 2 * (k - 1) /\ 2 * k - 1 - 1 \in 0 .. Len(hex)
          /\ k - 1 \in 0 .. Len(bytes)
        BY <1>1
    <2>2. high[2 * k - 1] = high[2 * (k - 1)] * 16 + hex[2 * k - 1]
        BY ONLY <1>3, <2>1
    <2>3. high[2 * k] = high[2 * k - 1] * 16 + hex[2 * k]
        BY ONLY <1>3, <2>1
    <2>4. high[2 * (k - 1)] = value[k - 1] /\ value[k - 1] \in Int
        BY <1>6, <2>1
    <2>5. value[k] = value[k - 1] * 256 + bytes[k]
        BY <1>4
    <2>6. hex[2 * k - 1] = bytes[k] \div 16 /\ hex[2 * k] = bytes[k] % 16 /\ bytes[k] \in Int
        BY <1>1, <1>2
    <2>7. high[2 * k] = value[k]
        <3>1. \A v, b \in Int : (v * 16 + b \div 16) * 16 + (b % 16) = v * 256 + b
            OBVIOUS
        <3>2. high[2 * k] = (value[k - 1] * 16 + bytes[k] \div 16) * 16 + (bytes[k] % 16)
            BY ONLY <2>2, <2>3, <2>4, <2>6
        <3> QED BY ONLY <2>4, <2>5, <2>6, <3>1, <3>2
    <2> QED BY <2>7
<1>7. high[2 * Len(bytes)] = value[Len(bytes)]
    <2>1. 0 .. Len(bytes) \subseteq Same
        <3>1. \A k \in 1 .. Len(bytes) : k - 1 \in Same => k \in Same
            BY <1>6
        <3> HIDE DEF Same
        <3> QED BY <1>1, <1>5, <3>1, SetInduction
    <2> QED BY <2>1
<1> QED BY <1>1, <1>3, <1>4, <1>7 DEF hex

-----------------------------------------------------------------------------
\* The offset of the first occurrence.
LEMMA IndexIs ==
    ASSUME NEW s, NEW t, Len(s) \in Nat, Len(t) \in Nat,
           NEW i \in 0 .. Len(s) - Len(t), SubSeq(s, i + 1, i + Len(t)) = t,
           \A j \in 0 .. i - 1 : SubSeq(s, j + 1, j + Len(t)) # t
    PROVE  IndexOf(s, t) = i
<1> DEFINE at == {j \in 0 .. Len(s) - Len(t) : SubSeq(s, j + 1, j + Len(t)) = t}
<1>1. i \in at
    OBVIOUS
<1>3. ASSUME NEW j \in at PROVE i <= j
    <2>1. j \in Nat /\ SubSeq(s, j + 1, j + Len(t)) = t
        OBVIOUS
    <2>2. j \notin 0 .. i - 1
        BY <2>1
    <2> QED BY ONLY <2>1, <2>2, i \in Int
<1>2. \A j \in at : (\A k \in at : j <= k) => j = i
    <2>1. at \subseteq Int
        OBVIOUS
    <2> HIDE DEF at
    <2> QED BY <1>1, <1>3, <2>1
<1>4. IndexOf(s, t) = CHOOSE j \in at : \A k \in at : j <= k
    BY <1>1 DEF IndexOf
<1> HIDE DEF at
<1> QED BY <1>1, <1>2, <1>3, <1>4

\* -1 says that there is no occurrence at all.
LEMMA IndexNone ==
    ASSUME NEW s, NEW t, Len(s) \in Nat, Len(t) \in Nat
    PROVE  IndexOf(s, t) = -1 <=>
               \A j \in 0 .. Len(s) - Len(t) : SubSeq(s, j + 1, j + Len(t)) # t
<1> DEFINE at == {j \in 0 .. Len(s) - Len(t) : SubSeq(s, j + 1, j + Len(t)) = t}
<1>1. CASE at = {}
    BY <1>1 DEF IndexOf
<1>2. CASE at # {}
    <2>1. at \subseteq Nat
        OBVIOUS
    <2>2. PICK i \in at : \A j \in at : i <= j
        BY <1>2, <2>1, LeastExists
    <2>3. IndexOf(s, t) = CHOOSE j \in at : \A k \in at : j <= k
        BY <1>2 DEF IndexOf
    <2>4. IndexOf(s, t) \in at
        BY <2>2, <2>3
    <2>5. IndexOf(s, t) # -1
        BY <2>4
    <2>6. \E j \in 0 .. Len(s) - Len(t) : SubSeq(s, j + 1, j + Len(t)) = t
        BY <2>2
    <2> QED BY <2>5, <2>6
<1> QED BY <1>1, <1>2

\* A byte is found where it first is.
LEMMA ByteAt ==
    ASSUME NEW s \in Seq(Int), NEW b, NEW j \in 0 .. Len(s) - 1
    PROVE  SubSeq(s, j + 1, j + Len(<<b>>)) = <<b>> <=> s[j + 1] = b
<1>1. Len(<<b>>) = 1 /\ <<b>>[1] = b
    OBVIOUS
<1>2. j + 1 \in 1 .. Len(s) /\ j + 1 \in j + 1 .. Len(s) /\ j + 1 \in Int
    OBVIOUS
<1>3. SubSeq(s, j + 1, j + 1) = <<s[j + 1]>> \o SubSeq(s, j + 2, j + 1)
    BY <1>2, SubSeqRecursiveFirst
<1>4. SubSeq(s, j + 2, j + 1) = <<>>
    BY SubSeqEmpty
<1>5. SubSeq(s, j + 1, j + 1) = <<s[j + 1]>>
    <2>1. <<s[j + 1]>> \in Seq(Int)
        BY <1>2
    <2>2. <<s[j + 1]>> \o <<>> = <<s[j + 1]>>
        BY <2>1, ConcatEmptySeq
    <2> QED BY ONLY <1>3, <1>4, <2>2
<1> QED BY <1>1, <1>5

-----------------------------------------------------------------------------
\* Bytes, words and identifiers as numbers.
LEMMA BytesAre ==
    ASSUME NEW byte \in Bytes
    PROVE  byte \in Nat /\ byte <= 255
BY DEF Bytes

\* The bytes of a PID, and the value of them.
LEMMA PidBytes ==
    ASSUME NEW pid \in Words
    PROVE  /\ UintToHex(pid) \in Seq(Int)
           /\ Len(UintToHex(pid)) = IF pid > 255 THEN 2 ELSE 1
           /\ UintToHex(pid)[Len(UintToHex(pid))] = pid % 256
           /\ pid > 255 => UintToHex(pid)[1] = pid \div 256
           /\ pid <= 255 => pid % 256 = pid
           /\ pid = (pid \div 256) * 256 + (pid % 256)
<1>1. /\ pid <= 255 => pid % 256 = pid
      /\ pid = (pid \div 256) * 256 + (pid % 256)
      /\ pid \div 256 \in Int /\ pid % 256 \in Int
    BY DEF Words
<1>2. CASE pid > 255
    BY <1>1, <1>2 DEF UintToHex
<1>3. CASE ~ (pid > 255)
    <2>1. UintToHex(pid) = <<pid>> /\ pid \in Int /\ pid % 256 = pid
        BY <1>1, <1>3 DEF UintToHex, Words
    <2> QED BY <1>1, <1>3, <2>1
<1> QED BY <1>2, <1>3

\* Two sequences one after the other.
LEMMA Joined ==
    ASSUME NEW a \in Seq(Int), NEW b \in Seq(Int)
    PROVE  /\ a \o b \in Seq(Int) /\ Len(a \o b) = Len(a) + Len(b)
           /\ \A i \in 1 .. Len(a) : (a \o b)[i] = a[i]
           /\ \A i \in 1 .. Len(b) : (a \o b)[Len(a) + i] = b[i]
<1>1. /\ a \o b \in Seq(Int) /\ Len(a \o b) = Len(a) + Len(b)
      /\ \A i \in 1 .. Len(a) + Len(b) : (a \o b)[i] = IF i <= Len(a) THEN a[i] ELSE b[i - Len(a)]
    BY ConcatProperties
<1>2. Len(a) \in Nat /\ Len(b) \in Nat
    OBVIOUS
<1>3. ASSUME NEW i \in 1 .. Len(a) PROVE (a \o b)[i] = a[i]
    <2>1. i \in 1 .. Len(a) + Len(b) /\ i <= Len(a)
        BY <1>2
    <2> QED BY ONLY <1>1, <2>1
<1>4. ASSUME NEW i \in 1 .. Len(b) PROVE (a \o b)[Len(a) + i] = b[i]
    <2>1. /\ Len(a) + i \in 1 .. Len(a) + Len(b) /\ ~ (Len(a) + i <= Len(a))
          /\ Len(a) + i - Len(a) = i
        BY <1>2
    <2> QED BY ONLY <1>1, <2>1
<1> QED BY <1>1, <1>3, <1>4

\* What fills up a frame comes after its bytes.
LEMMA FilledBytes ==
    ASSUME NEW bytes \in Seq(Int), NEW pad \in Int
    PROVE  /\ Filled(bytes, pad) \in Seq(Int)
           /\ Len(Filled(bytes, pad)) >= Len(bytes)
           /\ Len(bytes) <= 8 => Len(Filled(bytes, pad)) <= 8
           /\ \A k \in 1 .. Len(bytes) : Filled(bytes, pad)[k] = bytes[k]
<1> DEFINE rest == [i \in 1 .. 8 - Len(bytes) |-> pad]
<1>1. CASE pad = -1
    BY <1>1 DEF Filled
<1>2. CASE pad # -1 /\ Len(bytes) < 8
    <2>1. rest \in Seq(Int) /\ Len(rest) = 8 - Len(bytes) /\ Len(bytes) \in Nat
        BY <1>2
    <2>2. Filled(bytes, pad) = bytes \o rest
        BY <1>2 DEF Filled
    <2> HIDE DEF rest
    <2>3. /\ bytes \o rest \in Seq(Int) /\ Len(bytes \o rest) = Len(bytes) + Len(rest)
          /\ \A i \in 1 .. Len(bytes) : (bytes \o rest)[i] = bytes[i]
        BY <2>1, Joined
    <2>4. Len(bytes \o rest) = 8
        BY ONLY <2>1, <2>3
    <2> QED BY <1>2, <2>1, <2>2, <2>3, <2>4
<1>3. CASE pad # -1 /\ ~ (Len(bytes) < 8)
    <2>1. rest = <<>>
        BY <1>3
    <2>2. Filled(bytes, pad) = bytes \o <<>>
        BY <1>3, <2>1 DEF Filled
    <2>3. bytes \o <<>> = bytes
        BY ConcatEmptySeq
    <2> QED BY <2>2, <2>3
<1> QED BY <1>1, <1>2, <1>3

\* The query of a request has its mode and the bytes of its PID.
LEMMA QueryBytes ==
    ASSUME NEW request, request.mode \in Bytes, request.pid \in Words,
           NEW sent, sent = SendCANQuery(request)
    PROVE  /\ sent[1] = Len(UintToHex(request.pid)) + 1
           /\ sent[2] = request.mode
           /\ PidOf(sent) = UintToHex(request.pid)
<1>1. PICK pid : pid = UintToHex(request.pid)
    OBVIOUS
<1>2. /\ pid \in Seq(Int) /\ Len(pid) \in Nat /\ Len(pid) >= 1
      /\ (IF request.pid > 255 THEN 3 ELSE 2) = Len(pid) + 1
    <2>1. pid \in Seq(Int) /\ Len(pid) = IF request.pid > 255 THEN 2 ELSE 1
        BY <1>1, PidBytes
    <2>2. CASE request.pid > 255
        BY <2>1, <2>2
    <2>3. CASE ~ (request.pid > 255)
        BY <2>1, <2>3
    <2> QED BY <2>2, <2>3
<1>3. PICK head : head = <<Len(pid) + 1, request.mode>>
    OBVIOUS
<1>4. head \in Seq(Int) /\ Len(head) = 2 /\ head[1] = Len(pid) + 1 /\ head[2] = request.mode
    <2>1. request.mode \in Int
        BY BytesAre
    <2>2. Len(pid) + 1 \in Int
        BY ONLY <1>2
    <2> QED BY <1>3, <2>1, <2>2
<1>5. PICK bytes : bytes = head \o pid
    OBVIOUS
<1>6. /\ bytes \in Seq(Int) /\ Len(bytes) = 2 + Len(pid)
      /\ bytes[1] = head[1] /\ bytes[2] = head[2]
      /\ \A i \in 1 .. Len(pid) : bytes[2 + i] = pid[i]
    <2>1. /\ bytes \in Seq(Int) /\ Len(bytes) = Len(head) + Len(pid)
          /\ \A i \in 1 .. Len(head) : bytes[i] = head[i]
          /\ \A i \in 1 .. Len(pid) : bytes[Len(head) + i] = pid[i]
        BY ONLY <1>2, <1>4, <1>5, Joined
    <2>2. 1 \in 1 .. Len(head) /\ 2 \in 1 .. Len(head) /\ Len(head) = 2
        BY <1>4
    <2> QED BY ONLY <2>1, <2>2
<1>7. sent = Filled(bytes, 0)
    BY <1>1, <1>2, <1>3, <1>5 DEF SendCANQuery
<1>8. /\ sent \in Seq(Int) /\ Len(sent) >= Len(bytes)
      /\ \A k \in 1 .. Len(bytes) : sent[k] = bytes[k]
    BY <1>6, <1>7, FilledBytes, 0 \in Int
<1>9. sent[1] = Len(pid) + 1 /\ sent[2] = request.mode
    <2>1. 1 \in 1 .. Len(bytes) /\ 2 \in 1 .. Len(bytes)
        BY <1>2, <1>6
    <2> QED BY <1>4, <1>6, <1>8, <2>1
<1>10. SubSeq(sent, 3, Len(pid) + 2) = pid
    <2>1. PICK part : part = SubSeq(sent, 3, Len(pid) + 2)
        OBVIOUS
    <2>2. \A i \in 3 .. Len(pid) + 2 : sent[i] \in Int
        <3>1. \A i \in 3 .. Len(pid) + 2 : i \in 1 .. Len(sent)
            BY <1>2, <1>6, <1>8
        <3> QED BY <1>8, <3>1
    <2>3. /\ part \in Seq(Int) /\ Len(part) = Len(pid)
          /\ \A i \in 1 .. Len(pid) : part[i] = sent[i + 2]
        <3>1. /\ part \in Seq(Int)
              /\ Len(part) = IF 3 <= Len(pid) + 2 THEN Len(pid) + 2 - 3 + 1 ELSE 0
              /\ \A i \in 1 .. Len(pid) + 2 - 3 + 1 : part[i] = sent[3 + i - 1]
            BY <1>2, <2>1, <2>2, SubSeqProperties
        <3>2. Len(pid) + 2 - 3 + 1 = Len(pid) /\ 3 <= Len(pid) + 2
              /\ \A i \in 1 .. Len(pid) : 3 + i - 1 = i + 2
            BY ONLY <1>2
        <3> QED BY <3>1, <3>2
    <2>4. ASSUME NEW i \in 1 .. Len(pid) PROVE sent[i + 2] = pid[i]
        <3>1. i + 2 = 2 + i /\ 2 + i \in 1 .. Len(bytes)
            BY <1>2, <1>6
        <3> QED BY <1>6, <1>8, <3>1
    <2>5. part = pid
        BY <1>2, <2>3, <2>4, SeqEqual
    <2> QED BY <2>1, <2>5
<1>11. PidOf(sent) = pid
    <2>1. sent[1] + 1 = Len(pid) + 2
        BY <1>2, <1>9
    <2> QED BY <1>10, <2>1 DEF PidOf
<1> QED BY <1>1, <1>9, <1>11

\* The data of an answer: after two bytes those of the PID, and then its own.
LEMMA AnswerBytes ==
    ASSUME NEW request, request.mode \in Bytes, request.pid \in Words,
           NEW d \in Seq(Int), NEW pad \in Int
    PROVE  LET pid  == UintToHex(request.pid)
               data == Filled(Positive(SendCANQuery(request), d), pad)
           IN  /\ data \in Seq(Int) /\ Len(data) >= 2 + Len(pid) + Len(d)
               /\ \A i \in 1 .. Len(pid) : data[2 + i] = pid[i]
               /\ \A i \in 1 .. Len(d) : data[2 + Len(pid) + i] = d[i]
<1>15. PICK pid : pid = UintToHex(request.pid)
    OBVIOUS
<1>14. PICK data : data = Filled(Positive(SendCANQuery(request), d), pad)
    OBVIOUS
<1>1. PICK sent : sent = SendCANQuery(request)
    OBVIOUS
<1>2. PICK head : head = <<sent[1] + Len(d), sent[2] + 64>>
    OBVIOUS
<1>3. pid \in Seq(Int) /\ Len(pid) \in Nat /\ Len(d) \in Nat
    BY <1>15, PidBytes
<1>4. head \in Seq(Int) /\ Len(head) = 2
    <2>1. sent[1] = Len(pid) + 1 /\ sent[2] = request.mode
        BY <1>1, <1>15, QueryBytes
    <2>2. request.mode \in Int
        BY BytesAre
    <2>3. sent[1] + Len(d) \in Int /\ sent[2] + 64 \in Int
        BY ONLY <1>3, <2>1, <2>2
    <2> QED BY <1>2, <2>3
<1>5. PICK first : first = head \o pid
    OBVIOUS
<1>6. PICK bytes : bytes = first \o d
    OBVIOUS
<1>7. data = Filled(bytes, pad)
    <2>1. PidOf(sent) = pid
        BY <1>1, <1>15, QueryBytes
    <2>2. Positive(sent, d) = bytes
        BY <1>2, <1>5, <1>6, <2>1 DEF Positive
    <2> QED BY <1>1, <1>14, <2>2
<1>8. /\ first \in Seq(Int) /\ Len(first) = 2 + Len(pid)
      /\ \A i \in 1 .. Len(pid) : first[2 + i] = pid[i]
    <2>1. /\ first \in Seq(Int) /\ Len(first) = Len(head) + Len(pid)
          /\ \A i \in 1 .. Len(pid) : first[Len(head) + i] = pid[i]
        BY ONLY <1>3, <1>4, <1>5, Joined
    <2> QED BY ONLY <1>4, <2>1
<1>9. /\ bytes \in Seq(Int) /\ Len(bytes) = 2 + Len(pid) + Len(d)
      /\ \A i \in 1 .. 2 + Len(pid) : bytes[i] = first[i]
      /\ \A i \in 1 .. Len(d) : bytes[2 + Len(pid) + i] = d[i]
    <2>1. /\ bytes \in Seq(Int) /\ Len(bytes) = Len(first) + Len(d)
          /\ \A i \in 1 .. Len(first) : bytes[i] = first[i]
          /\ \A i \in 1 .. Len(d) : bytes[Len(first) + i] = d[i]
        BY ONLY <1>6, <1>8, Joined
    <2> QED BY ONLY <1>8, <2>1
<1>10. /\ data \in Seq(Int) /\ Len(data) >= Len(bytes)
       /\ \A k \in 1 .. Len(bytes) : data[k] = bytes[k]
    BY <1>7, <1>9, FilledBytes
<1>11. ASSUME NEW i \in 1 .. Len(pid) PROVE data[2 + i] = pid[i]
    <2>1. 2 + i \in 1 .. Len(bytes) /\ 2 + i \in 1 .. 2 + Len(pid)
        BY <1>3, <1>9
    <2> QED BY <1>8, <1>9, <1>10, <2>1
<1>12. ASSUME NEW i \in 1 .. Len(d) PROVE data[2 + Len(pid) + i] = d[i]
    <2>1. 2 + Len(pid) + i \in 1 .. Len(bytes)
        BY <1>3, <1>9
    <2> QED BY <1>9, <1>10, <2>1
<1>13. Len(data) >= 2 + Len(pid) + Len(d)
    BY <1>9, <1>10
<1> QED BY <1>10, <1>11, <1>12, <1>13, <1>14, <1>15

-----------------------------------------------------------------------------
\* An identifier is two words, and the two marks are none.
LEMMA IdsAre ==
    ASSUME NEW id
    PROVE  /\ id \in Ids <=> /\ id = <<id[1], id[2]>>
                             /\ id[1] \in Words /\ id[2] \in Words
           /\ NoId \notin Ids /\ BadId \notin Ids
<1>1. id \in Ids => id = <<id[1], id[2]>> /\ id[1] \in Words /\ id[2] \in Words
    BY DEF Ids
<1>2. id = <<id[1], id[2]>> /\ id[1] \in Words /\ id[2] \in Words => id \in Ids
    BY DEF Ids
<1>3. \A pair \in Ids : Len(pair) = 2
    BY DEF Ids
<1>4. Len(NoId) = 0 /\ Len(BadId) = 1
    BY DEF NoId, BadId
<1> QED BY <1>1, <1>2, <1>3, <1>4

\* What the code makes of the lower word of an identifier is a word.
LEMMA WordsAre ==
    ASSUME NEW word \in Words
    PROVE  /\ word \in Nat /\ word <= 65535
           /\ (word % 256) * 256 + (word \div 256) \in Words
           /\ word <= 4095 => word + 8 \in Words
<1>1. (word % 256) * 256 + (word \div 256) \in Words
    BY DEF Words
<1> QED BY <1>1 DEF Words

\* Control units answer from identifiers of at most 29 bits.
LEMMA AnswerIdsAre ==
    ASSUME NEW header \in Ids, NEW id \in AnswerIds(header)
    PROVE  id \in Ids /\ id[1] < 8192
<1>1. header[1] \in Words /\ header[2] \in Words
    BY IdsAre
<1>2. 0 \in Words /\ 2024 \in Words /\ 6362 \in Words /\ 61712 \in Words
    BY DEF Words
<1>3. id[1] \in {0, 6362} /\ id[2] \in Words /\ id = <<id[1], id[2]>>
    <2>1. CASE header = Functional11
        <3>1. id = <<0, 2024>>
            BY <2>1 DEF AnswerIds
        <3> QED BY ONLY <1>2, <3>1
    <2>2. CASE header # Functional11 /\ header = Functional29
        <3>1. id = <<6362, 61712>>
            BY <2>2 DEF AnswerIds
        <3> QED BY ONLY <1>2, <3>1
    <2>3. CASE header # Functional11 /\ header # Functional29 /\ ~ Extended(header)
        <3>1. header[2] + 8 \in Words
            BY <1>1, <2>3, WordsAre DEF Extended
        <3>2. id = <<0, header[2] + 8>>
            BY <2>3 DEF AnswerIds
        <3> QED BY <1>2, <3>1, <3>2
    <2>4. CASE header # Functional11 /\ header # Functional29 /\ Extended(header)
        <3>1. (header[2] % 256) * 256 + (header[2] \div 256) \in Words
            BY <1>1, WordsAre
        <3>2. id = <<6362, (header[2] % 256) * 256 + (header[2] \div 256)>>
            BY <2>4 DEF AnswerIds, ForceFirstTwoBytesAndSwapLast
        <3> QED BY <1>2, <3>1, <3>2
    <2> QED BY <2>1, <2>2, <2>3, <2>4
<1>4. id[1] \in Words /\ id[1] < 8192
    BY <1>2, <1>3
<1> QED BY <1>3, <1>4, IdsAre

\* The identifier the code expects is one,
LEMMA ResponseHeaderIs ==
    ASSUME NEW request, request.header \in Ids, request.pair \in Ids \cup {NoId, BadId}
    PROVE  ResponseHeader(request) \in Ids
<1> DEFINE header == request.header
<1>1. header[1] \in Words /\ header[2] \in Words
    BY IdsAre
<1>2. /\ <<0, 0>> \in Ids /\ <<0, 2024>> \in Ids /\ <<6362, 61747>> \in Ids
    BY DEF Ids, Words
<1>3. header[2] < 4095 => <<0, header[2] + 8>> \in Ids
    <2>1. header[2] < 4095 => header[2] + 8 \in Words /\ 0 \in Words
        BY <1>1, WordsAre DEF Words
    <2> QED BY <2>1 DEF Ids
<1>4. ForceFirstTwoBytesAndSwapLast(header) \in Ids
    <2>1. (header[2] % 256) * 256 + (header[2] \div 256) \in Words
        BY <1>1, WordsAre
    <2>2. 6362 \in Words
        BY DEF Words
    <2> QED BY <2>1, <2>2 DEF Ids, ForceFirstTwoBytesAndSwapLast
<1>5. CASE request.pair \in {NoId, BadId}
    <2>1. CASE request.pair = BadId
        BY <1>2, <2>1 DEF ResponseHeader
    <2>2. CASE request.pair = NoId
        <3>1. NoId # BadId
            BY DEF NoId, BadId
        <3> HIDE DEF header
        <3> QED BY <1>2, <1>3, <1>4, <2>2, <3>1 DEF ResponseHeader, header
    <2> QED BY <1>5, <2>1, <2>2
<1>6. CASE request.pair \notin {NoId, BadId}
    BY <1>6 DEF ResponseHeader
<1> QED BY <1>5, <1>6

\* ... and the one the answer has, but for two addresses.
LEMMA ResponseHeaderAnswers ==
    ASSUME NEW request, request.header \in Ids, request.pair \in Ids \cup {NoId},
           request.header \in {Functional29, <<0, 4095>>} => request.pair # NoId,
           NEW id \in AnswerIdOf(request)
    PROVE  id = ResponseHeader(request)
<1>1. CASE request.pair \in Ids
    BY <1>1, IdsAre DEF AnswerIdOf, ResponseHeader
<1>2. CASE request.pair = NoId
    <2> DEFINE header == request.header
    <2>1. header # Functional29 /\ header # <<0, 4095>> /\ NoId # BadId
        <3>1. NoId # BadId
            BY DEF NoId, BadId
        <3> QED BY <1>2, <3>1
    <2>2. id \in AnswerIds(header)
        BY <1>2, IdsAre DEF AnswerIdOf
    <2>3. header[1] \in Nat /\ header[2] \in Nat /\ header = <<header[1], header[2]>>
        BY IdsAre, WordsAre
    <2>4. ResponseHeader(request) =
              IF header = Functional11 THEN <<0, 2024>>
              ELSE IF header[1] = 0 /\ header[2] < 4095 THEN <<0, header[2] + 8>>
              ELSE ForceFirstTwoBytesAndSwapLast(header)
        BY <1>2, <2>1 DEF ResponseHeader
    <2> HIDE DEF header
    <2>5. Extended(header) <=> ~ (header[1] = 0 /\ header[2] < 4095)
        BY <2>1, <2>3 DEF Extended
    <2> QED BY <2>1, <2>2, <2>4, <2>5 DEF AnswerIds
<1> QED BY <1>1, <1>2

-----------------------------------------------------------------------------
\* What the parser of a DBC file has of the lines of the file.
Given(text) == {text[k].gives : k \in DOMAIN text}

Parsers(text) ==
    [header : Ids \cup {NoId, BadId}, signals : Seq(Given(text)),
     filters : Seq([header : Ids, signals : Seq(Given(text))]), failed : BOOLEAN]

\* A filter taken over, and a line read, leave such a parser; so does a whole file.
LEMMA PrevFilterIsParsed ==
    ASSUME NEW text, NEW p \in Parsers(text)
    PROVE  addPrevFilter(p) \in Parsers(text)
<1> DEFINE filter == [header |-> p.header, signals |-> p.signals]
<1>1. CASE p.header = NoId \/ p.signals = <<>>
    BY <1>1 DEF addPrevFilter
<1>2. CASE ~ (p.header = NoId \/ p.signals = <<>>) /\ p.header = BadId
    <2>1. addPrevFilter(p) = [p EXCEPT !.failed = TRUE]
        BY <1>2 DEF addPrevFilter
    <2> QED BY <2>1 DEF Parsers
<1>3. CASE ~ (p.header = NoId \/ p.signals = <<>>) /\ p.header # BadId
    <2>1. addPrevFilter(p) = [p EXCEPT !.filters = Append(@, filter)]
        BY <1>3 DEF addPrevFilter
    <2>2. /\ filter \in [header : Ids, signals : Seq(Given(text))]
          /\ p.filters \in Seq([header : Ids, signals : Seq(Given(text))])
        BY <1>3 DEF Parsers
    <2> HIDE DEF filter
    <2>3. Append(p.filters, filter) \in Seq([header : Ids, signals : Seq(Given(text))])
        BY <2>2, AppendProperties
    <2> QED BY <2>1, <2>3 DEF Parsers
<1> QED BY <1>1, <1>2, <1>3

LEMMA LineIsParsed ==
    ASSUME NEW text, NEW k \in DOMAIN text, NEW p \in Parsers(text),
           text[k].word = "BO_" => text[k].gives \in Ids \cup {BadId}
    PROVE  parseLine(p, text[k]) \in Parsers(text)
<1> DEFINE line == text[k]
<1>1. CASE p.failed
    BY <1>1 DEF parseLine
<1>2. CASE ~ p.failed /\ line.word = "BO_"
    <2>1. parseLine(p, line) = [addPrevFilter(p) EXCEPT !.header = line.gives, !.signals = <<>>]
        BY <1>2 DEF parseLine
    <2>2. line.gives \in Ids \cup {NoId, BadId} /\ <<>> \in Seq(Given(text))
        BY <1>2
    <2>3. PICK q \in Parsers(text) : q = addPrevFilter(p)
        BY PrevFilterIsParsed
    <2>4. PICK gives : gives = line.gives
        OBVIOUS
    <2>5. [q EXCEPT !.header = gives, !.signals = <<>>] \in Parsers(text)
        BY <2>2, <2>4 DEF Parsers
    <2> QED BY <2>1, <2>3, <2>4, <2>5
<1>3. CASE ~ p.failed /\ line.word = "SG_"
    <2>1. parseLine(p, line) = IF line.gives = <<>> THEN [p EXCEPT !.failed = TRUE]
                               ELSE [p EXCEPT !.signals = Append(@, line.gives)]
        BY <1>3 DEF parseLine
    <2>2. line.gives \in Given(text)
        BY DEF Given
    <2>3. p.signals \in Seq(Given(text))
        BY DEF Parsers
    <2>4. Append(p.signals, line.gives) \in Seq(Given(text))
        BY <2>2, <2>3, AppendProperties
    <2>5. [p EXCEPT !.failed = TRUE] \in Parsers(text)
        BY DEF Parsers
    <2>6. PICK signals \in Seq(Given(text)) : signals = Append(p.signals, line.gives)
        BY <2>4
    <2>7. [p EXCEPT !.signals = signals] \in Parsers(text)
        BY DEF Parsers
    <2>8. parseLine(p, line) \in {[p EXCEPT !.failed = TRUE], [p EXCEPT !.signals = signals]}
        BY <2>1, <2>6
    <2> QED BY <2>5, <2>7, <2>8
<1>4. CASE ~ p.failed /\ line.word # "BO_" /\ line.word # "SG_"
    BY <1>4 DEF parseLine
<1> QED BY <1>1, <1>2, <1>3, <1>4

\* The states of the parser, line by line.
LEMMA ParserSteps ==
    ASSUME NEW s \in Setups
    PROVE  \E f : /\ \A j \in 0 .. Len(s.file) :
                        /\ f[j] = IF j = 0 THEN NothingParsed ELSE parseLine(f[j - 1], s.file[j])
                        /\ f[j] \in Parsers(s.file)
                  /\ ParsedLines(s.file) = f[Len(s.file)]
<1>1. PICK text : text = s.file
    OBVIOUS
<1>2. /\ Len(text) \in Nat /\ DOMAIN text = 1 .. Len(text)
      /\ \A k \in DOMAIN text : text[k].word = "BO_" => text[k].gives \in Ids \cup {BadId}
    BY <1>1, DecodingAssumption DEF DecodingAssumption
<1> DEFINE Follows(f, k) ==
               f = [j \in 0 .. k |-> IF j = 0 THEN NothingParsed ELSE parseLine(f[j - 1], text[j])]
           Reached == {k \in 0 .. Len(text) : \E f : Follows(f, k)}
<1>3. 0 \in Reached
    <2>1. Follows([j \in 0 .. 0 |-> NothingParsed], 0)
        OBVIOUS
    <2> HIDE DEF Follows
    <2> QED BY <1>2, <2>1
<1>4. ASSUME NEW k \in 1 .. Len(text), k - 1 \in Reached PROVE k \in Reached
    <2>1. PICK f : Follows(f, k - 1)
        BY <1>4
    <2> DEFINE g == [j \in 0 .. k |-> IF j = k THEN parseLine(f[k - 1], text[k]) ELSE f[j]]
    <2>2. Follows(g, k)
        <3>1. \A j \in 0 .. k : g[j] = IF j = 0 THEN NothingParsed ELSE parseLine(g[j - 1], text[j])
            <4>1. CASE k = 1
                BY <2>1, <4>1
            <4> QED BY <2>1, <4>1
        <3> QED BY <3>1
    <2> HIDE DEF Follows, g
    <2> QED BY <2>2
<1> HIDE DEF Follows
<1>5. Len(text) \in Reached
    <2>1. \A k \in 1 .. Len(text) : k - 1 \in Reached => k \in Reached
        BY <1>4
    <2> HIDE DEF Reached
    <2>2. 0 .. Len(text) \subseteq Reached
        BY <1>2, <1>3, <2>1, SetInduction
    <2> QED BY <1>2, <2>2
<1> DEFINE parsed == CHOOSE f : Follows(f, Len(text))
<1>6. Follows(parsed, Len(text))
    BY <1>5
<1>7. ParsedLines(text) = parsed[Len(text)]
    BY DEF ParsedLines, Follows
<1> HIDE DEF parsed
<1>8. \A j \in 0 .. Len(text) :
          parsed[j] = IF j = 0 THEN NothingParsed ELSE parseLine(parsed[j - 1], text[j])
    BY <1>6 DEF Follows
<1> DEFINE Typed == {j \in 0 .. Len(text) : parsed[j] \in Parsers(text)}
<1>9. 0 \in Typed
    <2>1. NothingParsed \in Parsers(text)
        BY DEF NothingParsed, Parsers
    <2> QED BY <1>2, <1>8, <2>1
<1>10. ASSUME NEW k \in 1 .. Len(text), k - 1 \in Typed PROVE k \in Typed
    <2>1. k \in 0 .. Len(text) /\ k # 0 /\ k \in DOMAIN text
        BY <1>2
    <2>2. parsed[k] = parseLine(parsed[k - 1], text[k])
        BY <1>8, <2>1
    <2>3. parsed[k - 1] \in Parsers(text)
        BY <1>10
    <2> QED BY <1>2, <2>1, <2>2, <2>3, LineIsParsed
<1>11. \A j \in 0 .. Len(text) : parsed[j] \in Parsers(text)
    <2>1. \A k \in 1 .. Len(text) : k - 1 \in Typed => k \in Typed
        BY <1>10
    <2> HIDE DEF Typed
    <2>2. 0 .. Len(text) \subseteq Typed
        BY <1>2, <1>9, <2>1, SetInduction
    <2> QED BY <2>2 DEF Typed
<1>12. PICK f : f = parsed
    OBVIOUS
<1>13. /\ \A j \in 0 .. Len(text) :
              /\ f[j] = IF j = 0 THEN NothingParsed ELSE parseLine(f[j - 1], text[j])
              /\ f[j] \in Parsers(text)
       /\ ParsedLines(text) = f[Len(text)]
    BY <1>7, <1>8, <1>11, <1>12
<1> QED BY <1>1, <1>13

LEMMA LinesAreParsed ==
    ASSUME NEW s \in Setups
    PROVE  ParsedLines(s.file) \in Parsers(s.file)
<1>1. Len(s.file) \in 0 .. Len(s.file)
    BY DecodingAssumption DEF DecodingAssumption
<1> QED BY <1>1, ParserSteps

\* The parser gives filters with identifiers only, and so do the requests.
LEMMA FiltersAre ==
    ASSUME NEW s \in Setups
    PROVE  /\ parseDBCHeaders(s.file) \in Seq([header : Ids, signals : Seq(Given(s.file))])
           /\ Filters(s) \subseteq Ids
<1>1. parseDBCHeaders(s.file) \in Seq([header : Ids, signals : Seq(Given(s.file))])
    <2>1. addPrevFilter(ParsedLines(s.file)) \in Parsers(s.file)
        BY LinesAreParsed, PrevFilterIsParsed
    <2>2. addPrevFilter(ParsedLines(s.file)).filters
              \in Seq([header : Ids, signals : Seq(Given(s.file))])
        BY <2>1 DEF Parsers
    <2> QED BY <2>2 DEF parseDBCHeaders
<1>2. RespHeaders(s) \subseteq Ids
    <2>1. \A i \in DOMAIN s.pids :
              /\ s.pids[i].header \in Ids
              /\ s.pids[i].pair \in Ids \cup {NoId, BadId}
        BY DecodingAssumption DEF DecodingAssumption
    <2> QED BY <2>1, ResponseHeaderIs DEF RespHeaders
<1>3. \A k \in DOMAIN parseDBCHeaders(s.file) : parseDBCHeaders(s.file)[k].header \in Ids
    <2>1. PICK filters : filters = parseDBCHeaders(s.file)
        OBVIOUS
    <2>2. filters \in Seq([header : Ids, signals : Seq(Given(s.file))])
        BY <1>1, <2>1
    <2>3. \A k \in DOMAIN filters : filters[k] \in [header : Ids, signals : Seq(Given(s.file))]
        <3>1. PICK S : S = [header : Ids, signals : Seq(Given(s.file))]
            OBVIOUS
        <3>2. filters \in Seq(S)
            BY <2>2, <3>1
        <3>3. \A k \in DOMAIN filters : filters[k] \in S
            BY <3>2
        <3> QED BY <3>1, <3>3
    <2>4. \A k \in DOMAIN filters : filters[k].header \in Ids
        BY <2>3
    <2> QED BY <2>1, <2>4
<1> QED BY <1>1, <1>2, <1>3 DEF Filters

\* A request is found if one claims the frame, and a panic needs a short frame.
LEMMA MatchIs ==
    ASSUME NEW s \in Setups, NEW frame
    PROVE  /\ matchPID(s, frame) = -1 => Len(frame.data) < 3
           /\ (\E i \in DOMAIN s.pids : Claims(s.pids[i], frame)) => matchPID(s, frame) # 0
<1> DEFINE I == {i \in 1 .. Len(s.pids) : Claims(s.pids[i], frame)}
           found == IF I # {} THEN Min(I) ELSE 0
<1>1. Len(s.pids) \in Nat /\ DOMAIN s.pids = 1 .. Len(s.pids)
    BY DecodingAssumption DEF DecodingAssumption
<1>2. matchPID(s, frame) = IF found = 0 THEN 0
                           ELSE IF Standard(s.pids[found]) /\ Len(frame.data) < 3 THEN -1 ELSE found
    BY DEF matchPID, SelectInSeq
<1>3. I # {} => found \in I /\ found \in Nat /\ found # 0
    <2>1. I \subseteq Nat /\ 0 \notin I
        BY <1>1
    <2> HIDE DEF I
    <2> QED BY <2>1, MinIsLeast
<1>4. (\E i \in DOMAIN s.pids : Claims(s.pids[i], frame)) => I # {}
    BY <1>1
<1> HIDE DEF I
<1>5. found \in Nat
    BY <1>3
<1>6. I # {} => found # 0
    BY <1>3
<1> HIDE DEF found
<1>7. matchPID(s, frame) = -1 => Len(frame.data) < 3
    BY <1>2, <1>5
<1> QED BY <1>2, <1>4, <1>5, <1>6, <1>7

\* A filter has a list of signals.
LEMMA FilterSignals ==
    ASSUME NEW s \in Setups, NEW k \in DOMAIN parseDBCHeaders(s.file)
    PROVE  /\ Len(parseDBCHeaders(s.file)[k].signals) \in Nat
           /\ DOMAIN parseDBCHeaders(s.file)[k].signals
                  = 1 .. Len(parseDBCHeaders(s.file)[k].signals)
<1>1. PICK filters, S : /\ filters = parseDBCHeaders(s.file)
                        /\ S = [header : Ids, signals : Seq(Given(s.file))]
    OBVIOUS
<1>2. filters \in Seq(S) /\ k \in DOMAIN filters
    BY <1>1, FiltersAre
<1>3. filters[k] \in S
    BY <1>2
<1>4. filters[k].signals \in Seq(Given(s.file))
    BY <1>1, <1>3
<1> QED BY <1>1, <1>4

\* A filter is found if the file has the identifier, and none only if it has not.
LEMMA FilterIs ==
    ASSUME NEW s \in Setups, NEW id
    PROVE  /\ findFilter(s, id) = 0 =>
                  \A k \in DOMAIN parseDBCHeaders(s.file) : parseDBCHeaders(s.file)[k].header # id
           /\ findFilter(s, id) # 0 => findFilter(s, id) \in DOMAIN parseDBCHeaders(s.file)
<1>1. PICK filters : filters = parseDBCHeaders(s.file)
    OBVIOUS
<1>2. Len(filters) \in Nat /\ DOMAIN filters = 1 .. Len(filters)
    <2>1. PICK S : filters \in Seq(S)
        BY <1>1, FiltersAre
    <2> QED BY <2>1
<1> DEFINE I == {k \in 1 .. Len(filters) : filters[k].header = id}
<1>3. findFilter(s, id) = IF I # {} THEN Min(I) ELSE 0
    BY <1>1 DEF findFilter, SelectInSeq
<1>4. I # {} => Min(I) # 0 /\ Min(I) \in I
    <2>1. I \subseteq Nat /\ 0 \notin I
        BY <1>2
    <2> HIDE DEF I
    <2> QED BY <2>1, MinIsLeast
<1>5. findFilter(s, id) # 0 => findFilter(s, id) \in I
    <2> HIDE DEF I
    <2> QED BY <1>3, <1>4
<1>6. findFilter(s, id) = 0 => I = {}
    <2> HIDE DEF I
    <2> QED BY <1>3, <1>4
<1> QED BY <1>1, <1>2, <1>5, <1>6

-----------------------------------------------------------------------------
\* A list has the signals of a set of lines, none of them torn, in their order.
Lists(signals, text, lines) ==
    /\ Len(signals) = Cardinality(lines)
    /\ \A k \in lines : text[k].gives # <<>>
    /\ \A k \in lines : signals[Cardinality({j \in lines : j <= k})] = text[k].gives

\* One filter has an identifier, and these signals; or none has it.
OneFilter(filters, text, id, lines) ==
    \E i \in DOMAIN filters :
        /\ filters[i].header = id /\ Lists(filters[i].signals, text, lines)
        /\ \A j \in DOMAIN filters : filters[j].header = id => j = i

NoFilter(filters, id) == \A i \in DOMAIN filters : filters[i].header # id

\* The place of a line in the list.
LEMMA PlaceInList ==
    ASSUME NEW signals, NEW text, NEW n \in Nat, NEW lines \in SUBSET (1 .. n),
           Lists(signals, text, lines), NEW k \in lines
    PROVE  Cardinality({j \in lines : j <= k}) \in 1 .. Len(signals)
<1>1. IsFiniteSet(lines)
    <2>1. IsFiniteSet(1 .. n)
        BY FS_Interval
    <2> QED BY <2>1, FS_Subset
<1>2. Len(signals) = Cardinality(lines)
    BY DEF Lists
<1>3. PICK before : before = {j \in lines : j <= k}
    OBVIOUS
<1>4. before \in SUBSET lines /\ k \in before
    BY <1>3
<1>5. /\ IsFiniteSet(before) /\ Cardinality(before) \in Nat
      /\ Cardinality(lines) \in Nat /\ Cardinality(before) <= Cardinality(lines)
    BY <1>1, <1>4, FS_Subset, FS_CardinalityType
<1>6. Cardinality(before) # 0
    BY <1>4, <1>5, FS_EmptySet
<1> QED BY ONLY <1>2, <1>3, <1>5, <1>6

\* A line after all of a list is added at its end.
LEMMA ListGrows ==
    ASSUME NEW S, NEW signals \in Seq(S), NEW text, NEW n \in Nat, NEW lines \in SUBSET (1 .. n),
           NEW m \in Nat, m > n, text[m].gives \in S, text[m].gives # <<>>,
           Lists(signals, text, lines)
    PROVE  Lists(Append(signals, text[m].gives), text, lines \cup {m})
<1>1. PICK e \in S : e = text[m].gives
    OBVIOUS
<1>2. PICK more : more = Append(signals, e)
    OBVIOUS
<1>3. /\ Len(signals) \in Nat /\ Len(more) = Len(signals) + 1 /\ more[Len(signals) + 1] = e
      /\ \A i \in 1 .. Len(signals) : more[i] = signals[i]
    BY <1>2, AppendProperties
<1>4. IsFiniteSet(lines) /\ m \notin lines /\ Cardinality(lines) = Len(signals)
    <2>1. IsFiniteSet(1 .. n)
        BY FS_Interval
    <2>2. IsFiniteSet(lines)
        BY <2>1, FS_Subset
    <2>3. m \notin 1 .. n
        OBVIOUS
    <2> QED BY <2>2, <2>3 DEF Lists
<1>5. Cardinality(lines \cup {m}) = Len(signals) + 1
    BY <1>4, FS_AddElement
<1>6. ASSUME NEW k \in lines
      PROVE  more[Cardinality({j \in lines \cup {m} : j <= k})] = text[k].gives
    <2>1. k \in Nat /\ k < m
        OBVIOUS
    <2>2. {j \in lines \cup {m} : j <= k} = {j \in lines : j <= k}
        BY <2>1
    <2>3. Cardinality({j \in lines : j <= k}) \in 1 .. Len(signals)
        BY PlaceInList
    <2>4. signals[Cardinality({j \in lines : j <= k})] = text[k].gives
        BY DEF Lists
    <2> QED BY <1>3, <2>2, <2>3, <2>4
<1>7. more[Cardinality({j \in lines \cup {m} : j <= m})] = text[m].gives
    <2>1. {j \in lines \cup {m} : j <= m} = lines \cup {m}
        <3>1. \A j \in 1 .. n : j <= m
            OBVIOUS
        <3>2. m <= m /\ \A j \in lines : j <= m
            BY <3>1
        <3> QED BY ONLY <3>2
    <2> QED BY <1>1, <1>3, <1>5, <2>1
<1> QED BY <1>1, <1>2, <1>3, <1>5, <1>6, <1>7 DEF Lists

\* Taking over the filter read before a header adds at most that one.
LEMMA PrevFilterKeeps ==
    ASSUME NEW text, NEW p \in Parsers(text), ~ addPrevFilter(p).failed,
           NEW id \in Ids, NEW lines
    PROVE  LET q == addPrevFilter(p)
           IN  /\ ~ p.failed
               /\ p.header # id /\ NoFilter(p.filters, id) => NoFilter(q.filters, id)
               /\ p.header # id /\ OneFilter(p.filters, text, id, lines) =>
                      OneFilter(q.filters, text, id, lines)
               /\ /\ p.header = id /\ p.signals # <<>> /\ NoFilter(p.filters, id)
                  /\ Lists(p.signals, text, lines)
                  => OneFilter(q.filters, text, id, lines)
               /\ p.signals = <<>> => q.filters = p.filters
<1>1. CASE p.header = NoId \/ p.signals = <<>>
    <2>1. addPrevFilter(p) = p
        BY <1>1 DEF addPrevFilter
    <2>2. id # NoId
        BY IdsAre
    <2> QED BY <1>1, <2>1, <2>2
<1>2. CASE ~ (p.header = NoId \/ p.signals = <<>>)
    <2> DEFINE filter == [header |-> p.header, signals |-> p.signals]
    <2>1. p.header # BadId
        BY <1>2 DEF addPrevFilter, Parsers
    <2>2. addPrevFilter(p) = [p EXCEPT !.filters = Append(@, filter)]
        BY <1>2, <2>1 DEF addPrevFilter
    <2>3. PICK S, filters : filters = p.filters /\ filters \in Seq(S) /\ filter \in S
        <3>1. /\ p.filters \in Seq([header : Ids, signals : Seq(Given(text))])
              /\ filter \in [header : Ids, signals : Seq(Given(text))]
            BY <1>2, <2>1 DEF Parsers
        <3> QED BY <3>1
    <2>4. PICK more : more = Append(filters, filter)
        OBVIOUS
    <2>5. addPrevFilter(p).filters = more /\ ~ p.failed
        BY <2>2, <2>3, <2>4 DEF Parsers
    <2>6. filter.header = p.header /\ filter.signals = p.signals
        OBVIOUS
    <2> HIDE DEF filter
    <2>7. /\ Len(filters) \in Nat /\ DOMAIN filters = 1 .. Len(filters)
          /\ DOMAIN more = 1 .. Len(filters) + 1 /\ more[Len(filters) + 1] = filter
          /\ \A i \in 1 .. Len(filters) : more[i] = filters[i]
        BY <2>3, <2>4, AppendProperties
    <2>8. \A i \in DOMAIN more : i \in DOMAIN filters \/ i = Len(filters) + 1
        BY <2>7
    <2>9. p.header # id /\ NoFilter(filters, id) => NoFilter(more, id)
        BY <2>6, <2>7, <2>8 DEF NoFilter
    <2>10. ASSUME p.header # id, OneFilter(filters, text, id, lines)
           PROVE  OneFilter(more, text, id, lines)
        <3>1. PICK i \in DOMAIN filters :
                  /\ filters[i].header = id /\ Lists(filters[i].signals, text, lines)
                  /\ \A j \in DOMAIN filters : filters[j].header = id => j = i
            BY <2>10 DEF OneFilter
        <3>2. i \in DOMAIN more /\ more[i] = filters[i]
            BY <2>7
        <3>3. \A j \in DOMAIN more : more[j].header = id => j = i
            BY <2>6, <2>7, <2>8, <2>10, <3>1
        <3> QED BY <3>1, <3>2, <3>3 DEF OneFilter
    <2>11. ASSUME p.header = id, NoFilter(filters, id), Lists(p.signals, text, lines)
           PROVE  OneFilter(more, text, id, lines)
        <3>1. Len(filters) + 1 \in DOMAIN more
            BY <2>7
        <3>2. \A j \in DOMAIN more : more[j].header = id => j = Len(filters) + 1
            BY <2>7, <2>8, <2>11 DEF NoFilter
        <3> QED BY <2>6, <2>7, <2>11, <3>1, <3>2 DEF OneFilter
    <2> QED BY <1>2, <2>3, <2>5, <2>9, <2>10, <2>11
<1> QED BY <1>1, <1>2


\* The signals under a header, and whether another header follows, in the first
\* lines of a file.
Under(text, at, n) ==
    {k \in at + 1 .. n : text[k].word = "SG_" /\ \A j \in at + 1 .. k : text[j].word # "BO_"}

Followed(text, at, n) == \E k \in at + 1 .. n : text[k].word = "BO_"

\* What the parser has read of the header in line at after the first n lines.
HasRead(p, text, id, at, n) ==
    /\ p.header = id <=> n >= at /\ ~ Followed(text, at, n)
    /\ p.header = id => Lists(p.signals, text, Under(text, at, n))
    /\ IF n >= at /\ Followed(text, at, n) /\ Under(text, at, n) # {}
       THEN OneFilter(p.filters, text, id, Under(text, at, n))
       ELSE NoFilter(p.filters, id)

\* A line more of the file.
LEMMA NextLine ==
    ASSUME NEW text, NEW at \in Nat, NEW n \in Nat
    PROVE  /\ Under(text, at, n) \subseteq 1 .. n
           /\ Followed(text, at, n + 1) <=>
                  Followed(text, at, n) \/ (n >= at /\ text[n + 1].word = "BO_")
           /\ Under(text, at, n + 1) =
                  Under(text, at, n) \cup
                      (IF n >= at /\ text[n + 1].word = "SG_" /\ ~ Followed(text, at, n)
                       THEN {n + 1} ELSE {})
           /\ n <= at => Under(text, at, n) = {} /\ ~ Followed(text, at, n)
<1>1. \A k \in at + 1 .. n + 1 : k \in at + 1 .. n \/ (k = n + 1 /\ n >= at)
    OBVIOUS
<1>2. /\ \A k \in at + 1 .. n : k \in at + 1 .. n + 1
      /\ n >= at => n + 1 \in at + 1 .. n + 1
    OBVIOUS
<1>3. n + 1 \notin at + 1 .. n /\ (n <= at => at + 1 .. n = {})
    OBVIOUS
<1>4. Followed(text, at, n + 1) <=>
          Followed(text, at, n) \/ (n >= at /\ text[n + 1].word = "BO_")
    BY <1>1, <1>2 DEF Followed
<1>5. ASSUME NEW k
      PROVE  k \in Under(text, at, n + 1) <=>
                 \/ k \in Under(text, at, n)
                 \/ k = n + 1 /\ n >= at /\ text[n + 1].word = "SG_" /\ ~ Followed(text, at, n)
    <2>1. CASE k = n + 1
        <3>1. k \in Under(text, at, n + 1) <=>
                  n >= at /\ text[n + 1].word = "SG_"
                      /\ \A j \in at + 1 .. n + 1 : text[j].word # "BO_"
            BY <1>1, <1>2, <1>3, <2>1 DEF Under
        <3>2. text[n + 1].word = "SG_" =>
                  ((\A j \in at + 1 .. n + 1 : text[j].word # "BO_") <=> ~ Followed(text, at, n))
            BY <1>1, <1>2 DEF Followed
        <3>3. k \notin Under(text, at, n)
            BY <1>3, <2>1 DEF Under
        <3> QED BY <2>1, <3>1, <3>2, <3>3
    <2>2. CASE k # n + 1
        BY <1>1, <1>2, <2>2 DEF Under
    <2> QED BY <2>1, <2>2
<1>6. Under(text, at, n + 1) =
          Under(text, at, n) \cup
              (IF n >= at /\ text[n + 1].word = "SG_" /\ ~ Followed(text, at, n)
               THEN {n + 1} ELSE {})
    BY <1>5
<1>7. Under(text, at, n) \subseteq 1 .. n
    BY DEF Under
<1>8. n <= at => Under(text, at, n) = {} /\ ~ Followed(text, at, n)
    BY <1>3 DEF Under, Followed
<1> QED BY <1>4, <1>6, <1>7, <1>8

\* A line read keeps to that.
LEMMA LineIsRead ==
    ASSUME NEW text, NEW at \in Nat, NEW n \in Nat, n + 1 \in DOMAIN text,
           NEW id \in Ids, NEW p \in Parsers(text), HasRead(p, text, id, at, n),
           n + 1 = at => text[n + 1].word = "BO_",
           text[n + 1].word = "BO_" => (text[n + 1].gives = id <=> n + 1 = at),
           ~ parseLine(p, text[n + 1]).failed
    PROVE  HasRead(parseLine(p, text[n + 1]), text, id, at, n + 1)
<1>1. PICK line, q : line = text[n + 1] /\ q = parseLine(p, line)
    OBVIOUS
<1> SUFFICES HasRead(q, text, id, at, n + 1)
    BY <1>1
<1>2. ~ p.failed
    <2>1. p.failed => parseLine(p, line) = p
        BY DEF parseLine
    <2> QED BY <1>1, <2>1
<1>3. /\ Under(text, at, n) \subseteq 1 .. n
      /\ Followed(text, at, n + 1) <=>
             Followed(text, at, n) \/ (n >= at /\ line.word = "BO_")
      /\ Under(text, at, n + 1) =
             Under(text, at, n) \cup
                 (IF n >= at /\ line.word = "SG_" /\ ~ Followed(text, at, n)
                  THEN {n + 1} ELSE {})
      /\ n <= at => Under(text, at, n) = {} /\ ~ Followed(text, at, n)
    BY <1>1, NextLine
<1>4. CASE line.word = "BO_"
    <2>1. PICK r : r = addPrevFilter(p)
        OBVIOUS
    <2>2. q = [r EXCEPT !.header = line.gives, !.signals = <<>>]
        BY <1>1, <1>2, <1>4, <2>1 DEF parseLine
    <2>3. r \in Parsers(text)
        BY <2>1, PrevFilterIsParsed
    <2>4. /\ q.header = line.gives /\ q.signals = <<>> /\ q.filters = r.filters
          /\ ~ r.failed
        BY <1>1, <2>2, <2>3 DEF Parsers
    <2>5. Under(text, at, n + 1) = Under(text, at, n)
        BY <1>3, <1>4
    <2>6. /\ p.header # id /\ NoFilter(p.filters, id) => NoFilter(r.filters, id)
          /\ p.header # id /\ OneFilter(p.filters, text, id, Under(text, at, n)) =>
                 OneFilter(r.filters, text, id, Under(text, at, n))
          /\ /\ p.header = id /\ p.signals # <<>> /\ NoFilter(p.filters, id)
             /\ Lists(p.signals, text, Under(text, at, n))
             => OneFilter(r.filters, text, id, Under(text, at, n))
          /\ p.signals = <<>> => r.filters = p.filters
        BY <2>1, <2>4, PrevFilterKeeps
    <2>7. q.header = id <=> n + 1 = at
        BY <1>1, <1>4, <2>4
    <2>8. CASE n + 1 < at
        <3>1. ~ (n >= at) /\ ~ (n + 1 >= at) /\ n + 1 # at
            BY <2>8
        <3>2. q.header # id /\ p.header # id /\ NoFilter(p.filters, id)
            BY <2>7, <3>1 DEF HasRead
        <3> QED BY <2>4, <2>6, <3>1, <3>2 DEF HasRead
    <2>9. CASE n + 1 = at
        <3>1. ~ (n >= at) /\ n + 1 >= at /\ n <= at
            BY <2>9
        <3>2. q.header = id /\ ~ Followed(text, at, n + 1) /\ Under(text, at, n + 1) = {}
            BY <1>3, <2>5, <2>7, <2>9, <3>1
        <3>3. p.header # id /\ NoFilter(p.filters, id)
            BY <3>1 DEF HasRead
        <3>4. Lists(<<>>, text, {})
            BY FS_EmptySet DEF Lists
        <3> QED BY <2>4, <2>6, <3>1, <3>2, <3>3, <3>4 DEF HasRead
    <2>10. CASE n >= at
        <3>1. n + 1 >= at /\ n + 1 # at
            BY <2>10
        <3>2. q.header # id /\ Followed(text, at, n + 1)
            BY <1>3, <1>4, <2>7, <2>10, <3>1
        <3>3. p.header = id <=> ~ Followed(text, at, n)
            BY <2>10 DEF HasRead
        <3>4. CASE Under(text, at, n) # {}
            <4>1. CASE Followed(text, at, n)
                BY <2>4, <2>5, <2>6, <2>10, <3>1, <3>2, <3>3, <3>4, <4>1 DEF HasRead
            <4>2. CASE ~ Followed(text, at, n)
                <5>1. Lists(p.signals, text, Under(text, at, n)) /\ NoFilter(p.filters, id)
                    BY <3>3, <4>2 DEF HasRead
                <5>2. p.signals # <<>>
                    <6>1. IsFiniteSet(Under(text, at, n))
                        <7>1. IsFiniteSet(1 .. n)
                            BY ONLY FS_Interval, n \in Int, 1 \in Int
                        <7> QED BY <1>3, <7>1, FS_Subset
                    <6>2. Cardinality(Under(text, at, n)) # 0
                        BY <3>4, <6>1, FS_EmptySet
                    <6>3. Len(p.signals) # 0
                        BY <5>1, <6>2 DEF Lists
                    <6> QED BY <6>3
                <5> QED BY <2>4, <2>5, <2>6, <3>1, <3>2, <3>3, <3>4, <4>2, <5>1, <5>2 DEF HasRead
            <4> QED BY <4>1, <4>2
        <3>5. CASE Under(text, at, n) = {}
            <4>1. CASE Followed(text, at, n)
                BY <2>4, <2>5, <2>6, <2>10, <3>1, <3>2, <3>3, <3>5, <4>1 DEF HasRead
            <4>2. CASE ~ Followed(text, at, n)
                <5>1. Lists(p.signals, text, {}) /\ NoFilter(p.filters, id)
                    BY <3>3, <3>5, <4>2 DEF HasRead
                <5>2. p.signals = <<>>
                    <6>1. Len(p.signals) = 0
                        BY <5>1, FS_EmptySet DEF Lists
                    <6>2. p.signals \in Seq(Given(text))
                        BY DEF Parsers
                    <6> QED BY <6>1, <6>2
                <5> QED BY <2>4, <2>5, <2>6, <3>1, <3>2, <3>5, <5>1, <5>2 DEF HasRead
            <4> QED BY <4>1, <4>2
        <3> QED BY <3>4, <3>5
    <2> QED BY <2>8, <2>9, <2>10
<1>5. CASE line.word = "SG_"
    <2>1. line.gives # <<>> /\ q = [p EXCEPT !.signals = Append(@, line.gives)]
        <3>1. q = IF line.gives = <<>> THEN [p EXCEPT !.failed = TRUE]
                  ELSE [p EXCEPT !.signals = Append(@, line.gives)]
            BY <1>1, <1>2, <1>5 DEF parseLine
        <3>2. [p EXCEPT !.failed = TRUE].failed
            BY DEF Parsers
        <3> QED BY <1>1, <3>1, <3>2
    <2>2. PICK signals : signals = Append(p.signals, line.gives)
        OBVIOUS
    <2>3. q.header = p.header /\ q.filters = p.filters /\ q.signals = signals
        BY <2>1, <2>2 DEF Parsers
    <2>4. /\ n + 1 # at /\ (n + 1 >= at <=> n >= at)
          /\ Followed(text, at, n + 1) <=> Followed(text, at, n)
        BY <1>1, <1>3, <1>5
    <2>5. CASE p.header = id
        <3>1. n >= at /\ ~ Followed(text, at, n) /\ Lists(p.signals, text, Under(text, at, n))
            BY <2>5 DEF HasRead
        <3>2. Under(text, at, n + 1) = Under(text, at, n) \cup {n + 1}
            BY <1>3, <1>5, <3>1
        <3>3. Lists(signals, text, Under(text, at, n) \cup {n + 1})
            <4>1. p.signals \in Seq(Given(text)) /\ text[n + 1].gives \in Given(text)
                BY DEF Parsers, Given
            <4>2. n + 1 \in Nat /\ n + 1 > n
                OBVIOUS
            <4> QED BY <1>1, <1>3, <2>1, <2>2, <3>1, <4>1, <4>2, ListGrows
        <3>4. NoFilter(p.filters, id)
            BY <3>1 DEF HasRead
        <3> QED BY <2>3, <2>4, <2>5, <3>1, <3>2, <3>3, <3>4 DEF HasRead
    <2>6. CASE p.header # id
        <3>1. Under(text, at, n + 1) = Under(text, at, n)
            <4>1. ~ (n >= at /\ ~ Followed(text, at, n))
                BY <2>6 DEF HasRead
            <4> QED BY <1>3, <4>1
        <3> QED BY <2>3, <2>4, <2>6, <3>1 DEF HasRead
    <2> QED BY <2>5, <2>6
<1>6. CASE line.word # "BO_" /\ line.word # "SG_"
    <2>1. q = p
        BY <1>1, <1>6 DEF parseLine
    <2>2. n + 1 # at
        BY <1>1, <1>6
    <2>3. n + 1 >= at <=> n >= at
        BY ONLY <2>2, n \in Nat, at \in Nat
    <2>4. /\ Followed(text, at, n + 1) <=> Followed(text, at, n)
          /\ Under(text, at, n + 1) = Under(text, at, n)
        BY ONLY <1>3, <1>6
    <2> QED BY <2>1, <2>3, <2>4 DEF HasRead
<1> QED BY <1>4, <1>5, <1>6

\* The filters of a file have one with an identifier the file has once, with the
\* signals under it.
LEMMA SignalsAreListed ==
    ASSUME NEW s \in Setups, NEW id \in Ids, NEW at \in DOMAIN s.file,
           HeadersOf(s.file, id) = {at}, SignalsUnder(s.file, at) # {},
           parseDBCHeaders(s.file) # <<>>
    PROVE  OneFilter(parseDBCHeaders(s.file), s.file, id, SignalsUnder(s.file, at))
<1>1. PICK text : text = s.file
    OBVIOUS
<1>2. PICK n \in Nat : n = Len(text) /\ DOMAIN text = 1 .. n
    BY <1>1, DecodingAssumption DEF DecodingAssumption
<1>3. at \in Nat /\ at >= 1 /\ at <= n
    BY <1>1, <1>2
<1>4. PICK f : /\ \A j \in 0 .. n : /\ f[j] = IF j = 0 THEN NothingParsed
                                               ELSE parseLine(f[j - 1], text[j])
                                    /\ f[j] \in Parsers(text)
               /\ ParsedLines(text) = f[n]
    BY <1>1, <1>2, ParserSteps
<1>5. \A k \in DOMAIN text :
          /\ k = at => text[k].word = "BO_"
          /\ text[k].word = "BO_" => (text[k].gives = id <=> k = at)
    BY <1>1 DEF HeadersOf
<1> DEFINE Kept == {k \in 0 .. n : f[k].failed \/ HasRead(f[k], text, id, at, k)}
<1>6. 0 \in Kept
    <2>1. 0 \in 0 .. n /\ ~ (0 >= at)
        BY <1>3
    <2>2. f[0] = NothingParsed
        BY <1>4, <2>1
    <2>3. id # NoId
        BY IdsAre
    <2>4. NoFilter(NothingParsed.filters, id)
        BY DEF NothingParsed, NoFilter
    <2>5. NothingParsed.header = NoId
        BY DEF NothingParsed
    <2>6. HasRead(NothingParsed, text, id, at, 0)
        BY <2>1, <2>3, <2>4, <2>5 DEF HasRead
    <2> QED BY <2>1, <2>2, <2>6
<1>7. ASSUME NEW k \in 1 .. n, k - 1 \in Kept PROVE k \in Kept
    <2>1. PICK m \in Nat : m = k - 1 /\ m + 1 = k
        OBVIOUS
    <2>2. k \in 0 .. n /\ m \in 0 .. n /\ k # 0
        BY <2>1
    <2>3. f[k] = parseLine(f[m], text[k]) /\ f[m] \in Parsers(text)
        BY <1>4, <2>1, <2>2
    <2>4. SUFFICES ASSUME ~ f[k].failed PROVE HasRead(f[k], text, id, at, k)
        BY <2>2
    <2>5. ~ f[m].failed
        BY <2>3, <2>4 DEF parseLine
    <2>6. HasRead(f[m], text, id, at, m)
        BY <1>7, <2>1, <2>5
    <2>7. m + 1 \in DOMAIN text
        BY <1>2, <2>1
    <2>8. HasRead(parseLine(f[m], text[m + 1]), text, id, at, m + 1)
        BY <1>3, <1>5, <2>1, <2>3, <2>4, <2>6, <2>7, LineIsRead
    <2> QED BY <2>1, <2>3, <2>8
<1>8. n \in Kept
    <2>1. \A k \in 1 .. n : k - 1 \in Kept => k \in Kept
        BY <1>7
    <2> HIDE DEF Kept
    <2>2. 0 .. n \subseteq Kept
        BY <1>2, <1>6, <2>1, SetInduction
    <2> QED BY <2>2
<1>9. PICK p \in Parsers(text) :
          p = ParsedLines(text) /\ (p.failed \/ HasRead(p, text, id, at, n))
    BY <1>4, <1>8
<1>10. PICK q : q = addPrevFilter(p)
    OBVIOUS
<1>11. ~ q.failed /\ parseDBCHeaders(text) = q.filters
    BY <1>1, <1>9, <1>10 DEF parseDBCHeaders
<1>12. SignalsUnder(text, at) = Under(text, at, n) /\ Under(text, at, n) # {}
    BY <1>1, <1>2 DEF SignalsUnder, Under
<1>13. PICK lines : lines = Under(text, at, n)
    OBVIOUS
<1>14. /\ ~ p.failed
       /\ p.header # id /\ OneFilter(p.filters, text, id, lines) => OneFilter(q.filters, text, id, lines)
       /\ /\ p.header = id /\ p.signals # <<>> /\ NoFilter(p.filters, id)
          /\ Lists(p.signals, text, lines)
          => OneFilter(q.filters, text, id, lines)
    BY <1>10, <1>11, PrevFilterKeeps
<1>15. OneFilter(q.filters, text, id, lines)
    <2>1. HasRead(p, text, id, at, n) /\ n >= at
        BY <1>3, <1>9, <1>14
    <2>2. CASE Followed(text, at, n)
        BY <1>12, <1>13, <1>14, <2>1, <2>2 DEF HasRead
    <2>3. CASE ~ Followed(text, at, n)
        <3>1. p.header = id /\ Lists(p.signals, text, lines) /\ NoFilter(p.filters, id)
            BY <1>13, <2>1, <2>3 DEF HasRead
        <3>2. p.signals # <<>>
            <4>1. IsFiniteSet(lines)
                <5>1. lines \in SUBSET (1 .. n)
                    BY ONLY <1>3, <1>13, NextLine, n \in Nat
                <5>2. IsFiniteSet(1 .. n)
                    BY ONLY FS_Interval, n \in Int, 1 \in Int
                <5> QED BY <5>1, <5>2, FS_Subset
            <4>2. Cardinality(lines) # 0
                BY <1>12, <1>13, <4>1, FS_EmptySet
            <4>3. Len(p.signals) # 0
                BY <3>1, <4>2 DEF Lists
            <4> QED BY <4>3
        <3> QED BY <1>14, <3>1, <3>2
    <2> QED BY <2>2, <2>3
<1> QED BY <1>1, <1>11, <1>12, <1>13, <1>15

\* That filter is the one found.
LEMMA OneIsFound ==
    ASSUME NEW s \in Setups, NEW id, NEW lines,
           OneFilter(parseDBCHeaders(s.file), s.file, id, lines)
    PROVE  /\ findFilter(s, id) \in DOMAIN parseDBCHeaders(s.file) /\ findFilter(s, id) # 0
           /\ parseDBCHeaders(s.file)[findFilter(s, id)].header = id
           /\ Lists(parseDBCHeaders(s.file)[findFilter(s, id)].signals, s.file, lines)
<1>1. PICK filters : filters = parseDBCHeaders(s.file)
    OBVIOUS
<1>2. Len(filters) \in Nat /\ DOMAIN filters = 1 .. Len(filters)
    <2>1. PICK S : filters \in Seq(S)
        BY <1>1, FiltersAre
    <2> QED BY <2>1
<1> DEFINE I == {k \in 1 .. Len(filters) : filters[k].header = id}
<1>3. findFilter(s, id) = IF I # {} THEN Min(I) ELSE 0
    BY <1>1 DEF findFilter, SelectInSeq
<1>4. PICK i \in DOMAIN filters :
          /\ filters[i].header = id /\ Lists(filters[i].signals, s.file, lines)
          /\ \A j \in DOMAIN filters : filters[j].header = id => j = i
    BY <1>1 DEF OneFilter
<1>5. I = {i} /\ i # 0
    BY <1>2, <1>4
<1>6. Min(I) = i
    <2>1. I \subseteq Nat /\ I # {}
        BY <1>2, <1>5
    <2> HIDE DEF I
    <2> QED BY <1>5, <2>1, MinIsLeast
<1>7. findFilter(s, id) = i
    BY <1>3, <1>5, <1>6
<1> QED BY <1>1, <1>4, <1>5, <1>7

\* The decoder of broadcast frames gives the number a signal of whole bytes
\* stands for, and 0 instead of one out of range.
LEMMA BroadcastDecoded ==
    ASSUME NEW formula, formula.start \in Nat, formula.bits \in Nat, WholeBytes(formula),
           NEW data, Len(data) \in Nat
    PROVE  DecodePassiveFrame(data, formula).value = BroadcastReference(data, formula)
<1>1. PICK start, bits, first, count :
          /\ start = formula.start /\ bits = formula.bits /\ first = (start - 7) \div 8
          /\ count = NumBytes(formula)
    OBVIOUS
<1>2. start \in Nat /\ bits \in Nat /\ start % 8 = 7 /\ bits >= 8
    BY <1>1 DEF WholeBytes
<1>3. start >= 7 /\ (start - 7) % 2 = 0 /\ first \in Int
    BY ONLY <1>1, <1>2
<1>4. count \in Nat /\ count >= 1
    <2>1. count = bits \div 8
        BY <1>1 DEF NumBytes
    <2> QED BY ONLY <1>2, <2>1
<1>5. StartByte(formula) = first
    <2>1. StartByte(formula) = (start - 7) \div 8
        BY <1>1, <1>3 DEF StartByte
    <2> QED BY <1>1, <2>1
<1>6. first # first + count
    BY ONLY <1>3, <1>4
<1>7. PICK v : v = Scaled(BigEndian(SubSeq(data, first + 1, first + count), 256), formula)
    OBVIOUS
<1>8. v = Error \/ \E d : v = Number(d)
    BY <1>7 DEF Scaled
<1>9. [v EXCEPT !.value = RoundToTwoDecimals(@)].value = RoundToTwoDecimals(v.value)
    BY <1>8 DEF Error, Number
<1>10. BroadcastReference(data, formula)
           = IF first + count > Len(data) THEN 0 ELSE RoundToTwoDecimals(v.value)
    BY <1>1, <1>7 DEF BroadcastReference, Reference
<1>11. DecodePassiveFrame(data, formula)
           = IF Len(data) < first + count THEN Error
             ELSE [v EXCEPT !.value = RoundToTwoDecimals(@)]
    BY <1>1, <1>5, <1>6, <1>7 DEF DecodePassiveFrame
<1>12. Len(data) < first + count <=> first + count > Len(data)
    BY ONLY <1>3, <1>4, Len(data) \in Nat
<1> QED BY <1>9, <1>10, <1>11, <1>12 DEF Error

-----------------------------------------------------------------------------
\* An exchange begins with nothing heard, and its request is one of the template.
Begun ==
    /\ setup \in Setups
    /\ phase \in {"idle", "asked", "onBus", "autopi", "vin", "number"}
    /\ phase = "idle" => asked = 0 /\ frames = <<>>
    /\ phase \in {"idle", "asked"} => pushed = <<>> /\ result = Error
    /\ phase \in {"asked", "autopi"} => asked # 0
    /\ phase \in {"asked", "onBus"} => Scans(setup)
    /\ asked # 0 => asked \in DOMAIN setup.pids /\ query = SendCANQuery(Asked)

\* A frame that answers the request asked.
AnswerFrame(f) ==
    /\ answer \in Data \cup {<<>>}
    /\ f.id \in AnswerIdOf(Asked)
    /\ \E pad \in Pads : f.data = AnswerData(query, answer, pad)

\* The frame of the exchange, read or not.
FrameOnBus ==
    phase = "onBus" =>
        \E f : /\ frames = <<f>> \/ (frames = <<>> /\ read = f)
               /\ IF asked = 0 THEN f \in Broadcasts ELSE AnswerFrame(f)

\* What the listener makes of it.
FrameRead ==
    phase = "onBus" =>
        IF frames # <<>> \/ ~Received(setup, read.id) THEN pushed = <<>> /\ result = Error
        ELSE IF Panics(setup, read) THEN result = Panic
        ELSE result = Error /\ pushed = PushedFor(setup, read)

\* The lines of an AutoPi query, and what is made of them.
LinesHeard ==
    phase = "autopi" =>
        /\ answer \in Data \cup {<<>>}
        /\ \E id \in AnswerIdOf(Asked), pad \in Pads :
              LET line == Line(id, AnswerData(query, answer, pad))
              IN  frames \in {<<line>>, <<Line(<<0, 2025>>, Refusal(query)), line>>}
        /\ result = FirstDecoded(frames, Asked)

\* The lines of a VIN query, and what is made of them.
VinHeard ==
    phase = "vin" =>
        /\ answer \in VINs
        /\ \E q \in VinQueries, id \in Ids, pad \in Pads :
              frames \in {VinAnswer(q, id, answer),
                          <<Line(id, Filled(<<3, 127, q.mode, 120>>, pad))>>
                              \o VinAnswer(q, id, answer)}
        /\ result = extractVIN(frames)

\* The number a request of the template is answered with is no panic.
NumberHeard == phase = "number" /\ asked # 0 => result.kind = "value"

ExchangeInv ==
    /\ Begun
    /\ FrameOnBus
    /\ FrameRead
    /\ LinesHeard
    /\ VinHeard
    /\ NumberHeard

-----------------------------------------------------------------------------
\* The invariant holds at first, and every step preserves it.
LEMMA ExchangeBegins == DecodingInit => ExchangeInv
BY DEF DecodingInit, ExchangeInv, Begun, FrameOnBus, FrameRead, LinesHeard, VinHeard, NumberHeard

\* What a frame makes the listener push is a list.
LEMMA PushedIsList ==
    ASSUME NEW s \in Setups, NEW f, ~ Panics(s, f)
    PROVE  \E S : PushedFor(s, f) \in Seq(S)
<1>1. CASE f.id \in RespHeaders(s)
    <2>1. PushedFor(s, f) = <<>> \/ \E e : PushedFor(s, f) = <<e>>
        BY <1>1 DEF PushedFor
    <2>2. ASSUME NEW e PROVE <<e>> \in Seq({e}) /\ <<>> \in Seq({e})
        OBVIOUS
    <2> QED BY <2>1, <2>2
<1>2. CASE f.id \notin RespHeaders(s)
    <2>1. PICK k : k = findFilter(s, f.id)
        OBVIOUS
    <2>2. k \in DOMAIN parseDBCHeaders(s.file)
        BY <1>2, <2>1, FilterIs DEF Panics
    <2>3. PICK signals : signals = parseDBCHeaders(s.file)[k].signals
        OBVIOUS
    <2>4. Len(signals) \in Nat /\ DOMAIN signals = 1 .. Len(signals)
        BY <2>2, <2>3, FilterSignals
    <2>5. PICK n \in Nat : DOMAIN signals = 1 .. n
        BY <2>4
    <2> DEFINE e(j) == [name |-> signals[j].name,
                        value |-> DecodePassiveFrame(f.data, signals[j].formula).value]
    <2>6. PushedFor(s, f) = [j \in 1 .. n |-> e(j)]
        BY <1>2, <2>1, <2>3, <2>5 DEF PushedFor
    <2> HIDE DEF e
    <2>7. [j \in 1 .. n |-> e(j)] \in Seq({e(j) : j \in 1 .. n})
        OBVIOUS
    <2> QED BY <2>6, <2>7
<1> QED BY <1>1, <1>2

LEMMA ExchangeStep ==
    ASSUME ExchangeInv, [DecodingNext]_decodingVars
    PROVE  ExchangeInv'
<1>1. ASSUME NEW i \in DOMAIN setup.pids, AsksNative(i) PROVE ExchangeInv'
    BY <1>1 DEF AsksNative, ExchangeInv, Begun, FrameOnBus, FrameRead, LinesHeard, VinHeard, NumberHeard, Asked
<1>2. ASSUME NEW i \in DOMAIN setup.pids, AsksAutoPi(i) PROVE ExchangeInv'
    <2>1. phase' = "autopi" /\ asked' = i /\ setup' = setup /\ phase = "idle"
        BY <1>2 DEF AsksAutoPi
    <2>2. PICK request : request = setup.pids[i]
        OBVIOUS
    <2>3. PICK sent : sent = SendCANQuery(request)
        OBVIOUS
    <2>4. Asked' = request
        BY <2>1, <2>2 DEF Asked
    <2>5. PICK id \in AnswerIdOf(request), d \in Data, pad \in Pads :
              /\ query' = sent
              /\ answer' \in (IF Understood(sent) THEN {d, <<>>} ELSE {<<>>})
              /\ frames' \in {<<Line(id, AnswerData(sent, answer', pad))>>,
                              <<Line(<<0, 2025>>, Refusal(sent)),
                                Line(id, AnswerData(sent, answer', pad))>>}
              /\ result' = FirstDecoded(frames', request)
        BY <1>2, <2>2, <2>3 DEF AsksAutoPi
    <2>6. answer' \in Data \cup {<<>>}
        BY <2>5
    <2>7. Begun'
        <3>1. setup \in Setups /\ i # 0
            <4>1. setup \in Setups
                BY DEF ExchangeInv, Begun
            <4>2. DOMAIN setup.pids = 1 .. Len(setup.pids)
                BY <4>1, DecodingAssumption DEF DecodingAssumption
            <4> QED BY <4>1, <4>2
        <3> QED BY <2>1, <2>3, <2>4, <2>5, <3>1 DEF Begun
    <2>8. LinesHeard'
        BY <2>4, <2>5, <2>6 DEF LinesHeard
    <2> QED BY <2>1, <2>7, <2>8 DEF ExchangeInv, FrameOnBus, FrameRead, VinHeard, NumberHeard
<1>3. ASSUME NEW q \in VinQueries, AsksVIN(q) PROVE ExchangeInv'
    <2>1. phase' = "vin" /\ asked' = asked /\ setup' = setup /\ phase = "idle"
        BY <1>3 DEF AsksVIN
    <2>2. PICK id \in AnswerIds(q.header), pad \in Pads :
              /\ answer' \in VINs
              /\ frames' \in {VinAnswer(q, id, answer'),
                              <<Line(id, Filled(<<3, 127, q.mode, 120>>, pad))>>
                                  \o VinAnswer(q, id, answer')}
              /\ result' = extractVIN(frames')
        BY <1>3 DEF AsksVIN
    <2>3. id \in Ids
        BY AnswerIdsAre, DecodingAssumption DEF DecodingAssumption
    <2>4. VinHeard'
        BY <2>2, <2>3 DEF VinHeard
    <2> QED BY <2>1, <2>4 DEF ExchangeInv, Begun, FrameOnBus, FrameRead, LinesHeard, NumberHeard
<1>4. CASE Answers
    <2>1. /\ phase = "asked" /\ phase' = "onBus" /\ asked # 0
          /\ UNCHANGED <<setup, asked, query, read, pushed, result>>
        BY <1>4 DEF Answers, ExchangeInv, Begun
    <2>2. PICK id \in AnswerIdOf(Asked), d \in Data, pad \in Pads :
              /\ answer' \in (IF Understood(query) THEN {d, <<>>} ELSE {<<>>})
              /\ frames' = <<[id |-> id, data |-> AnswerData(query, answer', pad)]>>
        BY <1>4 DEF Answers, Asked
    <2>3. PICK f : f = [id |-> id, data |-> AnswerData(query, answer', pad)]
        OBVIOUS
    <2>4. Asked' = Asked
        BY <2>1 DEF Asked
    <2>5. answer' \in Data \cup {<<>>}
        BY <2>2
    <2>6. AnswerFrame(f)'
        BY <2>1, <2>2, <2>3, <2>4, <2>5 DEF AnswerFrame
    <2>7. frames' = <<f>> /\ frames' # <<>>
        BY <2>2, <2>3
    <2>8. FrameOnBus'
        BY <2>1, <2>6, <2>7 DEF FrameOnBus
    <2>9. FrameRead' /\ Begun'
        BY <2>1, <2>4, <2>7 DEF FrameRead, ExchangeInv, Begun
    <2> QED BY <2>1, <2>8, <2>9 DEF ExchangeInv, LinesHeard, VinHeard, NumberHeard
<1>5. CASE VehicleBroadcasts
    BY <1>5 DEF VehicleBroadcasts, ExchangeInv, Begun, FrameOnBus, FrameRead, LinesHeard, VinHeard, NumberHeard,
                Asked
<1>6. CASE ListenerReads
    <2>1. /\ phase = "onBus" /\ frames # <<>> /\ frames' = Tail(frames) /\ read' = Head(frames)
          /\ UNCHANGED <<setup, phase, asked, query, answer>>
        BY <1>6 DEF ListenerReads
    <2>2. PICK f : frames = <<f>> /\ IF asked = 0 THEN f \in Broadcasts ELSE AnswerFrame(f)
        BY <2>1 DEF ExchangeInv, FrameOnBus
    <2>3. frames' = <<>> /\ read' = f /\ Head(frames) = f
        BY <2>1, <2>2
    <2>4. Asked' = Asked
        BY <2>1 DEF Asked
    <2>5. AnswerFrame(f)' <=> AnswerFrame(f)
        BY <2>1, <2>4 DEF AnswerFrame
    <2>6. FrameOnBus'
        BY <2>1, <2>2, <2>3, <2>5 DEF FrameOnBus
    <2>7. pushed = <<>> /\ result = Error
        BY <2>1 DEF ExchangeInv, FrameRead
    <2>8. FrameRead'
        <3>1. /\ Received(setup, read.id)' <=> Received(setup, f.id)
              /\ Panics(setup, read)' <=> Panics(setup, f)
              /\ (read.id \in RespHeaders(setup))' <=> f.id \in RespHeaders(setup)
              /\ PushedFor(setup, read)' = PushedFor(setup, f)
            BY <2>1, <2>3
        <3>2. CASE ~ Received(setup, f.id)
            BY <1>6, <2>3, <2>7, <3>1, <3>2 DEF ListenerReads, FrameRead
        <3>3. CASE Received(setup, f.id) /\ Panics(setup, f)
            BY <1>6, <2>3, <2>7, <3>1, <3>3 DEF ListenerReads, FrameRead
        <3>4. CASE Received(setup, f.id) /\ ~ Panics(setup, f)
            <4>1. pushed' = <<>> \o PushedFor(setup, f) /\ result' = result
                BY <1>6, <2>3, <2>7, <3>4 DEF ListenerReads
            <4>2. <<>> \o PushedFor(setup, f) = PushedFor(setup, f)
                <5>1. setup \in Setups
                    BY DEF ExchangeInv, Begun
                <5>2. PICK S : PushedFor(setup, f) \in Seq(S)
                    BY <3>4, <5>1, PushedIsList
                <5> QED BY <5>2, ConcatEmptySeq
            <4> QED BY <2>3, <2>7, <3>1, <3>4, <4>1, <4>2 DEF FrameRead
        <3> QED BY <3>2, <3>3, <3>4
    <2>9. Begun'
        BY <2>1, <2>4 DEF ExchangeInv, Begun
    <2> QED BY <2>1, <2>6, <2>8, <2>9 DEF ExchangeInv, LinesHeard, VinHeard, NumberHeard
<1>7. CASE Rests
    BY <1>7 DEF Rests, ExchangeInv, Begun, FrameOnBus, FrameRead, LinesHeard, VinHeard, NumberHeard
<1>8. CASE UNCHANGED decodingVars
    <2>1. UNCHANGED <<setup, phase, asked, query, answer, frames, read, pushed, result>>
        BY <1>8 DEF decodingVars
    <2>2. Asked' = Asked
        BY <2>1 DEF Asked
    <2>3. Begun' /\ FrameRead'
        BY <2>1, <2>2 DEF ExchangeInv, Begun, FrameRead
    <2>4. FrameOnBus'
        BY <2>1, <2>2 DEF ExchangeInv, FrameOnBus, AnswerFrame
    <2>5. VinHeard'
        BY <2>1 DEF ExchangeInv, VinHeard
    <2>6. LinesHeard'
        <3> SUFFICES ASSUME phase = "autopi"
                     PROVE  (/\ answer \in Data \cup {<<>>}
                             /\ \E id \in AnswerIdOf(Asked), pad \in Pads :
                                   LET line == Line(id, AnswerData(query, answer, pad))
                                   IN  frames \in {<<line>>, <<Line(<<0, 2025>>, Refusal(query)), line>>}
                             /\ result = FirstDecoded(frames, Asked))'
            BY <2>1 DEF LinesHeard
        <3>1. PICK id \in AnswerIdOf(Asked), pad \in Pads :
                  frames \in {<<Line(id, AnswerData(query, answer, pad))>>,
                              <<Line(<<0, 2025>>, Refusal(query)), Line(id, AnswerData(query, answer, pad))>>}
            BY DEF ExchangeInv, LinesHeard
        <3>2. answer \in Data \cup {<<>>} /\ result = FirstDecoded(frames, Asked)
            BY DEF ExchangeInv, LinesHeard
        <3> QED BY <2>1, <2>2, <3>1, <3>2
    <2>7. NumberHeard'
        BY <2>1 DEF ExchangeInv, NumberHeard
    <2> QED BY <2>3, <2>4, <2>5, <2>6, <2>7 DEF ExchangeInv
<1>9. ASSUME NEW i \in DOMAIN setup.pids, NumberForPID(i) PROVE ExchangeInv'
    <2>1. phase' = "number" /\ asked' = i /\ setup' = setup /\ phase = "idle"
        BY <1>9 DEF NumberForPID
    <2>2. result'.kind = "value"
        BY <1>9 DEF NumberForPID, Number
    <2>3. Begun'
        <3>1. setup \in Setups
            BY DEF ExchangeInv, Begun
        <3>2. query' = SendCANQuery(Asked')
            BY <1>9, <2>1 DEF NumberForPID, Asked
        <3> QED BY <2>1, <3>1, <3>2 DEF Begun
    <2> QED BY <2>1, <2>2, <2>3 DEF ExchangeInv, FrameOnBus, FrameRead, LinesHeard, VinHeard, NumberHeard
<1>10. ASSUME NEW q \in VinQueries, NumberForVIN(q) PROVE ExchangeInv'
    BY <1>10 DEF NumberForVIN, ExchangeInv, Begun, FrameOnBus, FrameRead, LinesHeard, VinHeard, NumberHeard
<1> QED BY <1>1, <1>2, <1>3, <1>4, <1>5, <1>6, <1>7, <1>8, <1>9, <1>10 DEF DecodingNext

LEMMA ExchangeHolds == DecodingSpec => []ExchangeInv
BY ExchangeBegins, ExchangeStep, PTL DEF DecodingSpec

-----------------------------------------------------------------------------
\* The digits of a line: those of the identifier, and two for each byte.
LEMMA IdDigitsAre ==
    ASSUME NEW id \in Ids
    PROVE  /\ IdDigits(id) \in Seq(Int)
           /\ Len(IdDigits(id)) = IF Extended(id) THEN 8 ELSE 3
<1>1. id[1] \in Int /\ id[2] \in Int
    BY IdsAre, WordsAre
<1>2. /\ id[1] \div 256 \in Int /\ id[1] % 256 \in Int
      /\ id[2] \div 256 \in Int /\ id[2] % 256 \in Int
      /\ (id[2] \div 16) % 16 \in Int /\ id[2] % 16 \in Int
    BY ONLY <1>1
<1>3. CASE Extended(id)
    <2>1. PICK bytes : bytes = <<id[1] \div 256, id[1] % 256, id[2] \div 256, id[2] % 256>>
        OBVIOUS
    <2>2. bytes \in Seq(Int) /\ Len(bytes) = 4
        BY <1>2, <2>1
    <2>3. Hex(bytes) \in Seq(Int) /\ Len(Hex(bytes)) = 2 * Len(bytes)
        BY ONLY <2>2, HexDigits
    <2>4. Len(Hex(bytes)) = 8
        BY ONLY <2>2, <2>3
    <2> QED BY <1>3, <2>1, <2>3, <2>4 DEF IdDigits
<1>4. CASE ~ Extended(id)
    <2>1. IdDigits(id) = <<id[2] \div 256, (id[2] \div 16) % 16, id[2] % 16>>
        BY <1>4 DEF IdDigits
    <2> QED BY <1>2, <1>4, <2>1
<1> QED BY <1>3, <1>4

\* A line is the digits of its identifier and those of its data.
LEMMA LineDigits ==
    ASSUME NEW id \in Ids, NEW data \in Seq(Int)
    PROVE  LET line == Line(id, data)
           IN  /\ line \in Seq(Int) /\ IdLength(line) \in {3, 8}
               /\ IdLength(line) = Len(IdDigits(id))
               /\ Len(line) = IdLength(line) + 2 * Len(data)
               /\ \A i \in 1 .. IdLength(line) : line[i] = IdDigits(id)[i]
               /\ \A i \in 1 .. 2 * Len(data) : line[IdLength(line) + i] = Hex(data)[i]
<1>7. PICK line : line = Line(id, data)
    OBVIOUS
<1>1. PICK digits, hex : digits = IdDigits(id) /\ hex = Hex(data)
    OBVIOUS
<1>2. digits \in Seq(Int) /\ Len(digits) \in {3, 8}
    BY <1>1, IdDigitsAre
<1>3. hex \in Seq(Int) /\ Len(hex) = 2 * Len(data) /\ Len(data) \in Nat
    BY <1>1, HexDigits
<1>4. line = digits \o hex
    BY <1>1, <1>7 DEF Line
<1>5. /\ line \in Seq(Int) /\ Len(line) = Len(digits) + Len(hex)
      /\ \A i \in 1 .. Len(digits) : line[i] = digits[i]
      /\ \A i \in 1 .. Len(hex) : line[Len(digits) + i] = hex[i]
    BY ONLY <1>2, <1>3, <1>4, Joined
<1>6. IdLength(line) = Len(digits)
    <2>1. Len(line) = Len(digits) + 2 * Len(data) /\ Len(data) \in Nat
        BY <1>3, <1>5
    <2>2. CASE Len(digits) = 3
        <3>1. Len(line) % 2 # 0
            BY ONLY <2>1, <2>2
        <3> QED BY <2>2, <3>1 DEF IdLength
    <2>3. CASE Len(digits) = 8
        <3>1. Len(line) % 2 = 0
            BY ONLY <2>1, <2>3
        <3> QED BY <2>3, <3>1 DEF IdLength
    <2> QED BY <1>2, <2>2, <2>3
<1> QED BY <1>1, <1>2, <1>3, <1>5, <1>6, <1>7

\* Data of bytes are data of numbers.
LEMMA BytesAreNumbers ==
    ASSUME NEW d \in Seq(Bytes)
    PROVE  d \in Seq(Int)
<1>1. \A i \in 1 .. Len(d) : d[i] \in Int
    BY BytesAre
<1> QED BY <1>1

\* The decoder of a line in which the digits of the PID are not found, or are,
\* with enough digits after them.
LEMMA ExtractIs ==
    ASSUME NEW line \in Seq(Int), Len(line) > 7, NEW pid \in Seq(Int), NEW formula,
           NumBytes(formula) \in Nat
    PROVE  LET at    == IndexOf(SubSeq(line, 8, Len(line)), pid)
               from  == at + 7 + Len(pid)
               count == NumBytes(formula)
           IN  /\ at = -1 => ExtractAndDecodeWithDBCFormula(line, pid, formula) = Error
               /\ at \in Nat /\ from + 2 * count <= Len(line) =>
                      ExtractAndDecodeWithDBCFormula(line, pid, formula) =
                          IF count = 0 THEN Error
                          ELSE Scaled(BigEndian(SubSeq(line, from + 1, from + 2 * count), 16), formula)
<1>3. PICK at : at = IndexOf(SubSeq(line, 8, Len(line)), pid)
    OBVIOUS
<1>4. PICK count \in Nat : count = NumBytes(formula)
    OBVIOUS
<1>5. PICK value : value = ExtractAndDecodeWithDBCFormula(line, pid, formula)
    OBVIOUS
<1>1. at = -1 => value = Error
    BY <1>3, <1>5 DEF ExtractAndDecodeWithDBCFormula
<1>2. ASSUME at \in Nat, at + 7 + Len(pid) + 2 * count <= Len(line)
      PROVE  value = IF count = 0 THEN Error
                     ELSE Scaled(BigEndian(SubSeq(line, at + 7 + Len(pid) + 1,
                                                  at + 7 + Len(pid) + 2 * count), 16), formula)
    <2>1. /\ at # -1 /\ ~ (at + 7 + 2 * count > Len(line))
          /\ ~ (at + 7 + Len(pid) + 2 * count > Len(line))
          /\ 2 * count = 0 <=> count = 0
        <3>1. Len(line) \in Nat /\ Len(pid) \in Nat
            OBVIOUS
        <3> QED BY ONLY <1>2, <3>1, count \in Nat
    <2> QED BY <1>3, <1>4, <1>5, <2>1 DEF ExtractAndDecodeWithDBCFormula
<1> QED BY <1>1, <1>2, <1>3, <1>4, <1>5

\* The digits of a part of the bytes.
LEMMA HexPart ==
    ASSUME NEW data \in Seq(Int), NEW d \in Seq(Int), NEW n \in Nat, n + Len(d) <= Len(data),
           \A m \in 1 .. Len(d) : data[n + m] = d[m]
    PROVE  \A i \in 1 .. 2 * Len(d) : Hex(data)[2 * n + i] = Hex(d)[i]
<1>1. Len(d) \in Nat /\ Len(data) \in Nat
    OBVIOUS
<1>2. ASSUME NEW m \in 1 .. Len(d)
      PROVE  /\ Hex(data)[2 * n + (2 * m - 1)] = Hex(d)[2 * m - 1]
             /\ Hex(data)[2 * n + 2 * m] = Hex(d)[2 * m]
    <2>1. n + m \in 1 .. Len(data) /\ 2 * (n + m) = 2 * n + 2 * m
          /\ 2 * (n + m) - 1 = 2 * n + (2 * m - 1)
        BY <1>1
    <2>2. Hex(data)[2 * (n + m) - 1] = data[n + m] \div 16 /\ Hex(data)[2 * (n + m)] = data[n + m] % 16
        BY <2>1, HexDigits
    <2>3. Hex(d)[2 * m - 1] = d[m] \div 16 /\ Hex(d)[2 * m] = d[m] % 16
        BY HexDigits
    <2>4. data[n + m] = d[m]
        OBVIOUS
    <2> QED BY ONLY <2>1, <2>2, <2>3, <2>4
<1>3. ASSUME NEW i \in 1 .. 2 * Len(d)
      PROVE  \E m \in 1 .. Len(d) : i = 2 * m - 1 \/ i = 2 * m
    <2>1. /\ (i + 1) \div 2 \in 1 .. Len(d)
          /\ i = 2 * ((i + 1) \div 2) - 1 \/ i = 2 * ((i + 1) \div 2)
        BY ONLY <1>1, i \in 1 .. 2 * Len(d)
    <2> QED BY <2>1
<1> QED BY <1>2, <1>3

\* A line without the digits of the PID gives nothing.
LEMMA RefusedLine ==
    ASSUME NEW id \in Ids, NEW data \in Seq(Int), Len(data) >= 3, NEW line, line = Line(id, data),
           NEW pid \in Seq(Int), NEW formula, NumBytes(formula) \in Nat,
           IndexOf(SubSeq(line, 8, Len(line)), pid) = -1
    PROVE  ExtractAndDecodeWithDBCFormula(line, pid, formula) = Error
<1>1. line \in Seq(Int) /\ Len(line) > 7
    <2>1. line \in Seq(Int) /\ IdLength(line) \in {3, 8} /\ Len(line) = IdLength(line) + 2 * Len(data)
        BY LineDigits
    <2>2. Len(data) \in Nat
        OBVIOUS
    <2> QED BY <2>1, <2>2
<1> QED BY <1>1, ExtractIs

\* A line with the digits of the PID at their place gives the number of the data.
LEMMA AnsweredLine ==
    ASSUME NEW id \in Ids, NEW request, request.mode \in Bytes, request.pid \in Words,
           NEW d \in Seq(Int), d # <<>>, NEW pad \in Int,
           NEW line, line = Line(id, AnswerData(SendCANQuery(request), d, pad)),
           NEW pid, pid = Hex(UintToHex(request.pid)), NEW formula, NEW count \in Nat,
           count = NumBytes(formula), count <= Len(d),
           IndexOf(SubSeq(line, 8, Len(line)), pid) + 7 = IdLength(line) + 4,
           IndexOf(SubSeq(line, 8, Len(line)), pid) \in Int,
           NEW value, value = ExtractAndDecodeWithDBCFormula(line, pid, formula)
    PROVE  /\ value = Error \/ value.kind # "panic"
           /\ count = Len(d) => value = Reference(d, formula)
<1>1. PICK data : data = Filled(Positive(SendCANQuery(request), d), pad)
    OBVIOUS
<1>2. PICK bytes : bytes = UintToHex(request.pid)
    OBVIOUS
<1>3. /\ data \in Seq(Int) /\ Len(data) >= 2 + Len(bytes) + Len(d)
      /\ \A i \in 1 .. Len(d) : data[2 + Len(bytes) + i] = d[i]
    BY ONLY <1>1, <1>2, AnswerBytes, request.mode \in Bytes, request.pid \in Words,
       d \in Seq(Int), pad \in Int
<1>4. bytes \in Seq(Int) /\ Len(bytes) \in Nat /\ Len(bytes) >= 1
    <2>1. bytes \in Seq(Int) /\ Len(bytes) = IF request.pid > 255 THEN 2 ELSE 1
        BY ONLY <1>2, PidBytes, request.pid \in Words
    <2> QED BY ONLY <2>1
<1>5. pid \in Seq(Int) /\ Len(pid) = 2 * Len(bytes)
    BY <1>2, <1>4, HexDigits
<1>6. line = Line(id, data)
    BY <1>1 DEF AnswerData
<1>7. PICK start : start = IdLength(line)
    OBVIOUS
<1>8. /\ line \in Seq(Int) /\ start \in {3, 8}
      /\ Len(line) = start + 2 * Len(data)
      /\ \A i \in 1 .. 2 * Len(data) : line[start + i] = Hex(data)[i]
    BY ONLY <1>3, <1>6, <1>7, LineDigits, id \in Ids
<1>9. PICK at : at = IndexOf(SubSeq(line, 8, Len(line)), pid)
    OBVIOUS
<1>10. Len(data) \in Nat /\ Len(d) \in Nat /\ Len(d) >= 1
    BY <1>3
<1>11. PICK from : from = start + 4 + 2 * Len(bytes)
    OBVIOUS
<1>12. /\ at \in Nat /\ at + 7 + Len(pid) = from /\ Len(line) > 7
       /\ from + 2 * count <= Len(line)
    <2>1. at + 7 = start + 4 /\ at \in Int
        BY <1>7, <1>9
    <2>2. count <= Len(d) /\ count \in Nat
        OBVIOUS
    <2>3. start \in Nat /\ start >= 3
        BY ONLY <1>8
    <2>4. at \in Nat /\ at + 7 + Len(pid) = from
        <3>1. Len(pid) \in Nat /\ Len(pid) = 2 * Len(bytes) /\ Len(bytes) \in Nat
            BY ONLY <1>4, <1>5
        <3> QED BY ONLY <1>11, <2>1, <2>3, <3>1
    <2>5. Len(line) > 7 /\ from + 2 * count <= Len(line)
        <3>1. /\ Len(line) = start + 2 * Len(data) /\ from = start + 4 + 2 * Len(bytes)
              /\ Len(data) >= 2 + Len(bytes) + Len(d) /\ Len(bytes) >= 1
              /\ Len(bytes) \in Nat /\ Len(data) \in Nat /\ Len(d) \in Nat
            BY ONLY <1>3, <1>4, <1>8, <1>10, <1>11
        <3> QED BY ONLY <2>2, <2>3, <3>1
    <2> QED BY <2>4, <2>5
<1>13. value = IF count = 0 THEN Error
               ELSE Scaled(BigEndian(SubSeq(line, from + 1, from + 2 * count), 16), formula)
    <2>1. at + 7 + Len(pid) + 2 * count <= Len(line)
        BY ONLY <1>12
    <2>2. value = IF count = 0 THEN Error
                  ELSE Scaled(BigEndian(SubSeq(line, at + 7 + Len(pid) + 1,
                                               at + 7 + Len(pid) + 2 * count), 16), formula)
        <3>1. line \in Seq(Int) /\ Len(line) > 7 /\ pid \in Seq(Int)
            BY ONLY <1>5, <1>8, <1>12
        <3>2. at = IndexOf(SubSeq(line, 8, Len(line)), pid) /\ at \in Nat
            BY ONLY <1>9, <1>12
        <3> QED BY ONLY <2>1, <3>1, <3>2, ExtractIs, count \in Nat, count = NumBytes(formula),
                value = ExtractAndDecodeWithDBCFormula(line, pid, formula)
    <2> QED BY ONLY <1>12, <2>2
<1>14. value.kind # "panic"
    BY <1>13 DEF Error, Scaled, Number
<1>15. ASSUME count = Len(d) PROVE value = Reference(d, formula)
    <2>1. PICK part : part = SubSeq(line, from + 1, from + 2 * count)
        OBVIOUS
    <2>2. \A i \in from + 1 .. from + 2 * count : line[i] \in Int
        <3>1. \A i \in from + 1 .. from + 2 * count : i \in 1 .. Len(line)
            <4>1. from \in Nat /\ Len(line) \in Nat
                <5>1. Len(pid) \in Nat /\ Len(line) \in Nat
                    BY ONLY <1>5, <1>8
                <5> QED BY ONLY <1>12, <5>1
            <4> QED BY ONLY <1>12, <4>1, count \in Nat
        <3> QED BY ONLY <1>8, <3>1
    <2>3. from \in Nat /\ 2 * count >= 1
        BY <1>4, <1>8, <1>10, <1>11, <1>15
    <2>4. /\ part \in Seq(Int) /\ Len(part) = 2 * Len(d)
          /\ \A i \in 1 .. 2 * Len(d) : part[i] = line[from + i]
        <3>1. /\ from + 1 \in Int /\ from + 2 * count \in Int
              /\ from + 1 <= from + 2 * count
              /\ from + 2 * count - (from + 1) + 1 = 2 * Len(d)
              /\ \A i \in 1 .. 2 * Len(d) : from + 1 + i - 1 = from + i
            BY ONLY <1>10, <1>15, <2>3
        <3>2. PICK first, last : first = from + 1 /\ last = from + 2 * count
            OBVIOUS
        <3>3. /\ first \in Int /\ last \in Int /\ part = SubSeq(line, first, last)
              /\ \A i \in first .. last : line[i] \in Int
            BY ONLY <2>1, <2>2, <3>1, <3>2
        <3>4. /\ part \in Seq(Int)
              /\ Len(part) = IF first <= last THEN last - first + 1 ELSE 0
              /\ \A i \in 1 .. last - first + 1 : part[i] = line[first + i - 1]
            BY ONLY <3>3, SubSeqProperties
        <3>5. /\ first <= last /\ last - first + 1 = 2 * Len(d)
              /\ \A i \in 1 .. 2 * Len(d) : first + i - 1 = from + i
            BY ONLY <1>10, <1>15, <2>3, <3>2, count \in Nat
        <3> QED BY ONLY <3>4, <3>5
    <2>5. \A i \in 1 .. 2 * Len(d) : Hex(data)[2 * (2 + Len(bytes)) + i] = Hex(d)[i]
        <3>1. /\ 2 + Len(bytes) \in Nat /\ 2 + Len(bytes) + Len(d) <= Len(data)
            BY ONLY <1>3, <1>4, <1>10
        <3> QED BY ONLY <1>3, <3>1, HexPart, d \in Seq(Int)
    <2>6. ASSUME NEW i \in 1 .. 2 * Len(d) PROVE part[i] = Hex(d)[i]
        <3>1. /\ from + i = start + (2 * (2 + Len(bytes)) + i)
              /\ 2 * (2 + Len(bytes)) + i \in 1 .. 2 * Len(data)
            <4>1. start \in Nat
                BY ONLY <1>8
            <4> QED BY ONLY <1>3, <1>4, <1>10, <1>11, <4>1, i \in 1 .. 2 * Len(d)
        <3>2. line[from + i] = Hex(data)[2 * (2 + Len(bytes)) + i]
            BY ONLY <1>8, <3>1
        <3> QED BY ONLY <2>4, <2>5, <3>2, i \in 1 .. 2 * Len(d)
    <2>7. Hex(d) \in Seq(Int) /\ Len(Hex(d)) = 2 * Len(d)
        BY HexDigits
    <2>8. part = Hex(d)
        BY <2>4, <2>6, <2>7, SeqEqual
    <2>9. BigEndian(part, 16) = BigEndian(d, 256)
        BY <2>8, ValueOfHex
    <2>10. count # 0
        BY <1>10, <1>15
    <2> QED BY <1>13, <2>1, <2>9, <2>10 DEF Reference
<1> QED BY <1>14, <1>15

\* An offset is a number, -1 included.
LEMMA IndexIsNumber ==
    ASSUME NEW s, NEW t, Len(s) \in Nat, Len(t) \in Nat
    PROVE  IndexOf(s, t) \in Int
<1> DEFINE at == {j \in 0 .. Len(s) - Len(t) : SubSeq(s, j + 1, j + Len(t)) = t}
<1>1. CASE at = {}
    BY <1>1 DEF IndexOf
<1>2. CASE at # {}
    <2>1. at \subseteq Nat
        OBVIOUS
    <2>2. PICK i \in at : \A j \in at : i <= j
        BY <1>2, <2>1, LeastExists
    <2>3. IndexOf(s, t) = CHOOSE j \in at : \A k \in at : j <= k
        BY <1>2 DEF IndexOf
    <2>4. IndexOf(s, t) \in at
        BY <2>2, <2>3
    <2> QED BY <2>1, <2>4
<1> QED BY <1>1, <1>2

\* The request asked, and the bytes sent for it.
LEMMA AskedIs ==
    ASSUME Begun, asked # 0
    PROVE  /\ asked \in DOMAIN setup.pids /\ setup \in Setups
           /\ Asked.header \in Ids /\ Asked.pair \in Ids \cup {NoId, BadId}
           /\ Asked.mode \in Bytes /\ Asked.pid \in Words /\ NumBytes(Asked.formula) \in Nat
           /\ query = SendCANQuery(Asked) /\ PidOf(query) = UintToHex(Asked.pid)
           /\ AnswerIdOf(Asked) \subseteq Ids /\ Pads \subseteq Int /\ Data \subseteq Seq(Int)
<1>1. setup \in Setups /\ asked \in DOMAIN setup.pids /\ query = SendCANQuery(Asked)
    BY DEF Begun
<1>2. /\ Asked.header \in Ids /\ Asked.pair \in Ids \cup {NoId, BadId}
      /\ Asked.mode \in Bytes /\ Asked.pid \in Words /\ Asked.formula.bits \in Nat
    BY <1>1, DecodingAssumption DEF DecodingAssumption, Asked
<1>3. NumBytes(Asked.formula) \in Nat
    <2>1. PICK bits \in Nat : bits = Asked.formula.bits
        BY <1>2
    <2>2. bits \div 8 \in Nat
        OBVIOUS
    <2> QED BY <2>1, <2>2 DEF NumBytes
<1>4. PidOf(query) = UintToHex(Asked.pid)
    BY <1>1, <1>2, QueryBytes
<1>5. AnswerIdOf(Asked) \subseteq Ids
    BY <1>2, AnswerIdsAre DEF AnswerIdOf
<1>6. Pads \subseteq Int /\ Data \subseteq Seq(Int)
    <2>1. Data \subseteq Seq(Bytes) /\ Pads \subseteq Bytes \cup {-1}
        BY DecodingAssumption DEF DecodingAssumption
    <2>2. Data \subseteq Seq(Int)
        BY <2>1, BytesAreNumbers
    <2>3. Pads \subseteq Int
        BY <2>1, BytesAre
    <2> QED BY <2>2, <2>3
<1> QED BY <1>1, <1>2, <1>3, <1>4, <1>5, <1>6

\* A refusal has four bytes, and more when it is filled up.
LEMMA RefusalIs ==
    ASSUME NEW request, request.mode \in Bytes, request.pid \in Words, NEW pad \in Int
    PROVE  LET sent == SendCANQuery(request)
           IN  /\ Refusal(sent) \in Seq(Int) /\ Len(Refusal(sent)) = 4
               /\ AnswerData(sent, <<>>, pad) \in Seq(Int)
               /\ Len(AnswerData(sent, <<>>, pad)) >= 4
<1>1. PICK sent : sent = SendCANQuery(request)
    OBVIOUS
<1>2. sent[2] \in Int
    BY <1>1, QueryBytes, BytesAre
<1>3. Refusal(sent) \in Seq(Int) /\ Len(Refusal(sent)) = 4
    BY <1>2 DEF Refusal
<1>4. AnswerData(sent, <<>>, pad) = Filled(Refusal(sent), pad)
    BY DEF AnswerData
<1>5. /\ Filled(Refusal(sent), pad) \in Seq(Int)
      /\ Len(Filled(Refusal(sent), pad)) >= Len(Refusal(sent))
    BY <1>3, FilledBytes
<1> QED BY <1>1, <1>3, <1>4, <1>5

\* Of one line, or of two of which the first gives nothing, the last counts.
LEMMA FirstDecodedIs ==
    ASSUME NEW request, NEW one, NEW other
    PROVE  LET valueOf(line) ==
                   ExtractAndDecodeWithDBCFormula(line, Hex(UintToHex(request.pid)), request.formula)
               decodedOf(line) == IF valueOf(line).kind = "error" THEN Error ELSE valueOf(line)
           IN  /\ FirstDecoded(<<one>>, request) = decodedOf(one)
               /\ valueOf(other) = Error => FirstDecoded(<<other, one>>, request) = decodedOf(one)
<1> SUFFICES ASSUME NEW lines \in {<<one>>, <<other, one>>},
                    Len(lines) = 2 =>
                        ExtractAndDecodeWithDBCFormula(other, Hex(UintToHex(request.pid)),
                                                       request.formula) = Error
             PROVE  LET value == ExtractAndDecodeWithDBCFormula(one, Hex(UintToHex(request.pid)),
                                                                request.formula)
                    IN  FirstDecoded(lines, request) = IF value.kind = "error" THEN Error ELSE value
    <2>1. Len(<<one>>) = 1
        OBVIOUS
    <2> QED BY <2>1
<1>1. PICK value : value = ExtractAndDecodeWithDBCFormula(one, Hex(UintToHex(request.pid)), request.formula)
    OBVIOUS
<1>2. PICK decoded : decoded = [k \in DOMAIN lines |->
          ExtractAndDecodeWithDBCFormula(lines[k], Hex(UintToHex(request.pid)), request.formula)]
    OBVIOUS
<1> DEFINE I == {k \in 1 .. Len(decoded) : decoded[k].kind # "error"}
<1>3. FirstDecoded(lines, request) =
          IF I = {} THEN Error ELSE IF Min(I) = 0 THEN Error ELSE decoded[Min(I)]
    BY <1>2 DEF FirstDecoded, SelectInSeq
<1>4. Error.kind = "error"
    BY DEF Error
<1>5. CASE lines = <<one>>
    <2>1. DOMAIN lines = 1 .. 1 /\ lines[1] = one
        BY <1>5
    <2>2. decoded = [k \in 1 .. 1 |-> decoded[k]] /\ decoded[1] = value
        BY <1>1, <1>2, <2>1
    <2>3. Len(decoded) = 1
        BY <2>2
    <2>4. I = IF value.kind = "error" THEN {} ELSE {1}
        <3>1. \A k \in 1 .. 1 : k = 1
            OBVIOUS
        <3> QED BY <2>2, <2>3, <3>1
    <2> HIDE DEF I
    <2>5. I = {1} => Min(I) = 1
        BY MinIsLeast
    <2> QED BY <1>1, <1>3, <2>2, <2>4, <2>5
<1>6. CASE lines = <<other, one>>
    <2>1. DOMAIN lines = 1 .. 2 /\ lines[1] = other /\ lines[2] = one /\ Len(lines) = 2
        BY <1>6
    <2>2. /\ decoded = [k \in 1 .. 2 |-> decoded[k]] /\ decoded[1] = Error /\ decoded[2] = value
        BY <1>1, <1>2, <2>1
    <2>3. Len(decoded) = 2
        BY <2>2
    <2>4. I = IF value.kind = "error" THEN {} ELSE {2}
        <3>1. \A k \in 1 .. 2 : k = 1 \/ k = 2
            OBVIOUS
        <3> QED BY <1>4, <2>2, <2>3, <3>1
    <2> HIDE DEF I
    <2>5. I = {2} => Min(I) = 2
        BY MinIsLeast
    <2> QED BY <1>1, <1>3, <2>2, <2>4, <2>5
<1> QED BY <1>5, <1>6

\* What an AutoPi query gives when the digits of the PID are where it is.
LEMMA AutoPiResult ==
    ASSUME ExchangeInv, phase = "autopi", \A k \in DOMAIN frames : ClearLine(k)
    PROVE  LET formula == Asked.formula
           IN  /\ answer \in Seq(Int) /\ NumBytes(formula) \in Nat
               /\ answer = <<>> => result = Error
               /\ answer # <<>> /\ NumBytes(formula) <= Len(answer) => result.kind # "panic"
               /\ answer # <<>> /\ NumBytes(formula) = Len(answer) =>
                      result = Reference(answer, formula)
<1>1. Begun /\ asked # 0 /\ LinesHeard
    BY DEF ExchangeInv, Begun
<1>2. PICK request : request = Asked
    OBVIOUS
<1>3. /\ request.mode \in Bytes /\ request.pid \in Words /\ NumBytes(request.formula) \in Nat
      /\ query = SendCANQuery(request) /\ PidOf(query) = UintToHex(request.pid)
      /\ AnswerIdOf(request) \subseteq Ids /\ Pads \subseteq Int /\ Data \subseteq Seq(Int)
    BY <1>1, <1>2, AskedIs
<1>4. answer \in Seq(Int)
    <2>1. answer \in Data \cup {<<>>}
        BY <1>1 DEF LinesHeard
    <2>2. <<>> \in Seq(Int)
        OBVIOUS
    <2> QED BY ONLY <1>3, <2>1, <2>2
<1>5. PICK id \in AnswerIdOf(request), pad \in Pads :
          frames \in {<<Line(id, AnswerData(query, answer, pad))>>,
                      <<Line(<<0, 2025>>, Refusal(query)), Line(id, AnswerData(query, answer, pad))>>}
    BY <1>1, <1>2 DEF LinesHeard
<1>6. PICK other, line : /\ other = Line(<<0, 2025>>, Refusal(query))
                         /\ line = Line(id, AnswerData(query, answer, pad))
                         /\ frames \in {<<line>>, <<other, line>>}
    BY <1>5
<1>7. PICK pid : pid = Hex(UintToHex(request.pid))
    OBVIOUS
<1>8. pid \in Seq(Int)
    BY <1>3, <1>7, PidBytes, HexDigits
<1>9. id \in Ids /\ pad \in Int /\ <<0, 2025>> \in Ids
    BY <1>3, <1>5 DEF Ids, Words
<1>10. frames[Len(frames)] = line /\ Len(frames) \in DOMAIN frames /\ Len(frames) \in {1, 2}
    BY <1>6
<1>11. Len(frames) = 2 => frames[1] = other /\ 1 \in DOMAIN frames /\ 1 < Len(frames)
    BY <1>6
<1>12. Len(frames) = 2 => ExtractAndDecodeWithDBCFormula(other, pid, request.formula) = Error
    <2> SUFFICES ASSUME Len(frames) = 2
                 PROVE  ExtractAndDecodeWithDBCFormula(other, pid, request.formula) = Error
        OBVIOUS
    <2>1. IndexOf(SubSeq(other, 8, Len(other)), pid) = -1
        BY <1>3, <1>7, <1>11 DEF ClearLine
    <2>2. Refusal(query) \in Seq(Int) /\ Len(Refusal(query)) >= 3
        <3>1. /\ Refusal(SendCANQuery(request)) \in Seq(Int)
              /\ Len(Refusal(SendCANQuery(request))) = 4
            BY ONLY <1>3, <1>9, RefusalIs
        <3> QED BY ONLY <1>3, <3>1
    <2> QED BY <1>3, <1>6, <1>8, <1>9, <2>1, <2>2, RefusedLine
<1>13. PICK value : value = ExtractAndDecodeWithDBCFormula(line, pid, request.formula)
    OBVIOUS
<1>14. result = IF value.kind = "error" THEN Error ELSE value
    <2>1. result = FirstDecoded(frames, request)
        BY <1>1, <1>2 DEF LinesHeard
    <2>2. FirstDecoded(frames, request) =
              IF ExtractAndDecodeWithDBCFormula(line, pid, request.formula).kind = "error" THEN Error
              ELSE ExtractAndDecodeWithDBCFormula(line, pid, request.formula)
        <3>1. CASE frames = <<line>>
            BY ONLY <1>7, <3>1, FirstDecodedIs
        <3>2. CASE frames = <<other, line>>
            BY ONLY <1>7, <1>12, <3>2, FirstDecodedIs
        <3> QED BY ONLY <1>6, <3>1, <3>2
    <2> QED BY ONLY <1>13, <2>1, <2>2
<1>15. ASSUME answer = <<>> PROVE result = Error
    <2>1. IndexOf(SubSeq(line, 8, Len(line)), pid) = -1
        BY <1>3, <1>7, <1>10, <1>15 DEF ClearLine
    <2>2. AnswerData(query, answer, pad) \in Seq(Int) /\ Len(AnswerData(query, answer, pad)) >= 3
        <3>1. LET sent == SendCANQuery(request)
              IN  /\ AnswerData(sent, <<>>, pad) \in Seq(Int)
                  /\ Len(AnswerData(sent, <<>>, pad)) >= 4
            <4>1. request.mode \in Bytes /\ request.pid \in Words /\ pad \in Int
                BY ONLY <1>3, <1>9
            <4> QED BY ONLY <4>1, RefusalIs
        <3>2. \A n \in Nat : n >= 4 => n >= 3
            OBVIOUS
        <3>3. Len(AnswerData(SendCANQuery(request), <<>>, pad)) \in Nat
            BY ONLY <3>1
        <3>4. Len(AnswerData(SendCANQuery(request), <<>>, pad)) >= 3
            BY ONLY <3>1, <3>2, <3>3
        <3> QED BY ONLY <1>3, <1>15, <3>1, <3>4
    <2>3. value = Error
        BY <1>3, <1>6, <1>8, <1>9, <1>13, <2>1, <2>2, RefusedLine
    <2> QED BY <1>14, <2>3 DEF Error
<1>16. ASSUME answer # <<>>, NumBytes(request.formula) <= Len(answer)
       PROVE  /\ value = Error \/ value.kind # "panic"
              /\ NumBytes(request.formula) = Len(answer) => value = Reference(answer, request.formula)
    <2>1. PICK found : found = IndexOf(SubSeq(line, 8, Len(line)), pid)
        OBVIOUS
    <2>2. found + 7 = IdLength(line) + 4
        BY <1>3, <1>7, <1>10, <1>16, <2>1 DEF ClearLine
    <2>3. found \in Int
        <3>1. AnswerData(query, answer, pad) \in Seq(Int)
            <4>1. LET data == Filled(Positive(SendCANQuery(request), answer), pad)
                  IN  data \in Seq(Int)
                <5>1. /\ request.mode \in Bytes /\ request.pid \in Words
                      /\ answer \in Seq(Int) /\ pad \in Int
                    BY ONLY <1>3, <1>4, <1>9
                <5> QED BY ONLY <5>1, AnswerBytes
            <4>2. AnswerData(query, answer, pad) = Filled(Positive(SendCANQuery(request), answer), pad)
                BY <1>3, <1>16 DEF AnswerData
            <4> QED BY ONLY <4>1, <4>2
        <3>2. line \in Seq(Int)
            BY <1>6, <1>9, <3>1, LineDigits
        <3>3. \A i \in 8 .. Len(line) : line[i] \in Int
            BY <3>2
        <3>4. Len(line) \in Int
            BY <3>2
        <3>5. SubSeq(line, 8, Len(line)) \in Seq(Int)
            BY ONLY <3>3, <3>4, SubSeqProperties
        <3> QED BY <1>8, <2>1, <3>5, IndexIsNumber
    <2> QED BY <1>3, <1>4, <1>6, <1>7, <1>9, <1>13, <1>16, <2>1, <2>2, <2>3, AnsweredLine
<1>17. \A v, f : Reference(v, f).kind = "error" => Reference(v, f) = Error
    BY DEF Reference, Scaled, Number
<1>18. Error.kind # "panic"
    BY DEF Error
<1> QED BY <1>2, <1>3, <1>4, <1>14, <1>15, <1>16, <1>17, <1>18

\* An AutoPi query answered with frames gives the number the data of the answer
\* stand for, whichever line it comes in, for every template and all data
\* (queryOBDWithAP, ExtractAndDecodeWithDBCFormula).
THEOREM AutoPiHolds == DecodingSpec => []AutoPiIsReference
<1>1. ExchangeInv => AutoPiIsReference
    <2> SUFFICES ASSUME ExchangeInv, phase = "autopi", RightLength,
                        \A k \in DOMAIN frames : ClearLine(k)
                 PROVE  result = Expected
        BY DEF AutoPiIsReference
    <2>1. CASE answer = <<>>
        BY <2>1, AutoPiResult DEF Expected
    <2>2. CASE answer # <<>>
        BY <2>2, AutoPiResult DEF Expected, RightLength
    <2> QED BY <2>1, <2>2
<1> QED BY <1>1, ExchangeHolds, PTL

\* Lines of which none is shorter than the first, and which begin with the same
\* digit, ...
Alike(lines) ==
    \E n \in Nat \ {0} :
        /\ DOMAIN lines = 1 .. n
        /\ \A k \in 1 .. n : Len(lines[k]) \in Nat /\ Len(lines[k]) >= Len(lines[1])
        /\ Len(lines[1]) >= 6 /\ \A k \in 1 .. n : lines[k][1] = lines[1][1]

\* ... begin to differ after their first and before the end of the first line.
LEMMA LineStartIs ==
    ASSUME NEW lines, NEW n \in Nat \ {0}, DOMAIN lines = 1 .. n,
           \A k \in 1 .. n : Len(lines[k]) \in Nat /\ Len(lines[k]) >= Len(lines[1]),
           Len(lines[1]) >= 6, \A k \in 1 .. n : lines[k][1] = lines[1][1]
    PROVE  findVINLineStart(lines) \in 0 .. Len(lines[1])
<1>1. PICK length \in Nat : length = Len(lines[1])
    OBVIOUS
<1>2. 1 \in 1 .. n /\ length >= 6
    BY <1>1
<1>3. Content(lines) = 1 .. n
    BY <1>1, <1>2 DEF Content
<1>4. FirstLine(lines) = lines[1]
    <2>1. Least(1 .. n) = 1
        <3>1. 1 .. n \subseteq Nat /\ 1 .. n # {}
            BY ONLY <1>2, n \in Nat
        <3>2. Least(1 .. n) \in 1 .. n /\ \A j \in 1 .. n : Least(1 .. n) <= j
            BY <3>1, MinIsLeast
        <3> QED BY <1>2, <3>2
    <2> QED BY <1>3, <2>1 DEF FirstLine
<1>5. ASSUME NEW i \in 0 .. length - 1 PROVE ComparedAt(lines, i) # "short"
    <2> DEFINE bad == {k \in Content(lines) :
                          Len(lines[k]) <= i \/ lines[k][i + 1] # FirstLine(lines)[i + 1]}
    <2>1. ComparedAt(lines, i) = IF bad = {} THEN "same"
                                 ELSE IF Len(lines[Least(bad)]) <= i THEN "short" ELSE "differs"
        BY DEF ComparedAt
    <2>2. bad \subseteq 1 .. n
        BY <1>3
    <2>3. ASSUME bad # {} PROVE ~ (Len(lines[Least(bad)]) <= i)
        <3>1. Least(bad) \in 1 .. n
            <4>1. bad \subseteq Nat
                BY <2>2
            <4> HIDE DEF bad
            <4> QED BY <2>2, <2>3, <4>1, MinIsLeast
        <3>2. Len(lines[Least(bad)]) \in Nat /\ Len(lines[Least(bad)]) >= length
            BY <1>1, <3>1
        <3> QED BY ONLY <3>2, length \in Nat, i \in 0 .. length - 1
    <2> HIDE DEF bad
    <2> QED BY <2>1, <2>3
<1>6. ComparedAt(lines, 0) = "same"
    <2>1. \A k \in 1 .. n : ~ (Len(lines[k]) <= 0) /\ lines[k][0 + 1] = FirstLine(lines)[0 + 1]
        BY <1>1, <1>2, <1>4
    <2>2. {k \in Content(lines) : Len(lines[k]) <= 0 \/ lines[k][0 + 1] # FirstLine(lines)[0 + 1]} = {}
        BY <1>3, <2>1
    <2> QED BY <2>2 DEF ComparedAt
<1> DEFINE ends == {i \in 0 .. length - 1 : \/ ComparedAt(lines, i) = "short"
                                            \/ ComparedAt(lines, i) = "differs" /\ i # 5}
<1>7. findVINLineStart(lines) = IF ends = {} THEN 4
                                ELSE IF ComparedAt(lines, Least(ends)) = "short" THEN -2
                                ELSE Least(ends) - 1
    <2>1. Content(lines) # {}
        BY <1>2, <1>3
    <2> QED BY <1>1, <1>4, <2>1 DEF findVINLineStart
<1>8. ends \subseteq 1 .. length - 1
    <2>1. \A i \in ends : i \in 0 .. length - 1 /\ i # 0
        BY <1>6
    <2> HIDE DEF ends
    <2> QED BY <2>1
<1> HIDE DEF ends
<1>9. ASSUME ends # {} PROVE Least(ends) \in 1 .. length - 1
    <2>1. ends \subseteq Nat
        BY <1>8
    <2> QED BY <1>8, <1>9, <2>1, MinIsLeast
<1>10. findVINLineStart(lines) \in 0 .. length
    <2>1. CASE ends = {}
        BY <1>2, <1>7, <2>1
    <2>2. CASE ends # {}
        <3>1. Least(ends) \in 1 .. length - 1 /\ Least(ends) \in 0 .. length - 1
            BY <1>9, <2>2
        <3>2. findVINLineStart(lines) = Least(ends) - 1
            BY <1>5, <1>7, <2>2, <3>1
        <3> QED BY <3>1, <3>2
    <2> QED BY <2>1, <2>2
<1> QED BY <1>1, <1>10

\* The lines of a VIN query have what this needs.
LEMMA VinLines ==
    ASSUME NEW q \in VinQueries, NEW vin \in VINs, NEW id \in Ids, NEW pad \in Pads
    PROVE  /\ Alike(VinAnswer(q, id, vin))
           /\ Alike(<<Line(id, Filled(<<3, 127, q.mode, 120>>, pad))>> \o VinAnswer(q, id, vin))
<1> SUFFICES ASSUME NEW lines \in {VinAnswer(q, id, vin),
                                   <<Line(id, Filled(<<3, 127, q.mode, 120>>, pad))>>
                                       \o VinAnswer(q, id, vin)}
             PROVE  \E n \in Nat \ {0} :
                        /\ DOMAIN lines = 1 .. n
                        /\ \A k \in 1 .. n : Len(lines[k]) \in Nat /\ Len(lines[k]) >= Len(lines[1])
                        /\ Len(lines[1]) >= 6 /\ \A k \in 1 .. n : lines[k][1] = lines[1][1]
    BY DEF Alike
<1>1. PICK start : start = Len(IdDigits(id)) /\ start \in {3, 8}
    BY IdDigitsAre
<1>2. PICK digit : digit = IdDigits(id)[1]
    OBVIOUS
<1>3. ASSUME NEW data \in Seq(Int)
      PROVE  /\ Line(id, data) \in Seq(Int) /\ Len(Line(id, data)) = start + 2 * Len(data)
             /\ Line(id, data)[1] = digit
    <2>1. 1 \in 1 .. start
        BY <1>1
    <2>2. /\ Line(id, data) \in Seq(Int) /\ IdLength(Line(id, data)) = Len(IdDigits(id))
          /\ Len(Line(id, data)) = IdLength(Line(id, data)) + 2 * Len(data)
          /\ \A i \in 1 .. IdLength(Line(id, data)) : Line(id, data)[i] = IdDigits(id)[i]
        BY ONLY LineDigits, id \in Ids, data \in Seq(Int)
    <2> QED BY ONLY <1>1, <1>2, <2>1, <2>2
<1>4. vin \in Seq(Int) /\ Len(vin) = 17 /\ q.mode \in Int
    BY DecodingAssumption, BytesAreNumbers, BytesAre DEF DecodingAssumption
<1>5. PICK bytes \in Seq(Int) :
          /\ Len(bytes) = 20 /\ VinAnswer(q, id, vin) = [k \in 1 .. 3 |-> Line(id, Segments(bytes)[k])]
    <2>1. ASSUME NEW head \in {<<73, 2, 1>>, <<98, 241, 144>>}
          PROVE  head \o vin \in Seq(Int) /\ Len(head \o vin) = 20
        <3>1. head \in Seq(Int) /\ Len(head) = 3
            <4>1. CASE head = <<73, 2, 1>>
                BY ONLY <4>1
            <4>2. CASE head = <<98, 241, 144>>
                BY ONLY <4>2
            <4> QED BY ONLY <4>1, <4>2, head \in {<<73, 2, 1>>, <<98, 241, 144>>}
        <3>2. head \o vin \in Seq(Int) /\ Len(head \o vin) = Len(head) + Len(vin)
            BY ONLY <1>4, <3>1, Joined
        <3> QED BY ONLY <1>4, <3>1, <3>2
    <2>2. PICK head \in {<<73, 2, 1>>, <<98, 241, 144>>} :
              VinAnswer(q, id, vin) = [k \in 1 .. 3 |-> Line(id, Segments(head \o vin)[k])]
        BY DEF VinAnswer
    <2> QED BY <2>1, <2>2
<1>6. ASSUME NEW k \in 1 .. 3 PROVE Segments(bytes)[k] \in Seq(Int) /\ Len(Segments(bytes)[k]) = 8
    <2>1. ASSUME NEW m \in 1 .. 20, NEW n \in m .. 20
          PROVE  SubSeq(bytes, m, n) \in Seq(Int) /\ Len(SubSeq(bytes, m, n)) = n - m + 1
        <3>1. \A i \in m .. n : bytes[i] \in Int
            <4>1. \A i \in m .. n : i \in 1 .. Len(bytes)
                BY <1>5
            <4> QED BY <4>1
        <3> QED BY <3>1, SubSeqProperties
    <2>2. /\ <<16, 20>> \in Seq(Int) /\ Len(<<16, 20>>) = 2
          /\ <<33>> \in Seq(Int) /\ Len(<<33>>) = 1 /\ <<34>> \in Seq(Int) /\ Len(<<34>>) = 1
        OBVIOUS
    <2>3. CASE k = 1
        <3>1. SubSeq(bytes, 1, 6) \in Seq(Int) /\ Len(SubSeq(bytes, 1, 6)) = 6
            BY <2>1
        <3>2. /\ <<16, 20>> \o SubSeq(bytes, 1, 6) \in Seq(Int)
              /\ Len(<<16, 20>> \o SubSeq(bytes, 1, 6)) = 8
            BY ONLY <2>2, <3>1, Joined
        <3> QED BY <2>3, <3>2 DEF Segments
    <2>4. CASE k = 2
        <3>1. SubSeq(bytes, 7, 13) \in Seq(Int) /\ Len(SubSeq(bytes, 7, 13)) = 7
            BY <2>1
        <3>2. <<33>> \o SubSeq(bytes, 7, 13) \in Seq(Int) /\ Len(<<33>> \o SubSeq(bytes, 7, 13)) = 8
            BY ONLY <2>2, <3>1, Joined
        <3> QED BY <2>4, <3>2 DEF Segments
    <2>5. CASE k = 3
        <3>1. SubSeq(bytes, 14, 20) \in Seq(Int) /\ Len(SubSeq(bytes, 14, 20)) = 7
            BY <2>1
        <3>2. <<34>> \o SubSeq(bytes, 14, 20) \in Seq(Int) /\ Len(<<34>> \o SubSeq(bytes, 14, 20)) = 8
            BY ONLY <2>2, <3>1, Joined
        <3> QED BY <2>5, <3>2 DEF Segments
    <2> QED BY <2>3, <2>4, <2>5
<1>7. PICK answers : answers = VinAnswer(q, id, vin)
    OBVIOUS
<1>8. /\ answers = [k \in 1 .. 3 |-> answers[k]]
      /\ \A k \in 1 .. 3 : /\ answers[k] \in Seq(Int) /\ answers[k][1] = digit
                           /\ Len(answers[k]) = start + 16
    <2>1. answers = [k \in 1 .. 3 |-> Line(id, Segments(bytes)[k])]
        BY <1>5, <1>7
    <2>2. ASSUME NEW k \in 1 .. 3
          PROVE  /\ answers[k] = Line(id, Segments(bytes)[k])
                 /\ answers[k] \in Seq(Int) /\ answers[k][1] = digit
                 /\ Len(answers[k]) = start + 16
        <3>1. answers[k] = Line(id, Segments(bytes)[k])
            BY <2>1
        <3>2. PICK data \in Seq(Int) : data = Segments(bytes)[k] /\ Len(data) = 8
            BY <1>6
        <3>3. /\ Line(id, data) \in Seq(Int) /\ Line(id, data)[1] = digit
              /\ Len(Line(id, data)) = start + 2 * Len(data)
            BY ONLY <1>3, data \in Seq(Int)
        <3>4. Len(Line(id, data)) = start + 16
            BY ONLY <1>1, <3>2, <3>3
        <3> QED BY ONLY <3>1, <3>2, <3>3, <3>4
    <2> QED BY <2>1, <2>2
<1>9. start + 16 \in Nat /\ start + 16 >= 6
    BY ONLY <1>1
<1>10. CASE lines = answers
    <2>1. DOMAIN lines = 1 .. 3
        BY <1>8, <1>10
    <2>2. 1 \in 1 .. 3
        OBVIOUS
    <2>3. Len(lines[1]) = start + 16 /\ lines[1][1] = digit
        BY ONLY <1>8, <1>10, <2>2
    <2>4. \A k \in 1 .. 3 : /\ Len(lines[k]) \in Nat /\ Len(lines[k]) >= Len(lines[1])
                            /\ lines[k][1] = lines[1][1]
        <3>1. \A k \in 1 .. 3 : Len(lines[k]) = start + 16 /\ lines[k][1] = digit
            BY ONLY <1>8, <1>10
        <3>2. start + 16 >= start + 16
            BY ONLY <1>9
        <3> QED BY ONLY <1>9, <2>3, <3>1, <3>2
    <2> QED BY ONLY <1>9, <2>1, <2>3, <2>4, 3 \in Nat \ {0}
<1>11. CASE lines = <<Line(id, Filled(<<3, 127, q.mode, 120>>, pad))>> \o answers
    <2>1. PICK refused : refused = Line(id, Filled(<<3, 127, q.mode, 120>>, pad))
        OBVIOUS
    <2>2. /\ refused \in Seq(Int) /\ refused[1] = digit
          /\ Len(refused) \in Nat /\ Len(refused) >= 6 /\ Len(refused) <= start + 16
        <3>1. PICK data : data = Filled(<<3, 127, q.mode, 120>>, pad)
            OBVIOUS
        <3>2. pad \in Int
            BY DecodingAssumption, BytesAre DEF DecodingAssumption
        <3>3. data \in Seq(Int) /\ Len(data) >= 4 /\ Len(data) <= 8
            <4>1. /\ <<3, 127, q.mode, 120>> \in Seq(Int) /\ Len(<<3, 127, q.mode, 120>>) = 4
                BY <1>4
            <4>2. /\ data \in Seq(Int) /\ Len(data) >= Len(<<3, 127, q.mode, 120>>)
                  /\ Len(<<3, 127, q.mode, 120>>) <= 8 => Len(data) <= 8
                BY ONLY <3>1, <3>2, <4>1, FilledBytes
            <4> QED BY ONLY <4>1, <4>2
        <3>4. refused \in Seq(Int) /\ refused[1] = digit /\ Len(refused) = start + 2 * Len(data)
            BY <1>3, <2>1, <3>1, <3>3
        <3>5. Len(data) \in Nat
            BY <3>3
        <3>6. Len(refused) \in Nat /\ Len(refused) >= 6 /\ Len(refused) <= start + 16
            <4>1. start \in Nat /\ start >= 3
                BY ONLY <1>1
            <4>2. Len(refused) = start + 2 * Len(data) /\ Len(data) >= 4 /\ Len(data) <= 8
                BY <3>3, <3>4
            <4> QED BY ONLY <3>5, <4>1, <4>2
        <3> QED BY <3>4, <3>6
    <2>3. /\ lines \in Seq(Seq(Int)) /\ Len(lines) = 4 /\ lines[1] = refused
          /\ \A k \in 1 .. 3 : lines[1 + k] = answers[k]
        <3>1. <<refused>> \in Seq(Seq(Int)) /\ Len(<<refused>>) = 1 /\ <<refused>>[1] = refused
            BY <2>2
        <3>2. answers \in Seq(Seq(Int)) /\ Len(answers) = 3
            BY <1>8
        <3>3. lines = <<refused>> \o answers
            BY <1>11, <2>1
        <3>4. /\ lines \in Seq(Seq(Int)) /\ Len(lines) = Len(<<refused>>) + Len(answers)
              /\ \A i \in 1 .. Len(<<refused>>) + Len(answers) :
                     lines[i] = IF i <= Len(<<refused>>) THEN <<refused>>[i]
                                ELSE answers[i - Len(<<refused>>)]
            BY <3>1, <3>2, <3>3, ConcatProperties
        <3>5. /\ Len(lines) = 4
              /\ \A i \in 1 .. 4 : lines[i] = IF i <= 1 THEN <<refused>>[i] ELSE answers[i - 1]
            BY ONLY <3>1, <3>2, <3>4
        <3>6. lines[1] = refused
            BY <3>1, <3>5
        <3>7. ASSUME NEW k \in 1 .. 3 PROVE lines[1 + k] = answers[k]
            <4>1. 1 + k \in 1 .. 4 /\ ~ (1 + k <= 1) /\ 1 + k - 1 = k
                OBVIOUS
            <4> QED BY ONLY <3>5, <4>1
        <3> QED BY <3>4, <3>5, <3>6, <3>7
    <2>4. ASSUME NEW k \in 1 .. 4
          PROVE  Len(lines[k]) \in Nat /\ Len(lines[k]) >= Len(refused) /\ lines[k][1] = digit
        <3>1. CASE k = 1
            BY <2>2, <2>3, <3>1
        <3>2. CASE k # 1
            <4>1. k - 1 \in 1 .. 3 /\ k = 1 + (k - 1)
                BY <3>2
            <4>2. lines[k] = answers[k - 1]
                BY ONLY <2>3, <4>1
            <4>3. Len(lines[k]) = start + 16 /\ lines[k][1] = digit
                BY ONLY <1>8, <4>1, <4>2
            <4> QED BY ONLY <1>9, <2>2, <4>3
        <3> QED BY <3>1, <3>2
    <2>5. DOMAIN lines = 1 .. 4
        BY <2>3
    <2>6. \A k \in 1 .. 4 : /\ Len(lines[k]) \in Nat /\ Len(lines[k]) >= Len(lines[1])
                            /\ lines[k][1] = lines[1][1]
        BY <2>2, <2>3, <2>4
    <2> QED BY <2>2, <2>3, <2>5, <2>6, 4 \in Nat \ {0}
<1> QED BY <1>7, <1>10, <1>11

\* A frame that passes a filter of another identifier: one of 11 bits, or one
\* with more than 29.
LEMMA PassedBy ==
    ASSUME NEW id \in Ids, id[1] < 8192, NEW h \in Ids, h # id, Masked(id, h) = Masked(h, h)
    PROVE  h[1] > 8191 \/ (~ Extended(h) /\ h[2] % 2048 = id[2] % 2048)
<1>1. /\ id = <<id[1], id[2]>> /\ id[1] \in Nat /\ h = <<h[1], h[2]>> /\ h[1] \in Nat
    BY IdsAre, WordsAre
<1>2. CASE ~ Extended(h)
    <2>1. <<0, id[2] % 2048>> = <<0, h[2] % 2048>>
        BY <1>2 DEF Masked
    <2> QED BY <1>2, <2>1
<1>3. CASE Extended(h) /\ ~ (h[1] > 8191)
    <2>1. <<id[1] % 8192, id[2]>> = <<h[1] % 8192, h[2]>>
        BY <1>3 DEF Masked
    <2>2. id[1] % 8192 = h[1] % 8192 /\ id[2] = h[2]
        BY ONLY <2>1
    <2>3. id[1] % 8192 = id[1] /\ h[1] % 8192 = h[1]
        <3>1. \A n \in Nat : n < 8192 => n % 8192 = n
            OBVIOUS
        <3>2. h[1] < 8192
            BY ONLY <1>1, <1>3
        <3> QED BY ONLY <1>1, <3>1, <3>2, id[1] < 8192
    <2> QED BY ONLY <1>1, <2>2, <2>3, h # id
<1> QED BY <1>2, <1>3

\* The lines that answer a VIN query never end the process.
LEMMA VinNeverPanics ==
    ASSUME ExchangeInv, phase = "vin"
    PROVE  result.kind # "panic"
<1>1. PICK q \in VinQueries, vin \in VINs, id \in Ids, pad \in Pads :
          frames \in {VinAnswer(q, id, vin),
                      <<Line(id, Filled(<<3, 127, q.mode, 120>>, pad))>> \o VinAnswer(q, id, vin)}
    <2>1. answer \in VINs
        BY DEF ExchangeInv, VinHeard
    <2> QED BY <2>1 DEF ExchangeInv, VinHeard
<1>2. PICK n \in Nat \ {0} :
          /\ DOMAIN frames = 1 .. n
          /\ \A k \in 1 .. n : Len(frames[k]) \in Nat /\ Len(frames[k]) >= Len(frames[1])
          /\ Len(frames[1]) >= 6 /\ \A k \in 1 .. n : frames[k][1] = frames[1][1]
    <2>1. frames = VinAnswer(q, id, vin) => Alike(frames)
        BY ONLY VinLines, q \in VinQueries, vin \in VINs, id \in Ids, pad \in Pads
    <2>2. frames = <<Line(id, Filled(<<3, 127, q.mode, 120>>, pad))>> \o VinAnswer(q, id, vin)
              => Alike(frames)
        BY ONLY VinLines, q \in VinQueries, vin \in VINs, id \in Ids, pad \in Pads
    <2>3. Alike(frames)
        BY ONLY <1>1, <2>1, <2>2
    <2> QED BY ONLY <2>3 DEF Alike
<1>3. PICK start : start = findVINLineStart(frames) /\ start \in 0 .. Len(frames[1])
    BY <1>2, LineStartIs
<1>4. ~ (start < 0 \/ \E k \in DOMAIN frames : Len(frames[k]) >= 6 /\ start > Len(frames[k]))
    <2>1. 1 \in 1 .. n
        BY ONLY n \in Nat \ {0}
    <2>2. Len(frames[1]) \in Nat /\ start \in Int /\ start >= 0 /\ start <= Len(frames[1])
        BY ONLY <1>2, <1>3, <2>1
    <2>3. ASSUME NEW k \in 1 .. n PROVE ~ (start > Len(frames[k]))
        BY ONLY <1>2, <2>2, k \in 1 .. n
    <2> QED BY ONLY <1>2, <2>2, <2>3
<1>5. result = extractVIN(frames)
    BY DEF ExchangeInv, VinHeard
<1>6. \E vin2 : extractVIN(frames) \in {[kind |-> "vin", vin |-> vin2], NoVIN}
    BY <1>3, <1>4 DEF extractVIN
<1> QED BY <1>5, <1>6 DEF NoVIN

\* The process ends in the four known cases only, for every template, frame,
\* answer and VIN (matchPID, buildCanFilters with findFilter,
\* ExtractAndDecodeWithDBCFormula, GetVIN); the lines that answer a VIN query
\* never end it, a number does.
THEOREM PanicsHolds == DecodingSpec => []PanicsKnown
<1>1. ASSUME ExchangeInv, result.kind = "panic"
      PROVE  \/ /\ phase = "onBus" /\ read.id \in RespHeaders(setup)
                /\ Len(read.data) < 3
             \/ /\ phase = "onBus"
                /\ \E h \in Filters(setup) :
                      h # read.id /\ (h[1] > 8191 \/ (~Extended(h) /\ h[2] % 2048 = read.id[2] % 2048))
             \/ /\ phase = "autopi"
                /\ Len(answer) < NumBytes(Asked.formula) \/ \E k \in DOMAIN frames : ~ClearLine(k)
             \/ phase = "number" /\ asked = 0
    <2>1. /\ Error.kind # "panic" /\ phase \in {"idle", "asked", "onBus", "autopi", "vin", "number"}
          /\ phase \in {"idle", "asked"} => result = Error /\ setup \in Setups
        BY <1>1 DEF ExchangeInv, Begun, Error
    <2>2. setup \in Setups
        BY <1>1 DEF ExchangeInv, Begun
    <2>3. CASE phase = "onBus"
        <3>1. frames = <<>> /\ Received(setup, read.id) /\ Panics(setup, read)
            BY <1>1, <2>1, <2>3 DEF ExchangeInv, FrameRead
        <3>2. CASE read.id \in RespHeaders(setup)
            BY <2>2, <2>3, <3>1, <3>2, MatchIs DEF Panics
        <3>3. CASE read.id \notin RespHeaders(setup)
            <4>1. PICK h \in Filters(setup) : Masked(read.id, h) = Masked(h, h)
                BY <3>1 DEF Received
            <4>2. h \in Ids
                BY <2>2, FiltersAre
            <4>3. h # read.id
                <5>1. findFilter(setup, read.id) = 0
                    BY <3>1, <3>3 DEF Panics
                <5>2. \A k \in DOMAIN parseDBCHeaders(setup.file) :
                          parseDBCHeaders(setup.file)[k].header # read.id
                    BY <2>2, <5>1, FilterIs
                <5> QED BY <3>3, <5>2 DEF Filters
            <4>4. read.id \in Ids /\ read.id[1] < 8192
                <5>1. IF asked = 0 THEN read \in Broadcasts ELSE AnswerFrame(read)
                    <6>1. PICK f : /\ frames = <<f>> \/ (frames = <<>> /\ read = f)
                                   /\ IF asked = 0 THEN f \in Broadcasts ELSE AnswerFrame(f)
                        BY <1>1, <2>3 DEF ExchangeInv, FrameOnBus
                    <6>2. read = f
                        BY <3>1, <6>1
                    <6> QED BY <6>1, <6>2
                <5>2. CASE asked = 0
                    BY <5>1, <5>2, DecodingAssumption DEF DecodingAssumption
                <5>3. CASE asked # 0
                    <6>1. /\ Asked.header \in Ids /\ asked \in DOMAIN setup.pids
                          /\ read.id \in AnswerIdOf(Asked)
                        BY <1>1, <5>1, <5>3, AskedIs DEF ExchangeInv, AnswerFrame
                    <6>2. Asked.pair \notin Ids
                        <7>1. ASSUME Asked.pair \in Ids PROVE read.id = ResponseHeader(Asked)
                            BY <6>1, <7>1, IdsAre DEF AnswerIdOf, ResponseHeader
                        <7>2. ResponseHeader(Asked) \in RespHeaders(setup)
                            BY <6>1 DEF RespHeaders, Asked
                        <7> QED BY <3>3, <7>1, <7>2
                    <6>3. read.id \in AnswerIds(Asked.header)
                        BY <6>1, <6>2 DEF AnswerIdOf
                    <6> QED BY <6>1, <6>3, AnswerIdsAre
                <5> QED BY <5>2, <5>3
            <4> QED BY <2>3, <4>1, <4>2, <4>3, <4>4, PassedBy
        <3> QED BY <3>2, <3>3
    <2>4. CASE phase = "autopi"
        <3> SUFFICES ASSUME \A k \in DOMAIN frames : ClearLine(k),
                            ~ (Len(answer) < NumBytes(Asked.formula))
                     PROVE  FALSE
            BY <2>4
        <3>1. /\ answer \in Seq(Int) /\ NumBytes(Asked.formula) \in Nat
              /\ answer = <<>> => result = Error
              /\ answer # <<>> /\ NumBytes(Asked.formula) <= Len(answer) => result.kind # "panic"
            BY <1>1, <2>4, AutoPiResult
        <3>2. NumBytes(Asked.formula) <= Len(answer)
            BY <3>1
        <3> QED BY <1>1, <2>1, <3>1, <3>2
    <2>5. CASE phase = "vin"
        BY <1>1, <2>5, VinNeverPanics
    <2>6. CASE phase = "number"
        BY <1>1, <2>6 DEF ExchangeInv, NumberHeard
    <2> QED BY <1>1, <2>1, <2>3, <2>4, <2>5, <2>6
<1>2. ExchangeInv => PanicsKnown
    BY <1>1 DEF PanicsKnown
<1> QED BY <1>2, ExchangeHolds, PTL

-----------------------------------------------------------------------------
\* A byte that is not among the first n is found after them.
LEMMA FoundAfter ==
    ASSUME NEW s \in Seq(Int), NEW b, NEW n \in 0 .. Len(s) - 1, s[n + 1] = b,
           IndexOf(SubSeq(s, 1, n), <<b>>) = -1
    PROVE  IndexOf(s, <<b>>) = n
<1>1. Len(<<b>>) = 1 /\ Len(s) \in Nat /\ n \in Nat
    OBVIOUS
<1>2. PICK part : part = SubSeq(s, 1, n)
    OBVIOUS
<1>3. part \in Seq(Int) /\ Len(part) = n /\ \A i \in 1 .. n : part[i] = s[i]
    <2>1. \A i \in 1 .. n : s[i] \in Int
        OBVIOUS
    <2>2. /\ part \in Seq(Int) /\ Len(part) = IF 1 <= n THEN n - 1 + 1 ELSE 0
          /\ \A i \in 1 .. n - 1 + 1 : part[i] = s[1 + i - 1]
        BY ONLY <1>1, <1>2, <2>1, SubSeqProperties, 1 \in Int
    <2>3. n - 1 + 1 = n /\ (IF 1 <= n THEN n ELSE 0) = n /\ \A i \in 1 .. n : 1 + i - 1 = i
        BY ONLY <1>1
    <2> QED BY ONLY <2>2, <2>3
<1>4. ASSUME NEW j \in 0 .. n - 1 PROVE SubSeq(s, j + 1, j + Len(<<b>>)) # <<b>>
    <2>1. SubSeq(part, j + 1, j + Len(<<b>>)) # <<b>>
        <3>1. \A i \in 0 .. Len(part) - Len(<<b>>) : SubSeq(part, i + 1, i + Len(<<b>>)) # <<b>>
            BY <1>1, <1>2, <1>3, IndexNone
        <3> QED BY <1>1, <1>3, <3>1
    <2>2. part[j + 1] # b
        BY <1>3, <2>1, ByteAt
    <2>3. s[j + 1] # b
        <3>1. j + 1 \in 1 .. n
            BY <1>1
        <3> QED BY <1>3, <2>2, <3>1
    <2>4. j \in 0 .. Len(s) - 1
        BY <1>1
    <2> QED BY <2>3, <2>4, ByteAt
<1>5. SubSeq(s, n + 1, n + Len(<<b>>)) = <<b>>
    BY ByteAt
<1>6. n \in 0 .. Len(s) - Len(<<b>>)
    BY <1>1
<1>7. PICK one : one = <<b>>
    OBVIOUS
<1>8. /\ Len(s) \in Nat /\ Len(one) \in Nat /\ n \in 0 .. Len(s) - Len(one)
      /\ SubSeq(s, n + 1, n + Len(one)) = one
      /\ \A j \in 0 .. n - 1 : SubSeq(s, j + 1, j + Len(one)) # one
    BY ONLY <1>1, <1>4, <1>5, <1>6, <1>7
<1>9. IndexOf(s, one) = n
    BY ONLY <1>8, IndexIs
<1> QED BY <1>7, <1>9

\* The answer to a request is claimed by it, and its data are decoded, when the
\* last byte of the PID is found at its place.
LEMMA AnswerIsDecoded ==
    ASSUME NEW request, request.mode \in Bytes, request.pid \in Words,
           request.pid \notin {0, 255}, NumBytes(request.formula) \in Nat,
           NEW d \in Seq(Int), d # <<>>, NEW pad \in Int, Len(d) = NumBytes(request.formula),
           NEW frame, frame.data = AnswerData(SendCANQuery(request), d, pad),
           frame.id = ResponseHeader(request),
           IndexOf(SubSeq(frame.data, 1, 1 + Len(UintToHex(request.pid))),
                   <<request.pid % 256>>) = -1
    PROVE  /\ Claims(request, frame)
           /\ ParsePIDBytesWithDBCFormula(frame.data, request.pid, request.formula)
                  = Reference(d, request.formula)
<1>1. PICK data, bytes, pid : /\ data = frame.data /\ bytes = UintToHex(request.pid)
                              /\ pid = request.pid
    OBVIOUS
<1>2. /\ data \in Seq(Int) /\ Len(data) >= 2 + Len(bytes) + Len(d)
      /\ \A i \in 1 .. Len(bytes) : data[2 + i] = bytes[i]
      /\ \A i \in 1 .. Len(d) : data[2 + Len(bytes) + i] = d[i]
    <2>1. data = Filled(Positive(SendCANQuery(request), d), pad)
        BY <1>1 DEF AnswerData
    <2>2. LET whole == Filled(Positive(SendCANQuery(request), d), pad)
              part  == UintToHex(request.pid)
          IN  /\ whole \in Seq(Int) /\ Len(whole) >= 2 + Len(part) + Len(d)
              /\ \A i \in 1 .. Len(part) : whole[2 + i] = part[i]
              /\ \A i \in 1 .. Len(d) : whole[2 + Len(part) + i] = d[i]
        BY ONLY AnswerBytes, request.mode \in Bytes, request.pid \in Words,
                d \in Seq(Int), pad \in Int
    <2> QED BY ONLY <1>1, <2>1, <2>2
<1>3. /\ bytes \in Seq(Int) /\ Len(bytes) \in Nat
      /\ Len(bytes) = IF pid > 255 THEN 2 ELSE 1
      /\ bytes[Len(bytes)] = pid % 256
      /\ pid > 255 => bytes[1] = pid \div 256
      /\ pid <= 255 => pid % 256 = pid
      /\ pid = (pid \div 256) * 256 + (pid % 256)
      /\ pid \in Nat /\ pid # 0 /\ pid # 255
    <2>1. pid \in Words /\ pid # 0 /\ pid # 255
        BY <1>1
    <2>2. LET part == UintToHex(pid)
          IN  /\ part \in Seq(Int)
              /\ Len(part) = IF pid > 255 THEN 2 ELSE 1
              /\ part[Len(part)] = pid % 256
              /\ pid > 255 => part[1] = pid \div 256
              /\ pid <= 255 => pid % 256 = pid
              /\ pid = (pid \div 256) * 256 + (pid % 256)
        BY ONLY <2>1, PidBytes
    <2>3. pid \in Nat
        BY ONLY <2>1, WordsAre
    <2>4. bytes = UintToHex(pid)
        BY ONLY <1>1
    <2>5. bytes \in Seq(Int) /\ Len(bytes) \in Nat
        BY ONLY <2>2, <2>4
    <2> QED BY ONLY <2>1, <2>2, <2>3, <2>4, <2>5
<1>4. Len(d) \in Nat /\ Len(d) >= 1 /\ Len(data) \in Nat
    BY <1>2
<1>5. Claims(request, frame)
    <2>1. CASE pid > 255
        <3>1. Len(bytes) = 2 /\ bytes[1] = pid \div 256 /\ bytes[2] = pid % 256
            BY ONLY <1>3, <2>1
        <3>2. data[3] = pid \div 256 /\ data[4] = pid % 256 /\ Len(data) >= 5
            <4>1. 1 \in 1 .. 2 /\ 2 \in 1 .. 2 /\ 2 + 1 = 3 /\ 2 + 2 = 4
                OBVIOUS
            <4>2. data[3] = bytes[1] /\ data[4] = bytes[2]
                BY ONLY <1>2, <3>1, <4>1
            <4>3. Len(data) >= 5
                BY ONLY <1>2, <1>4, <3>1
            <4> QED BY <3>1, <4>2, <4>3
        <3>3. BigEndian(SubSeq(data, 3, 3 + 1), 256) = pid
            <4>1. PICK pair : pair = SubSeq(data, 3, 4)
                OBVIOUS
            <4>2. \A i \in 3 .. 4 : data[i] \in Int
                <5>1. \A i \in 3 .. 4 : i \in 1 .. Len(data)
                    BY ONLY <1>4, <3>2
                <5> QED BY ONLY <1>2, <5>1
            <4>3. /\ pair \in Seq(Int) /\ Len(pair) = IF 3 <= 4 THEN 4 - 3 + 1 ELSE 0
                  /\ \A i \in 1 .. 4 - 3 + 1 : pair[i] = data[3 + i - 1]
                BY ONLY <4>1, <4>2, SubSeqProperties, 3 \in Int, 4 \in Int
            <4>4. /\ 4 - 3 + 1 = 2 /\ 1 \in 1 .. 2 /\ 2 \in 1 .. 2 /\ 3 + 1 - 1 = 3 /\ 3 + 2 - 1 = 4
                OBVIOUS
            <4>5. Len(pair) = 2 /\ pair[1] = data[3] /\ pair[2] = data[4]
                BY ONLY <4>3, <4>4
            <4>6. BigEndian(pair, 256) = pair[1] * 256 + pair[2]
                <5>1. pair[1] \in Int /\ pair[2] \in Int
                    BY <4>2, <4>5
                <5> QED BY ONLY <4>5, <5>1, ValueOfPair
            <4>7. BigEndian(pair, 256) = pid
                BY ONLY <1>3, <3>2, <4>5, <4>6
            <4> QED BY <4>1, <4>7
        <3>4. 3 \in 1 .. Len(frame.data) - 2
            BY <1>1, <1>4, <3>2
        <3>5. ~ Standard(request)
            <4>1. ~ (pid > 0 /\ pid < 255)
                BY ONLY <1>3, <2>1
            <4> QED BY ONLY <1>1, <4>1 DEF Standard
        <3> QED BY <1>1, <3>3, <3>4, <3>5 DEF Claims
    <2>2. CASE ~ (pid > 255)
        <3>1. Len(bytes) = 1 /\ bytes[1] = pid
            BY ONLY <1>3, <2>2
        <3>2. data[3] = pid
            <4>1. 1 \in 1 .. 1 /\ 2 + 1 = 3
                OBVIOUS
            <4> QED BY ONLY <1>2, <3>1, <4>1
        <3>3. Standard(request)
            <4>1. pid > 0 /\ pid < 255
                BY ONLY <1>3, <2>2
            <4> QED BY ONLY <1>1, <4>1 DEF Standard
        <3> QED BY <1>1, <3>2, <3>3 DEF Claims
    <2> QED BY <2>1, <2>2
<1>6. PICK at : at = 1 + Len(bytes)
    OBVIOUS
<1>7. at \in Nat /\ at >= 2 /\ at + 1 + Len(d) <= Len(data) /\ at \in 0 .. Len(data) - 1
    <2>1. Len(bytes) >= 1
        BY ONLY <1>3
    <2> QED BY ONLY <1>2, <1>3, <1>4, <1>6, <2>1
<1>8. IndexOf(data, <<pid % 256>>) = at
    <2>1. data[at + 1] = pid % 256
        <3>1. Len(bytes) \in 1 .. Len(bytes) /\ at + 1 = 2 + Len(bytes)
            BY ONLY <1>3, <1>6
        <3> QED BY ONLY <1>2, <1>3, <3>1
    <2>2. IndexOf(SubSeq(data, 1, at), <<pid % 256>>) = -1
        BY <1>1, <1>6
    <2> QED BY ONLY <1>2, <1>7, <2>1, <2>2, FoundAfter
<1>9. SubSeq(data, at + 2, at + 1 + Len(d)) = d
    <2>1. PICK part, first, last : /\ first = at + 2 /\ last = at + 1 + Len(d)
                                   /\ part = SubSeq(data, first, last)
        OBVIOUS
    <2>2. /\ first \in Int /\ last \in Int /\ first >= 1 /\ last <= Len(data)
          /\ first <= last /\ last - first + 1 = Len(d)
          /\ \A i \in 1 .. Len(d) : first + i - 1 = 2 + Len(bytes) + i
        BY ONLY <1>3, <1>4, <1>6, <1>7, <2>1
    <2>3. \A i \in first .. last : data[i] \in Int
        <3>1. \A i \in first .. last : i \in 1 .. Len(data)
            BY ONLY <1>4, <2>2
        <3> QED BY ONLY <1>2, <3>1
    <2>4. /\ part \in Seq(Int) /\ Len(part) = IF first <= last THEN last - first + 1 ELSE 0
          /\ \A i \in 1 .. last - first + 1 : part[i] = data[first + i - 1]
        BY ONLY <2>1, <2>2, <2>3, SubSeqProperties
    <2>5. /\ Len(part) = Len(d) /\ \A i \in 1 .. Len(d) : part[i] = d[i]
        BY ONLY <1>2, <2>2, <2>4
    <2>6. part = d
        BY ONLY <2>4, <2>5, SeqEqual, d \in Seq(Int)
    <2> QED BY ONLY <2>1, <2>6
<1>10. PICK count \in Nat : count = NumBytes(request.formula) /\ count = Len(d)
    OBVIOUS
<1>11. ~ (at + 1 + count > Len(data)) /\ ~ (at <= 0) /\ at + 1 # at + 1 + count
    BY ONLY <1>4, <1>7, <1>10
<1>12. ParsePIDBytesWithDBCFormula(data, pid, request.formula)
           = Scaled(BigEndian(SubSeq(data, at + 2, at + 1 + count), 256), request.formula)
    BY <1>3, <1>8, <1>10, <1>11 DEF ParsePIDBytesWithDBCFormula
<1>13. ParsePIDBytesWithDBCFormula(data, pid, request.formula) = Reference(d, request.formula)
    BY <1>9, <1>10, <1>12 DEF Reference
<1> QED BY <1>1, <1>5, <1>13

\* What the listener pushes for the answer to a request, and for a refusal.
LEMMA AnswerIsPushed ==
    ASSUME ExchangeInv, phase = "onBus", asked # 0, frames = <<>>, Addressed, RightLength,
           matchPID(setup, read) \in {0, asked},
           IndexOf(BytesBefore, <<Asked.pid % 256>>) = -1
    PROVE  pushed = IF Expected.kind = "error" THEN <<>>
                    ELSE <<[name |-> Asked.name, value |-> Expected.value]>>
<1>1. /\ asked \in DOMAIN setup.pids /\ setup \in Setups
      /\ Asked.header \in Ids /\ Asked.pair \in Ids \cup {NoId}
      /\ Asked.header \in {Functional29, <<0, 4095>>} => Asked.pair # NoId
      /\ Asked.mode \in Bytes /\ Asked.pid \in Words /\ NumBytes(Asked.formula) \in Nat
      /\ query = SendCANQuery(Asked) /\ PidOf(query) = UintToHex(Asked.pid)
      /\ Pads \subseteq Int /\ Data \subseteq Seq(Int) /\ Asked.pid \notin {0, 255}
    <2>1. Begun /\ asked # 0
        BY DEF ExchangeInv
    <2> QED BY <2>1, AskedIs DEF Addressed
<1>2. AnswerFrame(read)
    BY DEF ExchangeInv, FrameOnBus
<1>3. read.id = ResponseHeader(Asked) /\ read.id \in RespHeaders(setup)
    <2>1. read.id \in AnswerIdOf(Asked)
        BY <1>2 DEF AnswerFrame
    <2>2. read.id = ResponseHeader(Asked)
        BY ONLY <1>1, <2>1, ResponseHeaderAnswers
    <2> QED BY <1>1, <2>2 DEF RespHeaders, Asked
<1>4. Received(setup, read.id)
    BY <1>3 DEF Received, Filters
<1>5. asked \in Nat /\ asked # 0
    BY <1>1, DecodingAssumption DEF DecodingAssumption
<1>6. pushed = PushedFor(setup, read)
    <2>1. ~ Panics(setup, read)
        <3>1. matchPID(setup, read) # -1
            BY ONLY <1>5, matchPID(setup, read) \in {0, asked}
        <3> QED BY <1>3, <3>1 DEF Panics
    <2> QED BY <1>3, <1>4, <2>1 DEF ExchangeInv, FrameRead
<1>7. PICK v : v = ParsePIDBytesWithDBCFormula(read.data, Asked.pid, Asked.formula)
    OBVIOUS
<1>8. pushed = IF matchPID(setup, read) = asked /\ v.kind = "value"
               THEN <<[name |-> Asked.name, value |-> v.value]>> ELSE <<>>
    <2>1. CASE matchPID(setup, read) = 0
        BY <1>3, <1>5, <1>6, <2>1 DEF PushedFor
    <2>2. CASE matchPID(setup, read) = asked
        <3>1. asked > 0
            BY ONLY <1>5
        <3> QED BY <1>3, <1>6, <1>7, <2>2, <3>1 DEF PushedFor, Asked
    <2> QED BY <2>1, <2>2
<1>9. PICK pad \in Int : read.data = AnswerData(query, answer, pad)
    <2>1. PICK byte \in Pads : read.data = AnswerData(query, answer, byte)
        BY <1>2 DEF AnswerFrame
    <2>2. byte \in Int
        BY <1>1
    <2> QED BY ONLY <2>1, <2>2
<1>10. CASE answer = <<>>
    <2>1. read.data \in Seq(Int)
        BY <1>1, <1>9, <1>10, RefusalIs
    <2>2. BytesBefore = read.data
        BY <1>10, <2>1, SubSeqFull DEF BytesBefore
    <2>3. IndexOf(read.data, <<Asked.pid % 256>>) = -1
        BY <2>2
    <2>4. v = Error
        BY <1>7, <2>3 DEF ParsePIDBytesWithDBCFormula
    <2> QED BY <1>8, <1>10, <2>4 DEF Expected, Error
<1>11. CASE answer # <<>>
    <2>1. answer \in Seq(Int) /\ Len(answer) = NumBytes(Asked.formula)
        BY <1>1, <1>2, <1>11 DEF AnswerFrame, RightLength
    <2>2. IndexOf(SubSeq(read.data, 1, 1 + Len(UintToHex(Asked.pid))), <<Asked.pid % 256>>) = -1
        BY <1>1, <1>11 DEF BytesBefore
    <2>3. /\ Claims(Asked, read)
          /\ ParsePIDBytesWithDBCFormula(read.data, Asked.pid, Asked.formula)
                 = Reference(answer, Asked.formula)
        BY ONLY <1>1, <1>3, <1>9, <1>11, <2>1, <2>2, AnswerIsDecoded
    <2>4. matchPID(setup, read) = asked
        <3>1. matchPID(setup, read) # 0
            BY <1>1, <2>3, MatchIs DEF Asked
        <3> QED BY <3>1
    <2>5. v = Expected
        BY <1>7, <1>11, <2>3 DEF Expected
    <2>6. v.kind = "error" \/ v.kind = "value"
        BY <1>11, <2>5 DEF Expected, Reference, Scaled, Error, Number
    <2> QED BY <1>8, <2>4, <2>5, <2>6
<1> QED BY <1>10, <1>11

\* The listener pushes the number the data of an answer stand for, under the
\* name of the request, and nothing after a refusal, for every template, PID of
\* one byte or two, and all data (StartScanning, matchPID, SendCANQuery,
\* ParsePIDBytesWithDBCFormula).
THEOREM NativeHolds == DecodingSpec => []NativeIsReference
<1>1. ExchangeInv => NativeIsReference
    BY AnswerIsPushed DEF NativeIsReference
<1> QED BY <1>1, ExchangeHolds, PTL
-----------------------------------------------------------------------------
\* A broadcast frame of an identifier the file has once is received, and the
\* listener pushes the signals under that header, in their order.
LEMMA BroadcastIsPushed ==
    ASSUME ExchangeInv, phase = "onBus", asked = 0, frames = <<>>,
           read.id \notin RespHeaders(setup),
           NEW at \in DOMAIN setup.file, HeadersOf(setup.file, read.id) = {at},
           SignalsUnder(setup.file, at) # {}
    PROVE  \E signals :
               /\ Lists(signals, setup.file, SignalsUnder(setup.file, at))
               /\ Len(signals) \in Nat
               /\ pushed = [k \in 1 .. Len(signals) |->
                               [name  |-> signals[k].name,
                                value |-> DecodePassiveFrame(read.data, signals[k].formula).value]]
<1>1. setup \in Setups /\ Scans(setup)
    BY DEF ExchangeInv, Begun
<1>2. read \in Broadcasts
    BY DEF ExchangeInv, FrameOnBus
<1>3. read.id \in Ids
    BY <1>2, DecodingAssumption DEF DecodingAssumption
<1>4. parseDBCHeaders(setup.file) # <<>>
    <2>1. setup.file # <<>>
        OBVIOUS
    <2> QED BY <1>1, <2>1 DEF Scans
<1>5. PICK lines : lines = SignalsUnder(setup.file, at)
    OBVIOUS
<1>6. OneFilter(parseDBCHeaders(setup.file), setup.file, read.id, lines)
    BY <1>1, <1>3, <1>4, <1>5, SignalsAreListed
<1>7. PICK i : i = findFilter(setup, read.id)
    OBVIOUS
<1>8. /\ i \in DOMAIN parseDBCHeaders(setup.file) /\ i # 0
      /\ parseDBCHeaders(setup.file)[i].header = read.id
      /\ Lists(parseDBCHeaders(setup.file)[i].signals, setup.file, lines)
    BY <1>1, <1>6, <1>7, OneIsFound
<1>9. Received(setup, read.id)
    BY <1>8 DEF Received, Filters
<1>10. ~ Panics(setup, read)
    BY <1>7, <1>8 DEF Panics
<1>11. pushed = PushedFor(setup, read)
    BY <1>9, <1>10 DEF ExchangeInv, FrameRead
<1>12. PICK signals : signals = parseDBCHeaders(setup.file)[i].signals
    OBVIOUS
<1>13. Len(signals) \in Nat /\ DOMAIN signals = 1 .. Len(signals)
    BY <1>1, <1>8, <1>12, FilterSignals
<1>14. pushed = [k \in 1 .. Len(signals) |->
                    [name  |-> signals[k].name,
                     value |-> DecodePassiveFrame(read.data, signals[k].formula).value]]
    BY <1>7, <1>11, <1>12, <1>13 DEF PushedFor
<1> QED BY <1>5, <1>8, <1>12, <1>13, <1>14

\* A broadcast frame gives exactly the signals its DBC file lists under the
\* header, in their order, those of whole bytes with their numbers, for every file
\* and all data (parseDBCHeaders, findFilter, DecodePassiveFrame).
THEOREM BroadcastHolds == DecodingSpec => []BroadcastIsReference
<1>1. ASSUME ExchangeInv, phase = "onBus", asked = 0, frames = <<>>,
             read.id \notin RespHeaders(setup),
             NEW at \in DOMAIN setup.file, HeadersOf(setup.file, read.id) = {at},
             NEW under, under = SignalsUnder(setup.file, at), under # {}
      PROVE  /\ Len(pushed) = Cardinality(under)
             /\ \A k \in under :
                   LET signal == setup.file[k].gives
                       sent   == pushed[Cardinality({j \in under : j <= k})]
                   IN  /\ sent.name = signal.name
                       /\ WholeBytes(signal.formula) =>
                              sent.value = BroadcastReference(read.data, signal.formula)
    <2>1. PICK signals :
              /\ Lists(signals, setup.file, under) /\ Len(signals) \in Nat
              /\ pushed = [k \in 1 .. Len(signals) |->
                              [name  |-> signals[k].name,
                               value |-> DecodePassiveFrame(read.data, signals[k].formula).value]]
        BY <1>1, BroadcastIsPushed
    <2>2. setup \in Setups /\ read \in Broadcasts
        BY <1>1 DEF ExchangeInv, Begun, FrameOnBus
    <2>3. Len(read.data) \in Nat
        <3>1. read.data \in Seq(Bytes)
            BY <2>2, DecodingAssumption DEF DecodingAssumption
        <3> QED BY <3>1
    <2>4. PICK n \in Nat : n = Len(setup.file) /\ DOMAIN setup.file = 1 .. n
        BY <2>2, DecodingAssumption DEF DecodingAssumption
    <2>5. under \in SUBSET (1 .. n) /\ \A k \in under : setup.file[k].word = "SG_"
        BY <1>1, <2>4 DEF SignalsUnder
    <2>6. Len(pushed) = Cardinality(under)
        BY <2>1 DEF Lists
    <2>7. ASSUME NEW k \in under
          PROVE  LET signal == setup.file[k].gives
                     sent   == pushed[Cardinality({j \in under : j <= k})]
                 IN  /\ sent.name = signal.name
                     /\ WholeBytes(signal.formula) =>
                            sent.value = BroadcastReference(read.data, signal.formula)
        <3>1. PICK place : place = Cardinality({j \in under : j <= k})
            OBVIOUS
        <3>2. place \in 1 .. Len(signals) /\ signals[place] = setup.file[k].gives
            BY <2>1, <2>5, <3>1, PlaceInList DEF Lists
        <3>3. PICK formula : formula = setup.file[k].gives.formula
            OBVIOUS
        <3>4. formula.start \in Nat /\ formula.bits \in Nat
            <4>1. setup.file[k].gives # <<>>
                BY <2>1 DEF Lists
            <4> QED BY <2>2, <2>4, <2>5, <3>3, <4>1, DecodingAssumption DEF DecodingAssumption
        <3>5. WholeBytes(formula) => DecodePassiveFrame(read.data, formula).value
                                         = BroadcastReference(read.data, formula)
            BY <2>3, <3>4, BroadcastDecoded
        <3>6. pushed[place] = [name  |-> signals[place].name,
                               value |-> DecodePassiveFrame(read.data, signals[place].formula).value]
            BY <2>1, <3>2
        <3> QED BY <3>1, <3>2, <3>3, <3>5, <3>6
    <2> QED BY <2>6, <2>7
<1>2. ExchangeInv => BroadcastIsReference
    BY <1>1 DEF BroadcastIsReference
<1> QED BY <1>2, ExchangeHolds, PTL
-----------------------------------------------------------------------------
\* The VIN.  A function that goes on from each number to the next, among the
\* values its steps lead to, ...
GoesOn(f, n, S, start, step) ==
    /\ f \in [0 .. n -> S] /\ f[0] = start
    /\ \A k \in 1 .. n : f[k] = step[k][f[k - 1]]

StaysIn(n, S, step) == \A k \in 1 .. n : \A x \in S : step[k][x] \in S

\* ... exists.
LEMMA StepsExist ==
    ASSUME NEW n \in Nat, NEW S, NEW start \in S, NEW step,
           StaysIn(n, S, step)
    PROVE  \E f : GoesOn(f, n, S, start, step)
<1> USE DEF StaysIn
<1> DEFINE Follows(f, k) ==
               /\ f \in [0 .. k -> S] /\ f[0] = start
               /\ \A j \in 1 .. k : f[j] = step[j][f[j - 1]]
           Reached == {k \in 0 .. n : \E f : Follows(f, k)}
<1>1. 0 \in Reached
    <2>1. Follows([j \in 0 .. 0 |-> start], 0)
        OBVIOUS
    <2> HIDE DEF Follows
    <2> QED BY <2>1
<1>2. ASSUME NEW k \in 1 .. n, k - 1 \in Reached PROVE k \in Reached
    <2>1. PICK f : Follows(f, k - 1)
        BY <1>2
    <2>2. /\ k - 1 \in 0 .. k - 1 /\ k \notin 0 .. k - 1 /\ 0 \in 0 .. k - 1
          /\ \A j \in 0 .. k : j = k \/ j \in 0 .. k - 1
          /\ \A j \in 1 .. k : j # k => j \in 1 .. k - 1 /\ j - 1 \in 0 .. k - 1
          /\ \A j \in 1 .. k : j \in 0 .. k /\ j - 1 \in 0 .. k - 1 /\ j - 1 \in 0 .. k
          /\ 0 \in 0 .. k
        OBVIOUS
    <2>3. f \in [0 .. k - 1 -> S] /\ f[k - 1] \in S
        BY <2>1, <2>2
    <2> DEFINE g == [j \in 0 .. k |-> IF j = k THEN step[k][f[k - 1]] ELSE f[j]]
    <2>4. step[k][f[k - 1]] \in S
        BY <2>3
    <2>5. g \in [0 .. k -> S]
        BY <2>2, <2>3, <2>4
    <2>6. \A j \in 0 .. k - 1 : g[j] = f[j]
        BY <2>2
    <2>7. g[k] = step[k][f[k - 1]]
        BY <2>2
    <2> HIDE DEF g
    <2>8. g[0] = start
        BY <2>1, <2>2, <2>6
    <2>9. ASSUME NEW j \in 1 .. k PROVE g[j] = step[j][g[j - 1]]
        BY <2>1, <2>2, <2>6, <2>7
    <2>10. Follows(g, k)
        BY <2>5, <2>8, <2>9
    <2> HIDE DEF Follows
    <2> QED BY <2>10
<1> HIDE DEF Follows
<1>3. n \in Reached
    <2>1. \A k \in 1 .. n : k - 1 \in Reached => k \in Reached
        BY <1>2
    <2> HIDE DEF Reached
    <2>2. 0 .. n \subseteq Reached
        BY <1>1, <2>1, SetInduction
    <2> QED BY <2>2
<1> QED BY <1>3 DEF Follows, GoesOn

\* Characters below 128 are a byte each.
LEMMA TextIs ==
    ASSUME NEW bytes \in Seq(Int), \A i \in 1 .. Len(bytes) : bytes[i] < 128
    PROVE  Text(bytes) = bytes
<1>1. PICK n \in Nat : n = Len(bytes)
    OBVIOUS
<1> DEFINE Follows(f) ==
               f = [k \in 0 .. n |-> IF k = 0 THEN <<>> ELSE f[k - 1] \o Utf8(bytes[k])]
           step == [k \in 1 .. n |-> [s \in Seq(Int) |-> s \o Utf8(bytes[k])]]
<1>2. \A k \in 1 .. n : bytes[k] \in Int /\ Utf8(bytes[k]) = <<bytes[k]>>
    BY <1>1 DEF Utf8
<1>3. \E f : Follows(f)
    <2>1. step \in [1 .. n -> [Seq(Int) -> Seq(Int)]]
        <3>1. ASSUME NEW k \in 1 .. n, NEW s \in Seq(Int) PROVE s \o Utf8(bytes[k]) \in Seq(Int)
            <4>1. <<bytes[k]>> \in Seq(Int)
                BY <1>2
            <4>2. s \o <<bytes[k]>> \in Seq(Int)
                BY ONLY <4>1, s \in Seq(Int), ConcatProperties
            <4> QED BY <1>2, <4>2
        <3> QED BY ONLY <3>1
    <2>2. PICK f \in [0 .. n -> Seq(Int)] :
              f[0] = <<>> /\ \A k \in 1 .. n : f[k] = step[k][f[k - 1]]
        <3> HIDE DEF step
        <3>1. <<>> \in Seq(Int)
            OBVIOUS
        <3> HIDE DEF step
        <3>2. StaysIn(n, Seq(Int), step)
            BY <2>1 DEF StaysIn
        <3>3. PICK f : GoesOn(f, n, Seq(Int), <<>>, step)
            BY ONLY <3>1, <3>2, n \in Nat, StepsExist
        <3> QED BY <3>3 DEF GoesOn
    <2>3. \A k \in 1 .. n : f[k - 1] \in Seq(Int)
        OBVIOUS
    <2>4. \A k \in 1 .. n : f[k] = f[k - 1] \o Utf8(bytes[k])
        BY <2>2, <2>3
    <2>5. \A k \in 0 .. n : f[k] = IF k = 0 THEN <<>> ELSE f[k - 1] \o Utf8(bytes[k])
        <3>1. \A k \in 0 .. n : k = 0 \/ k \in 1 .. n
            OBVIOUS
        <3> QED BY ONLY <2>2, <2>4, <3>1
    <2>6. Follows(f)
        BY <2>5
    <2> HIDE DEF Follows
    <2> QED BY <2>6
<1> DEFINE text == CHOOSE f : Follows(f)
<1>4. Follows(text)
    <2> HIDE DEF Follows
    <2> QED BY <1>3
<1>5. Text(bytes) = text[n]
    BY <1>1 DEF Text
<1> HIDE DEF text
<1>6. /\ text[0] = <<>>
      /\ \A k \in 1 .. n : text[k] = text[k - 1] \o <<bytes[k]>>
    <2>1. \A k \in 0 .. n : text[k] = IF k = 0 THEN <<>> ELSE text[k - 1] \o Utf8(bytes[k])
        BY <1>4
    <2>2. 0 \in 0 .. n /\ \A k \in 1 .. n : k \in 0 .. n /\ k # 0
        OBVIOUS
    <2> QED BY ONLY <1>2, <2>1, <2>2
<1> HIDE DEF Follows
<1> DEFINE Grown == {k \in 0 .. n : /\ text[k] \in Seq(Int) /\ Len(text[k]) = k
                                    /\ \A i \in 1 .. k : text[k][i] = bytes[i]}
<1>7. 0 \in Grown
    <2>1. 0 \in 0 .. n /\ 1 .. 0 = {} /\ <<>> \in Seq(Int) /\ Len(<<>>) = 0
        OBVIOUS
    <2> QED BY ONLY <1>6, <2>1
<1>8. ASSUME NEW k \in 1 .. n, k - 1 \in Grown PROVE k \in Grown
    <2>1. PICK old \in Seq(Int) : old = text[k - 1] /\ Len(old) = k - 1
        BY <1>8
    <2>2. <<bytes[k]>> \in Seq(Int) /\ Len(<<bytes[k]>>) = 1
        BY <1>2
    <2>3. /\ old \o <<bytes[k]>> \in Seq(Int) /\ Len(old \o <<bytes[k]>>) = Len(old) + Len(<<bytes[k]>>)
          /\ \A i \in 1 .. Len(old) : (old \o <<bytes[k]>>)[i] = old[i]
          /\ \A i \in 1 .. Len(<<bytes[k]>>) : (old \o <<bytes[k]>>)[Len(old) + i] = <<bytes[k]>>[i]
        BY ONLY <2>2, old \in Seq(Int), Joined
    <2>4. text[k] = old \o <<bytes[k]>>
        BY <1>6, <2>1
    <2>5. text[k][k] = bytes[k]
        <3>1. Len(old) + 1 = k /\ 1 \in 1 .. Len(<<bytes[k]>>)
            BY ONLY <2>1, <2>2, k \in 1 .. n, n \in Nat
        <3> QED BY ONLY <2>3, <2>4, <3>1, <<bytes[k]>>[1] = bytes[k]
    <2>6. ASSUME NEW i \in 1 .. k PROVE text[k][i] = bytes[i]
        <3>1. CASE i = k
            BY <2>5, <3>1
        <3>2. CASE i # k
            <4>1. i \in 1 .. k - 1
                BY <3>2
            <4>2. old[i] = bytes[i]
                BY <1>8, <2>1, <4>1
            <4> QED BY ONLY <2>1, <2>3, <2>4, <4>1, <4>2
        <3> QED BY <3>1, <3>2
    <2>7. Len(text[k]) = k /\ text[k] \in Seq(Int) /\ k \in 0 .. n
        BY <2>1, <2>2, <2>3, <2>4
    <2> QED BY <2>6, <2>7
<1>9. n \in Grown
    <2>1. \A k \in 1 .. n : k - 1 \in Grown => k \in Grown
        BY <1>8
    <2> HIDE DEF Grown
    <2>2. 0 .. n \subseteq Grown
        BY <1>7, <2>1, SetInduction
    <2> QED BY <2>2
<1>10. text[n] \in Seq(Int) /\ Len(text[n]) = n /\ \A i \in 1 .. n : text[n][i] = bytes[i]
    BY <1>9
<1> QED BY <1>1, <1>5, <1>10

\* A part of a sequence.
LEMMA PartOf ==
    ASSUME NEW s \in Seq(Int), NEW m \in Nat \ {0}, NEW n \in Nat, n <= Len(s), m <= n + 1
    PROVE  /\ SubSeq(s, m, n) \in Seq(Int) /\ Len(SubSeq(s, m, n)) = n - m + 1
           /\ \A i \in 1 .. n - m + 1 : SubSeq(s, m, n)[i] = s[m + i - 1]
<1>1. \A i \in m .. n : s[i] \in Int
    <2>1. \A i \in m .. n : i \in 1 .. Len(s)
        OBVIOUS
    <2> QED BY <2>1
<1>2. /\ SubSeq(s, m, n) \in Seq(Int)
      /\ Len(SubSeq(s, m, n)) = IF m <= n THEN n - m + 1 ELSE 0
      /\ \A i \in 1 .. n - m + 1 : SubSeq(s, m, n)[i] = s[m + i - 1]
    BY ONLY <1>1, m \in Int, n \in Int, SubSeqProperties
<1>3. (IF m <= n THEN n - m + 1 ELSE 0) = n - m + 1
    OBVIOUS
<1> QED BY ONLY <1>2, <1>3

\* Sequences with the same elements.
LEMMA SameSequence ==
    ASSUME NEW s \in Seq(Int), NEW t \in Seq(Int), Len(s) = Len(t),
           \A i \in 1 .. Len(t) : s[i] = t[i]
    PROVE  s = t
OBVIOUS

\* What is cut off a line at the end of its identifier, or one digit before, is
\* evened to the digits of its data.
LEMMA EvenedRest ==
    ASSUME NEW id \in Ids, NEW data \in Seq(Int), NEW line, line = Line(id, data),
           NEW start, start = IdLength(line)
    PROVE  /\ Evened(SubSeq(line, start, Len(line))) = Hex(data)
           /\ Evened(SubSeq(line, start + 1, Len(line))) = Hex(data)
<1>1. PICK n \in Nat : n = Len(data)
    OBVIOUS
<1> DEFINE hex == Hex(data)
<1>2. hex \in Seq(Int) /\ Len(hex) = 2 * n
    BY <1>1, HexDigits
<1> HIDE DEF hex
<1>3. /\ line \in Seq(Int) /\ start \in {3, 8} /\ Len(line) = start + 2 * n
      /\ \A i \in 1 .. 2 * n : line[start + i] = hex[i]
    BY <1>1, LineDigits DEF hex
<1>4. start \in Nat /\ start >= 3
    BY ONLY <1>3
<1>5. SubSeq(line, start + 1, Len(line)) = hex
    <2>1. PICK rest : rest = SubSeq(line, start + 1, Len(line))
        OBVIOUS
    <2>2. /\ start + 1 \in Nat \ {0} /\ Len(line) \in Nat
          /\ Len(line) <= Len(line) /\ start + 1 <= Len(line) + 1
          /\ Len(line) - (start + 1) + 1 = 2 * n
        BY ONLY <1>3, <1>4, n \in Nat
    <2>3. /\ rest \in Seq(Int) /\ Len(rest) = Len(line) - (start + 1) + 1
          /\ \A i \in 1 .. Len(line) - (start + 1) + 1 : rest[i] = line[start + 1 + i - 1]
        BY ONLY <1>3, <2>1, <2>2, PartOf
    <2>4. ASSUME NEW i \in 1 .. 2 * n PROVE rest[i] = hex[i]
        <3>1. start + 1 + i - 1 = start + i
            BY ONLY <1>4, i \in 1 .. 2 * n, n \in Nat
        <3> QED BY ONLY <1>3, <2>2, <2>3, <3>1, i \in 1 .. 2 * n
    <2>5. Len(rest) = Len(hex)
        BY ONLY <1>2, <2>2, <2>3
    <2>6. \A i \in 1 .. Len(hex) : rest[i] = hex[i]
        BY ONLY <1>2, <2>4
    <2> QED BY ONLY <1>2, <2>1, <2>3, <2>5, <2>6, SameSequence
<1>6. Evened(hex) = hex
    <2>1. (2 * n) % 2 = 0
        BY ONLY n \in Nat
    <2> QED BY <1>2, <2>1 DEF Evened
<1>7. Evened(SubSeq(line, start, Len(line))) = hex
    <2>1. PICK longer : longer = SubSeq(line, start, Len(line))
        OBVIOUS
    <2>2. /\ start \in Nat \ {0} /\ Len(line) \in Nat
          /\ Len(line) <= Len(line) /\ start <= Len(line) + 1
          /\ Len(line) - start + 1 = 2 * n + 1
        BY ONLY <1>3, <1>4, n \in Nat
    <2>3. /\ longer \in Seq(Int) /\ Len(longer) = Len(line) - start + 1
          /\ \A i \in 1 .. Len(line) - start + 1 : longer[i] = line[start + i - 1]
        BY ONLY <1>3, <2>1, <2>2, PartOf
    <2>4. Len(longer) = 2 * n + 1 /\ (2 * n + 1) % 2 # 0 /\ 2 * n + 1 > 0
        BY ONLY <2>2, <2>3, n \in Nat
    <2>5. Evened(longer) = Tail(longer)
        BY <2>4 DEF Evened
    <2>6. /\ Tail(longer) \in Seq(Int) /\ Len(Tail(longer)) = 2 * n
          /\ \A i \in 1 .. 2 * n : Tail(longer)[i] = longer[i + 1]
        <3>1. longer \in Seq(Int) /\ longer # <<>>
            BY <2>3, <2>4
        <3>2. /\ Tail(longer) \in Seq(Int) /\ Len(Tail(longer)) = Len(longer) - 1
              /\ \A i \in 1 .. Len(longer) - 1 : Tail(longer)[i] = longer[i + 1]
            BY ONLY <3>1
        <3>3. Len(longer) - 1 = 2 * n
            BY ONLY <2>4, n \in Nat
        <3> QED BY ONLY <3>2, <3>3
    <2>7. ASSUME NEW i \in 1 .. 2 * n PROVE Tail(longer)[i] = hex[i]
        <3>1. i + 1 \in 1 .. Len(line) - start + 1 /\ start + (i + 1) - 1 = start + i
            BY ONLY <1>4, <2>2, n \in Nat, i \in 1 .. 2 * n
        <3> QED BY ONLY <1>3, <2>3, <2>6, <3>1, i \in 1 .. 2 * n
    <2>8. Len(Tail(longer)) = Len(hex) /\ \A i \in 1 .. Len(hex) : Tail(longer)[i] = hex[i]
        BY ONLY <1>2, <2>6, <2>7
    <2>9. Tail(longer) = hex
        BY ONLY <1>2, <2>6, <2>8, SameSequence
    <2> QED BY ONLY <2>1, <2>5, <2>9
<1> QED BY <1>5, <1>6, <1>7 DEF hex

\* The text of digits is the bytes they stand for, from the first that is a
\* digit or an upper-case letter on.
LEMMA CleanedIs ==
    ASSUME NEW digits, NEW data \in Seq(Int), Evened(digits) = Hex(data),
           NEW p \in 1 .. Len(data), Clean(data[p]), \A i \in 1 .. p - 1 : ~ Clean(data[i]),
           \A i \in p .. Len(data) : data[i] < 128
    PROVE  Cleaned(digits) = SubSeq(data, p, Len(data))
<1>1. PICK n \in Nat : n = Len(data)
    OBVIOUS
<1> DEFINE hex == Hex(data)
<1>2. /\ Len(hex) = 2 * n /\ (2 * n) \div 2 = n
      /\ \A k \in 1 .. n : hex[2 * k - 1] = data[k] \div 16 /\ hex[2 * k] = data[k] % 16
    <2>1. (2 * n) \div 2 = n
        BY ONLY n \in Nat
    <2> QED BY <1>1, <2>1, HexDigits
<1> HIDE DEF hex
<1>3. [i \in 1 .. Len(hex) \div 2 |-> 16 * hex[2 * i - 1] + hex[2 * i]] = data
    <2>1. \A b \in Int : 16 * (b \div 16) + (b % 16) = b
        OBVIOUS
    <2>2. \A k \in 1 .. n : data[k] \in Int
        BY <1>1
    <2>3. \A k \in 1 .. n : 16 * hex[2 * k - 1] + hex[2 * k] = data[k]
        BY ONLY <1>2, <2>1, <2>2
    <2>4. data = [k \in 1 .. n |-> data[k]]
        BY <1>1
    <2>5. Len(hex) \div 2 = n
        BY ONLY <1>2
    <2> QED BY ONLY <2>3, <2>4, <2>5
<1>4. SelectInSeq(data, Clean) = p
    <2> DEFINE I == {i \in 1 .. Len(data) : Clean(data[i])}
    <2>1. SelectInSeq(data, Clean) = IF I # {} THEN Min(I) ELSE 0
        BY DEF SelectInSeq
    <2>2. p \in I /\ I \subseteq Nat
        OBVIOUS
    <2>3. \A j \in I : p <= j
        <3>1. \A j \in I : j \in 1 .. Len(data) /\ j \notin 1 .. p - 1
            OBVIOUS
        <3> HIDE DEF I
        <3> QED BY <3>1
    <2> HIDE DEF I
    <2>4. Min(I) \in I /\ \A j \in I : Min(I) <= j
        BY <2>2, MinIsLeast
    <2>5. Min(I) = p
        <3>1. Min(I) <= p /\ p <= Min(I) /\ Min(I) \in Nat
            BY <2>2, <2>3, <2>4
        <3> QED BY ONLY <3>1, p \in Int
    <2> QED BY <2>1, <2>2, <2>5
<1>5. Cleaned(digits) = Text(SubSeq(data, p, Len(data)))
    <2>1. p # 0
        OBVIOUS
    <2> QED BY <1>1, <1>3, <1>4, <2>1 DEF Cleaned, hex
<1>6. Text(SubSeq(data, p, Len(data))) = SubSeq(data, p, Len(data))
    <2>1. PICK part : part = SubSeq(data, p, Len(data))
        OBVIOUS
    <2>2. /\ part \in Seq(Int) /\ Len(part) = Len(data) - p + 1
          /\ \A i \in 1 .. Len(data) - p + 1 : part[i] = data[p + i - 1]
        <3>1. /\ p \in Nat \ {0} /\ Len(data) \in Nat /\ Len(data) <= Len(data)
              /\ p <= Len(data) + 1
            OBVIOUS
        <3> QED BY ONLY <2>1, <3>1, data \in Seq(Int), PartOf
    <2>3. ASSUME NEW i \in 1 .. Len(part) PROVE part[i] < 128
        <3>1. i \in 1 .. Len(data) - p + 1 /\ p + i - 1 \in p .. Len(data)
            BY <2>2
        <3> QED BY <2>2, <3>1
    <2> QED BY ONLY <2>1, <2>2, <2>3, TextIs
<1> QED BY <1>5, <1>6

\* The text gathered from lines that are long enough.
GrowsBy(text, lines, start) ==
    /\ text[0] = <<>>
    /\ \A k \in 1 .. Len(lines) :
           text[k] = IF Len(text[k - 1]) < 17
                     THEN text[k - 1] \o Cleaned(SubSeq(lines[k], start + 1, Len(lines[k])))
                     ELSE text[k - 1]

LEMMA GatheredSteps ==
    ASSUME NEW lines, Len(lines) \in Nat, NEW start,
           \A k \in 1 .. Len(lines) :
               /\ Len(lines[k]) >= 6
               /\ Cleaned(SubSeq(lines[k], start + 1, Len(lines[k]))) \in Seq(Int)
    PROVE  \E text : GrowsBy(text, lines, start) /\ Gathered(lines, start) = text[Len(lines)]
<1>1. PICK n \in Nat : n = Len(lines)
    OBVIOUS
<1> DEFINE piece(k) == Cleaned(SubSeq(lines[k], start + 1, Len(lines[k])))
           Follows(f) ==
               f = [k \in 0 .. n |->
                       IF k = 0 THEN <<>>
                       ELSE IF Len(lines[k]) >= 6 /\ Len(f[k - 1]) < 17
                       THEN f[k - 1] \o piece(k) ELSE f[k - 1]]
           step == [k \in 1 .. n |-> [s \in Seq(Int) |->
                       IF Len(lines[k]) >= 6 /\ Len(s) < 17 THEN s \o piece(k) ELSE s]]
<1>2. \A k \in 1 .. n : Len(lines[k]) >= 6 /\ piece(k) \in Seq(Int)
    BY <1>1
<1>3. \E f : Follows(f)
    <2> HIDE DEF piece
    <2>1. StaysIn(n, Seq(Int), step)
        <3>1. ASSUME NEW k \in 1 .. n, NEW s \in Seq(Int) PROVE s \o piece(k) \in Seq(Int)
            <4>1. piece(k) \in Seq(Int)
                BY <1>2
            <4> QED BY ONLY <4>1, s \in Seq(Int), ConcatProperties
        <3> QED BY ONLY <3>1 DEF StaysIn
    <2>2. PICK f : GoesOn(f, n, Seq(Int), <<>>, step)
        <3>1. <<>> \in Seq(Int)
            OBVIOUS
        <3> HIDE DEF step
        <3> QED BY ONLY <2>1, <3>1, n \in Nat, StepsExist
    <2>3. /\ f \in [0 .. n -> Seq(Int)] /\ f[0] = <<>>
          /\ \A k \in 1 .. n : f[k] = step[k][f[k - 1]]
        <3> HIDE DEF step
        <3> QED BY <2>2 DEF GoesOn
    <2>4. \A k \in 1 .. n : f[k - 1] \in Seq(Int)
        BY <2>3
    <2>5. \A k \in 1 .. n : f[k] = IF Len(lines[k]) >= 6 /\ Len(f[k - 1]) < 17
                                   THEN f[k - 1] \o piece(k) ELSE f[k - 1]
        BY <2>3, <2>4
    <2>6. \A k \in 0 .. n : f[k] = IF k = 0 THEN <<>>
                                   ELSE IF Len(lines[k]) >= 6 /\ Len(f[k - 1]) < 17
                                   THEN f[k - 1] \o piece(k) ELSE f[k - 1]
        <3>1. \A k \in 0 .. n : k = 0 \/ (k \in 1 .. n /\ k # 0)
            OBVIOUS
        <3> QED BY ONLY <2>3, <2>5, <3>1
    <2>7. Follows(f)
        BY <2>3, <2>6
    <2> HIDE DEF Follows
    <2> QED BY <2>7
<1> DEFINE text == CHOOSE f : Follows(f)
<1>4. Follows(text)
    <2> HIDE DEF Follows
    <2> QED BY <1>3
<1>5. Gathered(lines, start) = text[n]
    BY <1>1 DEF Gathered
<1> HIDE DEF text
<1>6. \A k \in 0 .. n : text[k] = IF k = 0 THEN <<>>
                                  ELSE IF Len(lines[k]) >= 6 /\ Len(text[k - 1]) < 17
                                  THEN text[k - 1] \o piece(k) ELSE text[k - 1]
    <2> HIDE DEF piece
    <2> QED BY <1>4
<1>7. /\ text[0] = <<>>
      /\ \A k \in 1 .. n : text[k] = IF Len(text[k - 1]) < 17
                                     THEN text[k - 1] \o piece(k) ELSE text[k - 1]
    <2>1. 0 \in 0 .. n /\ \A k \in 1 .. n : k \in 0 .. n /\ k # 0
        OBVIOUS
    <2> HIDE DEF piece
    <2> QED BY ONLY <1>2, <1>6, <2>1
<1> HIDE DEF Follows
<1> QED BY <1>1, <1>5, <1>7 DEF GrowsBy

\* Lines that are the same up to an offset that is not the default one, and
\* differ there, begin to differ there.
LEMMA LineStartAt ==
    ASSUME NEW lines, NEW n \in Nat \ {0}, NEW m \in Nat, m # 5, DOMAIN lines = 1 .. n,
           \A k \in 1 .. n : Len(lines[k]) \in Nat /\ Len(lines[k]) >= 5 /\ Len(lines[k]) > m,
           \A k \in 1 .. n : \A i \in 1 .. m : lines[k][i] = lines[1][i],
           NEW other \in 1 .. n, lines[other][m + 1] # lines[1][m + 1]
    PROVE  findVINLineStart(lines) = m - 1
<1>1. PICK length \in Nat : length = Len(lines[1]) /\ length > m
    OBVIOUS
<1>2. Content(lines) = 1 .. n /\ 1 \in 1 .. n
    BY DEF Content
<1>3. FirstLine(lines) = lines[1]
    <2>1. Least(1 .. n) = 1
        <3>1. 1 .. n \subseteq Nat /\ 1 .. n # {}
            BY ONLY <1>2, n \in Nat
        <3>2. Least(1 .. n) \in 1 .. n /\ \A j \in 1 .. n : Least(1 .. n) <= j
            BY <3>1, MinIsLeast
        <3> QED BY <1>2, <3>2
    <2> QED BY <1>2, <2>1 DEF FirstLine
<1> DEFINE bad(i) == {k \in Content(lines) :
                         Len(lines[k]) <= i \/ lines[k][i + 1] # FirstLine(lines)[i + 1]}
<1>4. \A i : ComparedAt(lines, i) = IF bad(i) = {} THEN "same"
                                    ELSE IF Len(lines[Least(bad(i))]) <= i THEN "short"
                                    ELSE "differs"
    BY DEF ComparedAt
<1>5. ASSUME NEW i \in 0 .. m - 1 PROVE ComparedAt(lines, i) = "same"
    <2>1. ASSUME NEW k \in 1 .. n
          PROVE  ~ (Len(lines[k]) <= i) /\ lines[k][i + 1] = FirstLine(lines)[i + 1]
        <3>1. i + 1 \in 1 .. m
            OBVIOUS
        <3>2. lines[k][i + 1] = lines[1][i + 1]
            BY <3>1
        <3>3. Len(lines[k]) \in Nat /\ Len(lines[k]) > m /\ i < m
            OBVIOUS
        <3> QED BY ONLY <1>3, <3>2, <3>3, i \in 0 .. m - 1, m \in Nat
    <2>2. bad(i) = {}
        BY <1>2, <2>1
    <2> HIDE DEF bad
    <2> QED BY <1>4, <2>2
<1>6. ComparedAt(lines, m) = "differs"
    <2>1. other \in bad(m) /\ bad(m) \subseteq 1 .. n
        BY <1>2, <1>3
    <2> HIDE DEF bad
    <2>2. Least(bad(m)) \in 1 .. n
        <3>1. bad(m) \subseteq Nat /\ bad(m) # {}
            BY <2>1
        <3> QED BY <2>1, <3>1, MinIsLeast
    <2>3. ~ (Len(lines[Least(bad(m))]) <= m)
        <3>1. Len(lines[Least(bad(m))]) \in Nat /\ Len(lines[Least(bad(m))]) > m
            BY <2>2
        <3> QED BY ONLY <3>1, m \in Nat
    <2> QED BY <1>4, <2>1, <2>3
<1> HIDE DEF bad
<1> DEFINE ends == {i \in 0 .. length - 1 : \/ ComparedAt(lines, i) = "short"
                                            \/ ComparedAt(lines, i) = "differs" /\ i # 5}
<1>7. findVINLineStart(lines) = IF ends = {} THEN 4
                                ELSE IF ComparedAt(lines, Least(ends)) = "short" THEN -2
                                ELSE Least(ends) - 1
    <2>1. Content(lines) # {}
        BY <1>2
    <2> QED BY <1>1, <1>3, <2>1 DEF findVINLineStart
<1>8. m \in ends /\ ends \subseteq Nat
    BY <1>1, <1>6
<1>9. ASSUME NEW i \in ends PROVE m <= i
    <2>1. i \in Nat /\ ComparedAt(lines, i) # "same"
        OBVIOUS
    <2>2. i \notin 0 .. m - 1
        BY <1>5, <2>1
    <2> QED BY ONLY <2>1, <2>2, m \in Nat
<1> HIDE DEF ends
<1>10. Least(ends) = m
    <2>1. Least(ends) \in ends /\ \A j \in ends : Least(ends) <= j
        BY <1>8, MinIsLeast
    <2>2. Least(ends) <= m /\ m <= Least(ends) /\ Least(ends) \in Nat
        BY <1>8, <1>9, <2>1
    <2> QED BY ONLY <2>2, m \in Nat
<1> QED BY <1>6, <1>7, <1>8, <1>10

\* n elements of another sequence, those after the first ones, ...
Piece(s, bytes, after, n) ==
    s \in Seq(Int) /\ Len(s) = n /\ \A i \in 1 .. n : s[i] = bytes[after + i]

\* ... and those that follow make a longer one.
LEMMA PiecesJoin ==
    ASSUME NEW bytes, NEW s, NEW t, NEW after \in Nat, NEW m \in Nat, NEW n \in Nat,
           Piece(s, bytes, after, m), Piece(t, bytes, after + m, n)
    PROVE  Piece(s \o t, bytes, after, m + n)
<1>1. /\ s \in Seq(Int) /\ Len(s) = m /\ \A i \in 1 .. m : s[i] = bytes[after + i]
      /\ t \in Seq(Int) /\ Len(t) = n /\ \A i \in 1 .. n : t[i] = bytes[after + m + i]
    BY DEF Piece
<1>2. /\ s \o t \in Seq(Int) /\ Len(s \o t) = Len(s) + Len(t)
      /\ \A i \in 1 .. Len(s) : (s \o t)[i] = s[i]
      /\ \A i \in 1 .. Len(t) : (s \o t)[Len(s) + i] = t[i]
    BY ONLY <1>1, Joined
<1>3. ASSUME NEW i \in 1 .. m + n PROVE (s \o t)[i] = bytes[after + i]
    <2>1. CASE i \in 1 .. m
        BY ONLY <1>1, <1>2, <2>1
    <2>2. CASE i \notin 1 .. m
        <3>1. i - m \in 1 .. n /\ m + (i - m) = i /\ after + m + (i - m) = after + i
            BY ONLY <2>2, i \in 1 .. m + n, m \in Nat, n \in Nat, after \in Nat
        <3>2. (s \o t)[m + (i - m)] = t[i - m] /\ t[i - m] = bytes[after + m + (i - m)]
            BY ONLY <1>1, <1>2, <3>1
        <3> QED BY ONLY <3>1, <3>2
    <2> QED BY <2>1, <2>2
<1> QED BY ONLY <1>1, <1>2, <1>3 DEF Piece

\* The three frames of an answer of 20 bytes.
LEMMA SegmentsAre ==
    ASSUME NEW bytes \in Seq(Int), Len(bytes) = 20
    PROVE  LET frame == Segments(bytes)
           IN  /\ \A k \in 1 .. 3 : frame[k] \in Seq(Int) /\ Len(frame[k]) = 8
               /\ frame[1][1] = 16 /\ frame[1][2] = 20 /\ frame[2][1] = 33 /\ frame[3][1] = 34
               /\ \A i \in 1 .. 6 : frame[1][2 + i] = bytes[i]
               /\ \A i \in 1 .. 7 : frame[2][1 + i] = bytes[6 + i]
               /\ \A i \in 1 .. 7 : frame[3][1 + i] = bytes[13 + i]
<1> DEFINE Framed(s, head, m, n) ==
               /\ s \in Seq(Int) /\ Len(s) = Len(head) + n - m + 1
               /\ \A i \in 1 .. Len(head) : s[i] = head[i]
               /\ \A i \in 1 .. n - m + 1 : s[Len(head) + i] = bytes[m - 1 + i]
<1>1. ASSUME NEW head \in Seq(Int), NEW m \in 1 .. 20, NEW n \in m .. 20, NEW s,
             s = head \o SubSeq(bytes, m, n)
      PROVE  Framed(s, head, m, n)
    <2>1. PICK part : part = SubSeq(bytes, m, n)
        OBVIOUS
    <2>2. /\ part \in Seq(Int) /\ Len(part) = n - m + 1
          /\ \A i \in 1 .. n - m + 1 : part[i] = bytes[m + i - 1]
        <3>1. m \in Nat \ {0} /\ n \in Nat /\ n <= Len(bytes) /\ m <= n + 1
            OBVIOUS
        <3> QED BY ONLY <2>1, <3>1, bytes \in Seq(Int), PartOf
    <2>3. /\ s \in Seq(Int) /\ Len(s) = Len(head) + Len(part)
          /\ \A i \in 1 .. Len(head) : s[i] = head[i]
          /\ \A i \in 1 .. Len(part) : s[Len(head) + i] = part[i]
        BY ONLY <1>1, <2>1, <2>2, head \in Seq(Int), Joined
    <2>4. Len(head) \in Nat
        OBVIOUS
    <2>5. Len(s) = Len(head) + n - m + 1
        BY ONLY <2>2, <2>3, <2>4, m \in 1 .. 20, n \in m .. 20
    <2>6. ASSUME NEW i \in 1 .. n - m + 1 PROVE s[Len(head) + i] = bytes[m - 1 + i]
        <3>1. m + i - 1 = m - 1 + i
            BY ONLY m \in 1 .. 20, n \in m .. 20, i \in 1 .. n - m + 1
        <3> QED BY ONLY <2>2, <2>3, <3>1, i \in 1 .. n - m + 1
    <2> QED BY ONLY <2>3, <2>5, <2>6
<1> HIDE DEF Framed
<1>2. /\ <<16, 20>> \in Seq(Int) /\ Len(<<16, 20>>) = 2
      /\ <<33>> \in Seq(Int) /\ Len(<<33>>) = 1 /\ <<34>> \in Seq(Int) /\ Len(<<34>>) = 1
    OBVIOUS
<1>3. PICK one, two, three : /\ one = <<16, 20>> \o SubSeq(bytes, 1, 6)
                             /\ two = <<33>> \o SubSeq(bytes, 7, 13)
                             /\ three = <<34>> \o SubSeq(bytes, 14, 20)
    OBVIOUS
<1>4. /\ one \in Seq(Int) /\ Len(one) = 8 /\ one[1] = 16 /\ one[2] = 20
      /\ \A i \in 1 .. 6 : one[2 + i] = bytes[i]
    <2>1. PICK head \in Seq(Int) : head = <<16, 20>>
        BY <1>2
    <2>2. Framed(one, head, 1, 6)
        <3>1. 1 \in 1 .. 20 /\ 6 \in 1 .. 20 /\ one = head \o SubSeq(bytes, 1, 6)
            BY <1>3, <2>1
        <3> QED BY ONLY <1>1, <3>1, head \in Seq(Int)
    <2>3. Len(head) = 2 /\ head[1] = 16 /\ head[2] = 20
        BY <2>1
    <2> QED BY ONLY <2>2, <2>3 DEF Framed
<1>5. /\ two \in Seq(Int) /\ Len(two) = 8 /\ two[1] = 33
      /\ \A i \in 1 .. 7 : two[1 + i] = bytes[6 + i]
    <2>1. PICK head \in Seq(Int) : head = <<33>>
        BY <1>2
    <2>2. Framed(two, head, 7, 13)
        <3>1. 7 \in 1 .. 20 /\ 13 \in 7 .. 20 /\ two = head \o SubSeq(bytes, 7, 13)
            BY <1>3, <2>1
        <3> QED BY ONLY <1>1, <3>1, head \in Seq(Int)
    <2>3. Len(head) = 1 /\ head[1] = 33
        BY <2>1
    <2> QED BY ONLY <2>2, <2>3 DEF Framed
<1>6. /\ three \in Seq(Int) /\ Len(three) = 8 /\ three[1] = 34
      /\ \A i \in 1 .. 7 : three[1 + i] = bytes[13 + i]
    <2>1. PICK head \in Seq(Int) : head = <<34>>
        BY <1>2
    <2>2. Framed(three, head, 14, 20)
        <3>1. 14 \in 1 .. 20 /\ 20 \in 14 .. 20 /\ three = head \o SubSeq(bytes, 14, 20)
            BY <1>3, <2>1
        <3> QED BY ONLY <1>1, <3>1, head \in Seq(Int)
    <2>3. Len(head) = 1 /\ head[1] = 34
        BY <2>1
    <2> QED BY ONLY <2>2, <2>3 DEF Framed
<1>7. Segments(bytes) = <<one, two, three>>
    BY <1>3 DEF Segments
<1>8. \A k \in 1 .. 3 : k = 1 \/ k = 2 \/ k = 3
    OBVIOUS
<1> QED BY <1>4, <1>5, <1>6, <1>7, <1>8

\* The text of a frame is what comes after its first bytes; the first byte that
\* is a digit or an upper-case letter is that of the VIN, or the 73 of mode 9.
LEMMA FrameText ==
    ASSUME NEW bytes, NEW frame \in Seq(Int), Len(frame) = 8, NEW p \in 1 .. 8,
           NEW after \in Nat, \A i \in 1 .. 9 - p : frame[p - 1 + i] = bytes[after + i],
           Clean(frame[p]), \A i \in 1 .. p - 1 : ~ Clean(frame[i]),
           \A i \in p .. 8 : frame[i] < 128,
           NEW digits, Evened(digits) = Hex(frame)
    PROVE  Piece(Cleaned(digits), bytes, after, 9 - p)
<1>1. Cleaned(digits) = SubSeq(frame, p, 8)
    <2>1. Cleaned(digits) = SubSeq(frame, p, Len(frame))
        BY CleanedIs
    <2> QED BY <2>1
<1>2. PICK part : part = SubSeq(frame, p, 8)
    OBVIOUS
<1>3. /\ part \in Seq(Int) /\ Len(part) = 8 - p + 1
      /\ \A i \in 1 .. 8 - p + 1 : part[i] = frame[p + i - 1]
    <2>1. p \in Nat \ {0} /\ 8 \in Nat /\ 8 <= Len(frame) /\ p <= 8 + 1
        OBVIOUS
    <2> QED BY ONLY <1>2, <2>1, frame \in Seq(Int), PartOf
<1>4. ASSUME NEW i \in 1 .. 9 - p PROVE part[i] = bytes[after + i]
    <2>1. p + i - 1 = p - 1 + i /\ 8 - p + 1 = 9 - p
        OBVIOUS
    <2>2. part[i] = frame[p - 1 + i]
        BY ONLY <1>3, <2>1, i \in 1 .. 9 - p
    <2> QED BY <2>2
<1>5. Len(part) = 9 - p
    BY ONLY <1>3, p \in 1 .. 8
<1> QED BY <1>1, <1>2, <1>3, <1>4, <1>5 DEF Piece

\* The texts of the frames of an answer to a VIN query: its bytes from the 73 on,
\* with mode 9, and from the VIN on, with service 34.
LEMMA VinPieces ==
    ASSUME NEW q \in VinQueries, NEW vin \in VINs, NEW id \in Ids
    PROVE  \E p \in {3, 6}, bytes \in Seq(Int) :
               /\ Len(bytes) = 20 /\ \A i \in 1 .. 17 : bytes[3 + i] = vin[i]
               /\ VinAnswer(q, id, vin) = [k \in 1 .. 3 |-> Line(id, Segments(bytes)[k])]
               /\ \A digits :
                      /\ Evened(digits) = Hex(Segments(bytes)[1]) =>
                             Piece(Cleaned(digits), bytes, p - 3, 9 - p)
                      /\ Evened(digits) = Hex(Segments(bytes)[2]) =>
                             Piece(Cleaned(digits), bytes, 6, 7)
                      /\ Evened(digits) = Hex(Segments(bytes)[3]) =>
                             Piece(Cleaned(digits), bytes, 13, 7)
<1>1. vin \in Seq(Int) /\ Len(vin) = 17
    BY DecodingAssumption, BytesAreNumbers DEF DecodingAssumption
<1>2. \A i \in 1 .. 17 : Clean(vin[i]) /\ vin[i] \in Int /\ vin[i] < 128
    <2>1. \A i \in 1 .. 17 : vin[i] \in (48 .. 57) \cup (65 .. 90)
        <3>1. DOMAIN vin = 1 .. 17
            BY <1>1
        <3>2. \A i \in DOMAIN vin : vin[i] \in (48 .. 57) \cup (65 .. 90)
            BY VINAssumption DEF VINAssumption
        <3> QED BY ONLY <3>1, <3>2
    <2> QED BY <2>1 DEF Clean
<1>3. \A head : head = (IF q.mode = 9 THEN <<73, 2, 1>> ELSE <<98, 241, 144>>) =>
          VinAnswer(q, id, vin) = [k \in 1 .. 3 |-> Line(id, Segments(head \o vin)[k])]
    BY DEF VinAnswer
<1>4. PICK head : head = IF q.mode = 9 THEN <<73, 2, 1>> ELSE <<98, 241, 144>>
    OBVIOUS
<1>5. IF q.mode = 9 THEN head[1] = 73 /\ head[2] = 2 /\ head[3] = 1
       ELSE head[1] = 98 /\ head[2] = 241 /\ head[3] = 144
    BY <1>4
<1>6. head \in Seq(Int) /\ Len(head) = 3
    <2>1. CASE q.mode = 9
        BY ONLY <1>4, <2>1
    <2>2. CASE q.mode # 9
        BY ONLY <1>4, <2>2
    <2> QED BY <2>1, <2>2
<1>7. PICK bytes : bytes = head \o vin
    OBVIOUS
<1>8. /\ bytes \in Seq(Int) /\ Len(bytes) = 20
      /\ \A i \in 1 .. 3 : bytes[i] = head[i]
      /\ \A i \in 1 .. 17 : bytes[3 + i] = vin[i]
    <2>1. /\ bytes \in Seq(Int) /\ Len(bytes) = Len(head) + Len(vin)
          /\ \A i \in 1 .. Len(head) : bytes[i] = head[i]
          /\ \A i \in 1 .. Len(vin) : bytes[Len(head) + i] = vin[i]
        BY ONLY <1>1, <1>6, <1>7, Joined
    <2> QED BY ONLY <1>1, <1>6, <2>1
<1>9. PICK one, two, three : /\ one = Segments(bytes)[1] /\ two = Segments(bytes)[2]
                             /\ three = Segments(bytes)[3]
    OBVIOUS
<1>10. /\ one \in Seq(Int) /\ Len(one) = 8 /\ two \in Seq(Int) /\ Len(two) = 8
       /\ three \in Seq(Int) /\ Len(three) = 8
       /\ one[1] = 16 /\ one[2] = 20 /\ two[1] = 33 /\ three[1] = 34
       /\ \A i \in 1 .. 6 : one[2 + i] = bytes[i]
       /\ \A i \in 1 .. 7 : two[1 + i] = bytes[6 + i]
       /\ \A i \in 1 .. 7 : three[1 + i] = bytes[13 + i]
    <2>1. 1 \in 1 .. 3 /\ 2 \in 1 .. 3 /\ 3 \in 1 .. 3
        OBVIOUS
    <2> QED BY <1>8, <1>9, <2>1, SegmentsAre
<1>11. \A i \in 4 .. 20 : Clean(bytes[i]) /\ bytes[i] \in Int /\ bytes[i] < 128
    <2> SUFFICES ASSUME NEW i \in 4 .. 20
                 PROVE  Clean(bytes[i]) /\ bytes[i] \in Int /\ bytes[i] < 128
        OBVIOUS
    <2>1. PICK j \in 1 .. 17 : i = 3 + j
        <3>1. i - 3 \in 1 .. 17 /\ i = 3 + (i - 3)
            OBVIOUS
        <3> QED BY <3>1
    <2>2. bytes[i] = vin[j]
        BY <1>8, <2>1
    <2> QED BY <1>2, <2>2
<1>12. \A b \in {16, 20, 33, 34, 98, 241, 144} : ~ Clean(b)
    BY DEF Clean
<1>13. ASSUME NEW digits, Evened(digits) = Hex(two) PROVE Piece(Cleaned(digits), bytes, 6, 7)
    <2>1. \A j \in 1 .. 7 : two[1 + j] = bytes[6 + j] /\ 6 + j \in 4 .. 20
        BY <1>10
    <2>2. ASSUME NEW i \in 2 .. 8 PROVE Clean(two[i]) /\ two[i] < 128
        <3>1. PICK j \in 1 .. 7 : i = 1 + j
            <4>1. i - 1 \in 1 .. 7 /\ i = 1 + (i - 1)
                OBVIOUS
            <4> QED BY <4>1
        <3> QED BY <1>11, <2>1, <3>1
    <2>3. \A i \in 1 .. 2 - 1 : ~ Clean(two[i])
        <3>1. \A i \in 1 .. 2 - 1 : i = 1
            OBVIOUS
        <3> QED BY <1>10, <1>12, <3>1
    <2>4. \A i \in 1 .. 9 - 2 : two[2 - 1 + i] = bytes[6 + i]
        <3>1. 9 - 2 = 7 /\ 2 - 1 = 1
            OBVIOUS
        <3> QED BY <2>1, <3>1
    <2>5. 2 \in 1 .. 8 /\ 2 \in 2 .. 8 /\ 6 \in Nat
        OBVIOUS
    <2>6. Piece(Cleaned(digits), bytes, 6, 9 - 2)
        BY <1>10, <1>13, <2>2, <2>3, <2>4, <2>5, FrameText
    <2> QED BY <2>6
<1>14. ASSUME NEW digits, Evened(digits) = Hex(three) PROVE Piece(Cleaned(digits), bytes, 13, 7)
    <2>1. \A j \in 1 .. 7 : three[1 + j] = bytes[13 + j] /\ 13 + j \in 4 .. 20
        BY <1>10
    <2>2. ASSUME NEW i \in 2 .. 8 PROVE Clean(three[i]) /\ three[i] < 128
        <3>1. PICK j \in 1 .. 7 : i = 1 + j
            <4>1. i - 1 \in 1 .. 7 /\ i = 1 + (i - 1)
                OBVIOUS
            <4> QED BY <4>1
        <3> QED BY <1>11, <2>1, <3>1
    <2>3. \A i \in 1 .. 2 - 1 : ~ Clean(three[i])
        <3>1. \A i \in 1 .. 2 - 1 : i = 1
            OBVIOUS
        <3> QED BY <1>10, <1>12, <3>1
    <2>4. \A i \in 1 .. 9 - 2 : three[2 - 1 + i] = bytes[13 + i]
        <3>1. 9 - 2 = 7 /\ 2 - 1 = 1
            OBVIOUS
        <3> QED BY <2>1, <3>1
    <2>5. 2 \in 1 .. 8 /\ 2 \in 2 .. 8 /\ 13 \in Nat
        OBVIOUS
    <2>6. Piece(Cleaned(digits), bytes, 13, 9 - 2)
        BY <1>10, <1>14, <2>2, <2>3, <2>4, <2>5, FrameText
    <2> QED BY <2>6
<1>15. \A i \in 1 .. 6 : one[2 + i] = bytes[i]
    BY <1>10
<1>16. /\ one[3] = bytes[1] /\ one[4] = bytes[2] /\ one[5] = bytes[3]
       /\ one[6] = bytes[4] /\ one[7] = bytes[5] /\ one[8] = bytes[6]
       /\ bytes[1] = head[1] /\ bytes[2] = head[2] /\ bytes[3] = head[3]
       /\ Clean(bytes[4]) /\ bytes[4] < 128 /\ bytes[5] < 128 /\ bytes[6] < 128
    BY <1>8, <1>11, <1>15
<1>17. CASE q.mode = 9
    <2>1. ASSUME NEW digits, Evened(digits) = Hex(one)
          PROVE  Piece(Cleaned(digits), bytes, 3 - 3, 9 - 3)
        <3>1. \A i \in 3 .. 8 : i = 3 \/ i = 4 \/ i = 5 \/ i = 6 \/ i = 7 \/ i = 8
            OBVIOUS
        <3>2. Clean(one[3]) /\ \A i \in 3 .. 8 : one[i] < 128
            <4>1. one[3] = 73 /\ one[4] = 2 /\ one[5] = 1
                BY <1>16, <1>17, <1>5
            <4> QED BY <1>16, <3>1, <4>1 DEF Clean
        <3>3. \A i \in 1 .. 3 - 1 : ~ Clean(one[i])
            <4>1. \A i \in 1 .. 3 - 1 : i = 1 \/ i = 2
                OBVIOUS
            <4> QED BY <1>10, <1>12, <4>1
        <3>4. \A i \in 1 .. 9 - 3 : one[3 - 1 + i] = bytes[3 - 3 + i]
            BY <1>15
        <3>5. 3 \in 1 .. 8 /\ 3 - 3 \in Nat
            OBVIOUS
        <3> QED BY <1>10, <2>1, <3>2, <3>3, <3>4, <3>5, FrameText
    <2>2. /\ VinAnswer(q, id, vin) = [k \in 1 .. 3 |-> Line(id, Segments(bytes)[k])]
          /\ \A digits :
                 /\ Evened(digits) = Hex(Segments(bytes)[1]) =>
                        Piece(Cleaned(digits), bytes, 3 - 3, 9 - 3)
                 /\ Evened(digits) = Hex(Segments(bytes)[2]) => Piece(Cleaned(digits), bytes, 6, 7)
                 /\ Evened(digits) = Hex(Segments(bytes)[3]) => Piece(Cleaned(digits), bytes, 13, 7)
        BY ONLY <1>3, <1>4, <1>7, <1>9, <1>13, <1>14, <2>1
    <2> QED BY ONLY <1>8, <2>2, 3 \in {3, 6}
<1>18. CASE q.mode # 9
    <2>1. ASSUME NEW digits, Evened(digits) = Hex(one)
          PROVE  Piece(Cleaned(digits), bytes, 6 - 3, 9 - 6)
        <3>1. \A i \in 6 .. 8 : i = 6 \/ i = 7 \/ i = 8
            OBVIOUS
        <3>2. Clean(one[6]) /\ \A i \in 6 .. 8 : one[i] < 128
            BY <1>16, <3>1
        <3>3. \A i \in 1 .. 6 - 1 : ~ Clean(one[i])
            <4>1. \A i \in 1 .. 6 - 1 : i = 1 \/ i = 2 \/ i = 3 \/ i = 4 \/ i = 5
                OBVIOUS
            <4>2. one[3] = 98 /\ one[4] = 241 /\ one[5] = 144
                BY <1>16, <1>18, <1>5
            <4>3. \A i \in 1 .. 6 - 1 : one[i] \in {16, 20, 98, 241, 144}
                BY ONLY <1>10, <4>1, <4>2
            <4> QED BY ONLY <1>12, <4>3
        <3>4. \A i \in 1 .. 9 - 6 : one[6 - 1 + i] = bytes[6 - 3 + i]
            <4>1. ASSUME NEW i \in 1 .. 3 PROVE 3 + i \in 1 .. 6 /\ 2 + (3 + i) = 5 + i
                OBVIOUS
            <4> QED BY <1>15, <4>1
        <3>5. 6 \in 1 .. 8 /\ 6 - 3 \in Nat
            OBVIOUS
        <3> QED BY <1>10, <2>1, <3>2, <3>3, <3>4, <3>5, FrameText
    <2>2. /\ VinAnswer(q, id, vin) = [k \in 1 .. 3 |-> Line(id, Segments(bytes)[k])]
          /\ \A digits :
                 /\ Evened(digits) = Hex(Segments(bytes)[1]) =>
                        Piece(Cleaned(digits), bytes, 6 - 3, 9 - 6)
                 /\ Evened(digits) = Hex(Segments(bytes)[2]) => Piece(Cleaned(digits), bytes, 6, 7)
                 /\ Evened(digits) = Hex(Segments(bytes)[3]) => Piece(Cleaned(digits), bytes, 13, 7)
        BY ONLY <1>3, <1>4, <1>7, <1>9, <1>13, <1>14, <2>1
    <2> QED BY ONLY <1>8, <2>2, 6 \in {3, 6}
<1> QED BY <1>17, <1>18

\* The text of three frames, added while there is less than a VIN, is theirs.
LEMMA ThreeFrames ==
    ASSUME NEW bytes, NEW p \in {3, 6}, NEW one, NEW two, NEW three,
           Piece(one, bytes, p - 3, 9 - p), Piece(two, bytes, 6, 7), Piece(three, bytes, 13, 7),
           NEW t0, NEW t1, NEW t2, NEW t3, t0 = <<>>,
           t1 = IF Len(t0) < 17 THEN t0 \o one ELSE t0,
           t2 = IF Len(t1) < 17 THEN t1 \o two ELSE t1,
           t3 = IF Len(t2) < 17 THEN t2 \o three ELSE t2
    PROVE  Piece(t3, bytes, p - 3, 23 - p)
<1>1. /\ p - 3 \in Nat /\ 9 - p \in Nat /\ 16 - p \in Nat /\ 7 \in Nat /\ 16 - p < 17 /\ 9 - p < 17
      /\ p - 3 + (9 - p) = 6 /\ 9 - p + 7 = 16 - p
      /\ p - 3 + (16 - p) = 13 /\ 16 - p + 7 = 23 - p
    OBVIOUS
<1>2. t1 = one
    <2>1. one \in Seq(Int)
        BY DEF Piece
    <2>2. <<>> \o one = one
        BY <2>1, ConcatEmptySeq
    <2>3. Len(t0) < 17
        OBVIOUS
    <2> QED BY ONLY <2>2, <2>3, t0 = <<>>, t1 = IF Len(t0) < 17 THEN t0 \o one ELSE t0
<1>3. t2 = one \o two /\ Piece(t2, bytes, p - 3, 16 - p)
    <2>1. Len(one) = 9 - p
        BY DEF Piece
    <2>2. t2 = one \o two
        BY ONLY <1>1, <1>2, <2>1, t2 = IF Len(t1) < 17 THEN t1 \o two ELSE t1
    <2>3. Piece(two, bytes, p - 3 + (9 - p), 7)
        BY <1>1
    <2>4. PICK after \in Nat, m \in Nat : after = p - 3 /\ m = 9 - p
        BY <1>1
    <2>5. Piece(one \o two, bytes, after, m + 7)
        BY ONLY PiecesJoin, <2>3, <2>4, 7 \in Nat, Piece(one, bytes, p - 3, 9 - p)
    <2> QED BY ONLY <1>1, <2>2, <2>4, <2>5
<1>4. t3 = t2 \o three
    <2>1. Len(t2) = 16 - p
        BY <1>3 DEF Piece
    <2> QED BY ONLY <1>1, <2>1, t3 = IF Len(t2) < 17 THEN t2 \o three ELSE t2
<1>5. Piece(three, bytes, p - 3 + (16 - p), 7)
    BY <1>1
<1>6. PICK after \in Nat, m \in Nat : after = p - 3 /\ m = 16 - p
    BY <1>1
<1>7. Piece(t2 \o three, bytes, after, m + 7)
    BY ONLY PiecesJoin, <1>3, <1>5, <1>6, 7 \in Nat
<1> QED BY ONLY <1>1, <1>4, <1>6, <1>7

\* The last 17 bytes of it are the VIN.
EndsIn(text, vin) ==
    SubSeq(text, IF Len(text) > 17 THEN Len(text) - 16 ELSE 1, Len(text)) = vin

LEMMA LastOfText ==
    ASSUME NEW bytes, NEW text, NEW after \in {0, 3}, NEW n, n = 20 - after,
           Piece(text, bytes, after, n),
           NEW vin \in Seq(Int), Len(vin) = 17, \A i \in 1 .. 17 : bytes[3 + i] = vin[i]
    PROVE  EndsIn(text, vin)
<1>1. /\ text \in Seq(Int) /\ Len(text) = n
      /\ \A i \in 1 .. n : text[i] = bytes[after + i]
    BY DEF Piece
<1>2. PICK first \in Nat : first = 4 - after
    BY ONLY after \in {0, 3}
<1>3. (IF Len(text) > 17 THEN Len(text) - 16 ELSE 1) = first
    BY ONLY <1>1, <1>2, after \in {0, 3}, n = 20 - after
<1>4. PICK last : last = SubSeq(text, first, Len(text))
    OBVIOUS
<1>5. /\ last \in Seq(Int) /\ Len(last) = Len(text) - first + 1
      /\ \A i \in 1 .. Len(text) - first + 1 : last[i] = text[first + i - 1]
    <2>1. /\ first \in Nat \ {0} /\ Len(text) \in Nat /\ Len(text) <= Len(text)
          /\ first <= Len(text) + 1
        BY ONLY <1>1, <1>2, after \in {0, 3}, n = 20 - after
    <2> QED BY ONLY <1>1, <1>4, <2>1, PartOf
<1>6. Len(text) - first + 1 = 17
    BY ONLY <1>1, <1>2, after \in {0, 3}, n = 20 - after
<1>7. ASSUME NEW i \in 1 .. 17 PROVE last[i] = vin[i]
    <2>1. first + i - 1 \in 1 .. n /\ after + (first + i - 1) = 3 + i
        BY ONLY <1>2, after \in {0, 3}, n = 20 - after, i \in 1 .. 17
    <2>2. last[i] = text[first + i - 1]
        BY ONLY <1>5, <1>6, i \in 1 .. 17
    <2>3. text[first + i - 1] = bytes[3 + i]
        BY ONLY <1>1, <2>1
    <2> QED BY <2>2, <2>3
<1>8. last = vin
    BY ONLY <1>5, <1>6, <1>7, vin \in Seq(Int), Len(vin) = 17, SameSequence
<1> QED BY <1>3, <1>4, <1>8 DEF EndsIn

\* A line of an answer: the digits of its identifier, the first digit of its
\* data, and what is cleaned of it.
IsLine(line, id, data, start) ==
    /\ line \in Seq(Int) /\ IdLength(line) = start
    /\ Len(line) \in Nat /\ Len(line) >= 6 /\ Len(line) > start
    /\ \A i \in 1 .. start : line[i] = IdDigits(id)[i]
    /\ line[start + 1] = data[1] \div 16
    /\ Evened(SubSeq(line, start, Len(line))) = Hex(data)
    /\ Cleaned(SubSeq(line, start, Len(line))) = Cleaned(SubSeq(line, start + 1, Len(line)))

LEMMA LineOfAnswer ==
    ASSUME NEW id \in Ids, NEW data \in Seq(Int), Len(data) >= 4
    PROVE  IsLine(Line(id, data), id, data, Len(IdDigits(id)))
<1> DEFINE line == Line(id, data)
           start == Len(IdDigits(id))
<1>1. PICK n \in Nat : n = Len(data) /\ n >= 4
    OBVIOUS
<1>2. /\ line \in Seq(Int) /\ IdLength(line) \in {3, 8} /\ IdLength(line) = start
      /\ Len(line) = IdLength(line) + 2 * Len(data)
      /\ \A i \in 1 .. IdLength(line) : line[i] = IdDigits(id)[i]
      /\ \A i \in 1 .. 2 * Len(data) : line[IdLength(line) + i] = Hex(data)[i]
    BY LineDigits
<1> HIDE DEF line, start
<1>3. Len(line) = start + 2 * n /\ start \in {3, 8}
    BY ONLY <1>1, <1>2
<1>4. Len(line) \in Nat /\ Len(line) >= 6 /\ Len(line) > start
    BY ONLY <1>1, <1>3
<1>5. line[start + 1] = data[1] \div 16
    <2>1. 1 \in 1 .. Len(data) /\ 1 \in 1 .. 2 * Len(data) /\ 2 * 1 - 1 = 1
        BY <1>1
    <2>2. \A k \in 1 .. Len(data) : Hex(data)[2 * k - 1] = data[k] \div 16
        BY HexDigits
    <2>3. Hex(data)[2 * 1 - 1] = data[1] \div 16
        BY ONLY <2>1, <2>2
    <2>4. line[start + 1] = Hex(data)[1]
        BY ONLY <1>2, <2>1
    <2> QED BY ONLY <2>1, <2>3, <2>4
<1>6. /\ Evened(SubSeq(line, start, Len(line))) = Hex(data)
      /\ Evened(SubSeq(line, start + 1, Len(line))) = Hex(data)
    BY <1>2, EvenedRest DEF line
<1>7. \A a, b : Evened(a) = Evened(b) => Cleaned(a) = Cleaned(b)
    BY DEF Cleaned
<1> QED BY <1>2, <1>3, <1>4, <1>5, <1>6, <1>7 DEF IsLine, line, start

\* The VIN is what is extracted of the three lines of an answer, and of four when
\* the first is a refusal that gives no text.
AnswerLines(lines, n, q, id, vin, refused) ==
    /\ Len(lines) = n /\ DOMAIN lines = 1 .. n
    /\ \A k \in 1 .. 3 : lines[n - 3 + k] = VinAnswer(q, id, vin)[k]
    /\ refused \in Seq(Int) /\ Len(refused) >= 4 /\ refused[1] = 3
    /\ n = 4 => /\ lines[1] = Line(id, refused)
                /\ Cleaned(SubSeq(lines[1], IdLength(lines[1]) + 1, Len(lines[1]))) = <<>>

LEMMA ExtractedFrom ==
    ASSUME NEW q \in VinQueries, NEW vin \in VINs, NEW id \in Ids, NEW n \in {3, 4},
           NEW lines, NEW refused, AnswerLines(lines, n, q, id, vin, refused)
    PROVE  extractVIN(lines) = [kind |-> "vin", vin |-> vin]
<1> SUFFICES ASSUME Len(lines) = n, DOMAIN lines = 1 .. n,
                    \A k \in 1 .. 3 : lines[n - 3 + k] = VinAnswer(q, id, vin)[k],
                    refused \in Seq(Int), Len(refused) >= 4, refused[1] = 3,
                    n = 4 => /\ lines[1] = Line(id, refused)
                             /\ Cleaned(SubSeq(lines[1], IdLength(lines[1]) + 1,
                                               Len(lines[1]))) = <<>>
             PROVE  extractVIN(lines) = [kind |-> "vin", vin |-> vin]
    BY DEF AnswerLines
<1>1. PICK p \in {3, 6}, bytes \in Seq(Int) :
          /\ Len(bytes) = 20 /\ \A i \in 1 .. 17 : bytes[3 + i] = vin[i]
          /\ VinAnswer(q, id, vin) = [k \in 1 .. 3 |-> Line(id, Segments(bytes)[k])]
          /\ \A digits :
                 /\ Evened(digits) = Hex(Segments(bytes)[1]) =>
                        Piece(Cleaned(digits), bytes, p - 3, 9 - p)
                 /\ Evened(digits) = Hex(Segments(bytes)[2]) =>
                        Piece(Cleaned(digits), bytes, 6, 7)
                 /\ Evened(digits) = Hex(Segments(bytes)[3]) =>
                        Piece(Cleaned(digits), bytes, 13, 7)
    BY ONLY VinPieces, q \in VinQueries, vin \in VINs, id \in Ids
<1>2. PICK start : start = Len(IdDigits(id)) /\ start \in {3, 8}
    BY IdDigitsAre
<1> DEFINE cut(k) == SubSeq(lines[k], start, Len(lines[k]))
<1>3. ASSUME NEW k \in 1 .. 3
      PROVE  /\ Segments(bytes)[k] \in Seq(Int) /\ Len(Segments(bytes)[k]) = 8
             /\ lines[n - 3 + k] = Line(id, Segments(bytes)[k])
    <2>1. Segments(bytes)[k] \in Seq(Int) /\ Len(Segments(bytes)[k]) = 8
        BY ONLY <1>1, SegmentsAre, k \in 1 .. 3
    <2>2. VinAnswer(q, id, vin)[k] = Line(id, Segments(bytes)[k])
        BY ONLY <1>1, k \in 1 .. 3
    <2>3. lines[n - 3 + k] = VinAnswer(q, id, vin)[k]
        OBVIOUS
    <2> QED BY ONLY <2>1, <2>2, <2>3
<1>4. Segments(bytes)[1][1] = 16 /\ Segments(bytes)[2][1] = 33
    BY ONLY <1>1, SegmentsAre
<1>5. ASSUME NEW k \in 1 .. n
      PROVE  /\ Len(lines[k]) \in Nat /\ Len(lines[k]) >= 6 /\ Len(lines[k]) > start
             /\ \A i \in 1 .. start : lines[k][i] = IdDigits(id)[i]
    <2>1. PICK data \in Seq(Int) : Len(data) >= 4 /\ lines[k] = Line(id, data)
        <3>1. CASE n = 4 /\ k = 1
            BY <3>1
        <3>2. CASE ~ (n = 4 /\ k = 1)
            <4>1. PICK j \in 1 .. 3 : k = n - 3 + j
                <5>1. k - (n - 3) \in 1 .. 3 /\ k = n - 3 + (k - (n - 3))
                    BY ONLY <3>2, n \in {3, 4}, k \in 1 .. n
                <5> QED BY <5>1
            <4>2. Segments(bytes)[j] \in Seq(Int) /\ Len(Segments(bytes)[j]) >= 4
                <5>1. Len(Segments(bytes)[j]) = 8 /\ 8 >= 4
                    BY ONLY <1>3, j \in 1 .. 3
                <5> QED BY ONLY <1>3, <5>1, j \in 1 .. 3
            <4>3. lines[k] = Line(id, Segments(bytes)[j])
                BY ONLY <1>3, <4>1
            <4> QED BY ONLY <4>2, <4>3
        <3> QED BY <3>1, <3>2
    <2>2. PICK line : line = lines[k]
        OBVIOUS
    <2>3. /\ Len(line) \in Nat /\ Len(line) >= 6 /\ Len(line) > start
          /\ \A i \in 1 .. start : line[i] = IdDigits(id)[i]
        <3>1. IsLine(Line(id, data), id, data, Len(IdDigits(id)))
            BY ONLY <2>1, id \in Ids, data \in Seq(Int), LineOfAnswer
        <3> QED BY ONLY <1>2, <2>1, <2>2, <3>1 DEF IsLine
    <2> QED BY ONLY <2>2, <2>3
<1>6. /\ \A k \in 1 .. 3 : lines[n - 3 + k][start + 1] = Segments(bytes)[k][1] \div 16
      /\ \A k \in 1 .. 3 : Evened(cut(n - 3 + k)) = Hex(Segments(bytes)[k])
      /\ n = 4 => lines[1][start + 1] = 0 /\ Cleaned(cut(1)) = <<>>
    <2>1. ASSUME NEW k \in 1 .. 3
          PROVE  /\ lines[n - 3 + k][start + 1] = Segments(bytes)[k][1] \div 16
                 /\ Evened(cut(n - 3 + k)) = Hex(Segments(bytes)[k])
        <3>1. PICK data, line : data = Segments(bytes)[k] /\ line = lines[n - 3 + k]
            OBVIOUS
        <3>3. data \in Seq(Int) /\ Len(data) >= 4 /\ line = Line(id, data)
            <4>1. Len(data) = 8 /\ 8 >= 4
                BY ONLY <1>3, <3>1, k \in 1 .. 3
            <4> QED BY ONLY <1>3, <3>1, <4>1, k \in 1 .. 3
        <3>2. /\ line[start + 1] = data[1] \div 16
              /\ Evened(SubSeq(line, start, Len(line))) = Hex(data)
            <4>1. IsLine(Line(id, data), id, data, Len(IdDigits(id)))
                BY ONLY <3>3, id \in Ids, LineOfAnswer
            <4> QED BY ONLY <1>2, <3>3, <4>1 DEF IsLine
        <3> QED BY <3>1, <3>2
    <2>2. ASSUME n = 4 PROVE lines[1][start + 1] = 0 /\ Cleaned(cut(1)) = <<>>
        <3>1. PICK line : line = lines[1] /\ line = Line(id, refused)
            BY <2>2
        <3>2. /\ line[start + 1] = refused[1] \div 16 /\ IdLength(line) = start
              /\ Cleaned(SubSeq(line, start, Len(line)))
                     = Cleaned(SubSeq(line, start + 1, Len(line)))
            <4>1. IsLine(Line(id, refused), id, refused, Len(IdDigits(id)))
                BY ONLY id \in Ids, refused \in Seq(Int), Len(refused) >= 4, LineOfAnswer
            <4> QED BY ONLY <1>2, <3>1, <4>1 DEF IsLine
        <3>3. 3 \div 16 = 0
            OBVIOUS
        <3> QED BY <2>2, <3>1, <3>2, <3>3
    <2> HIDE DEF cut
    <2> QED BY <2>1, <2>2
<1>7. findVINLineStart(lines) = start - 1
    <2>1. 16 \div 16 = 1 /\ 33 \div 16 = 2
        OBVIOUS
    <2>2. lines[2][start + 1] # lines[1][start + 1]
        <3>1. CASE n = 3
            <4>1. 1 \in 1 .. 3 /\ 2 \in 1 .. 3 /\ n - 3 + 1 = 1 /\ n - 3 + 2 = 2
                BY ONLY <3>1
            <4>2. lines[1][start + 1] = 1 /\ lines[2][start + 1] = 2
                BY ONLY <1>4, <1>6, <2>1, <4>1
            <4> QED BY <4>2
        <3>2. CASE n = 4
            <4>1. 1 \in 1 .. 3 /\ n - 3 + 1 = 2
                BY ONLY <3>2
            <4>2. lines[1][start + 1] = 0 /\ lines[2][start + 1] = 1
                BY ONLY <1>4, <1>6, <2>1, <3>2, <4>1
            <4> QED BY <4>2
        <3> QED BY <3>1, <3>2
    <2>3. \A k \in 1 .. n : Len(lines[k]) \in Nat /\ Len(lines[k]) >= 5 /\ Len(lines[k]) > start
        BY <1>5
    <2>4. \A k \in 1 .. n : \A i \in 1 .. start : lines[k][i] = lines[1][i]
        <3>1. 1 \in 1 .. n
            OBVIOUS
        <3> QED BY <1>5, <3>1
    <2>5. n \in Nat \ {0} /\ start \in Nat /\ start # 5 /\ 2 \in 1 .. n
        <3>1. start = 3 \/ start = 8
            BY ONLY <1>2
        <3>2. n = 3 \/ n = 4
            OBVIOUS
        <3> QED BY ONLY <3>1, <3>2
    <2> QED BY ONLY <2>2, <2>3, <2>4, <2>5, DOMAIN lines = 1 .. n, LineStartAt
<1>8. /\ Piece(Cleaned(cut(n - 3 + 1)), bytes, p - 3, 9 - p)
      /\ Piece(Cleaned(cut(n - 3 + 2)), bytes, 6, 7)
      /\ Piece(Cleaned(cut(n - 3 + 3)), bytes, 13, 7)
    <2>1. 1 \in 1 .. 3 /\ 2 \in 1 .. 3 /\ 3 \in 1 .. 3
        OBVIOUS
    <2> HIDE DEF cut
    <2> QED BY ONLY <1>1, <1>6, <2>1
<1> HIDE DEF cut
<1>9. \A k \in 1 .. n : Cleaned(cut(k)) \in Seq(Int)
    <2> SUFFICES ASSUME NEW k \in 1 .. n PROVE Cleaned(cut(k)) \in Seq(Int)
        OBVIOUS
    <2>1. CASE n = 4 /\ k = 1
        <3>1. <<>> \in Seq(Int)
            OBVIOUS
        <3> QED BY ONLY <1>6, <2>1, <3>1
    <2>2. CASE ~ (n = 4 /\ k = 1)
        <3>1. k = n - 3 + 1 \/ k = n - 3 + 2 \/ k = n - 3 + 3
            BY ONLY <2>2, n \in {3, 4}, k \in 1 .. n
        <3> QED BY <1>8, <3>1 DEF Piece
    <2> QED BY <2>1, <2>2
<1>10. PICK text : /\ text[0] = <<>> /\ Gathered(lines, start - 1) = text[n]
                   /\ \A k \in 1 .. n : text[k] = IF Len(text[k - 1]) < 17
                                                  THEN text[k - 1] \o Cleaned(cut(k))
                                                  ELSE text[k - 1]
    <2>1. start - 1 + 1 = start
        BY <1>2
    <2>2. \A k \in 1 .. n :
              /\ Len(lines[k]) >= 6
              /\ Cleaned(SubSeq(lines[k], start - 1 + 1, Len(lines[k]))) \in Seq(Int)
        BY <1>5, <1>9, <2>1 DEF cut
    <2>3. Len(lines) \in Nat /\ \A k \in 1 .. Len(lines) : k \in 1 .. n
        OBVIOUS
    <2>4. PICK before : before = start - 1
        OBVIOUS
    <2>5. PICK text : GrowsBy(text, lines, before) /\ Gathered(lines, before) = text[Len(lines)]
        <3>1. \A k \in 1 .. Len(lines) :
                  /\ Len(lines[k]) >= 6
                  /\ Cleaned(SubSeq(lines[k], before + 1, Len(lines[k]))) \in Seq(Int)
            BY ONLY <2>2, <2>3, <2>4
        <3>2. Len(lines) \in Nat
            BY <2>3
        <3> QED BY ONLY <3>1, <3>2, GatheredSteps
    <2>6. \A k \in 1 .. n : text[k] = IF Len(text[k - 1]) < 17
                                      THEN text[k - 1] \o Cleaned(cut(k))
                                      ELSE text[k - 1]
        <3>1. before + 1 = start
            BY ONLY <2>1, <2>4
        <3> QED BY ONLY <2>5, <3>1, Len(lines) = n DEF GrowsBy, cut
    <2> QED BY <2>4, <2>5, <2>6 DEF GrowsBy
<1>11. text[n - 3] = <<>>
    <2>1. CASE n = 3
        BY <1>10, <2>1
    <2>2. CASE n = 4
        <3>1. 1 \in 1 .. n /\ 1 - 1 = 0 /\ n - 3 = 1 /\ Len(<<>>) < 17 /\ <<>> \o <<>> = <<>>
            BY <2>2
        <3>2. text[1] = IF Len(text[1 - 1]) < 17 THEN text[1 - 1] \o Cleaned(cut(1)) ELSE text[1 - 1]
            BY ONLY <1>10, <3>1
        <3> QED BY ONLY <1>6, <1>10, <2>2, <3>1, <3>2
    <2> QED BY <2>1, <2>2
<1>12. Piece(text[n], bytes, p - 3, 23 - p)
    <2>1. /\ n - 3 + 1 \in 1 .. n /\ n - 3 + 2 \in 1 .. n /\ n - 3 + 3 \in 1 .. n
          /\ n - 3 + 1 - 1 = n - 3 /\ n - 3 + 2 - 1 = n - 3 + 1 /\ n - 3 + 3 - 1 = n - 3 + 2
          /\ n - 3 + 3 = n
        BY ONLY n \in {3, 4}
    <2>2. PICK t0, t1, t2, t3, one, two, three :
              /\ t0 = text[n - 3] /\ t1 = text[n - 3 + 1] /\ t2 = text[n - 3 + 2]
              /\ t3 = text[n - 3 + 3] /\ one = Cleaned(cut(n - 3 + 1))
              /\ two = Cleaned(cut(n - 3 + 2)) /\ three = Cleaned(cut(n - 3 + 3))
        OBVIOUS
    <2>3. /\ t1 = IF Len(t0) < 17 THEN t0 \o one ELSE t0
          /\ t2 = IF Len(t1) < 17 THEN t1 \o two ELSE t1
          /\ t3 = IF Len(t2) < 17 THEN t2 \o three ELSE t2
        BY ONLY <1>10, <2>1, <2>2
    <2>4. Piece(t3, bytes, p - 3, 23 - p)
        <3>1. /\ Piece(one, bytes, p - 3, 9 - p) /\ Piece(two, bytes, 6, 7)
              /\ Piece(three, bytes, 13, 7) /\ t0 = <<>>
            BY ONLY <1>8, <1>11, <2>2
        <3> QED BY ONLY <2>3, <3>1, p \in {3, 6}, ThreeFrames
    <2> QED BY <2>1, <2>2, <2>4
<1>13. vin \in Seq(Int) /\ Len(vin) = 17
    BY DecodingAssumption, BytesAreNumbers DEF DecodingAssumption
<1>14. SubSeq(text[n], IF Len(text[n]) > 17 THEN Len(text[n]) - 16 ELSE 1, Len(text[n])) = vin
    <2>1. PICK last : last = text[n]
        OBVIOUS
    <2>2. EndsIn(last, vin)
        <3>1. PICK after \in {0, 3}, m \in {17, 20} : after = p - 3 /\ m = 20 - after
            BY ONLY p \in {3, 6}
        <3>2. m = 23 - p
            BY ONLY <3>1, p \in {3, 6}
        <3>3. Piece(last, bytes, after, m) /\ \A i \in 1 .. 17 : bytes[3 + i] = vin[i]
            BY ONLY <1>1, <1>12, <2>1, <3>1, <3>2
        <3> QED BY ONLY <1>13, <3>1, <3>3, after \in {0, 3}, LastOfText
    <2> QED BY <2>1, <2>2 DEF EndsIn
<1>15. validateVIN(vin)
    <2>1. DOMAIN vin = 1 .. 17
        BY <1>13
    <2>2. \E i \in DOMAIN vin : vin[i] \in 48 .. 57
        BY VINAssumption DEF VINAssumption
    <2>3. \E i \in 1 .. 17 : vin[i] \in (48 .. 57) \cup (65 .. 70) \cup (97 .. 102)
        BY ONLY <2>1, <2>2
    <2> QED BY <1>13, <2>3 DEF validateVIN
<1>16. ~ (start - 1 < 0 \/ \E k \in DOMAIN lines : Len(lines[k]) >= 6 /\ start - 1 > Len(lines[k]))
    <2>1. \A k \in 1 .. n : ~ (start - 1 > Len(lines[k]))
        BY <1>2, <1>5
    <2>2. ~ (start - 1 < 0)
        <3>1. start = 3 \/ start = 8
            BY ONLY <1>2
        <3> QED BY ONLY <3>1
    <2> QED BY ONLY <2>1, <2>2, DOMAIN lines = 1 .. n
<1> QED BY <1>7, <1>10, <1>14, <1>15, <1>16 DEF extractVIN

\* From the lines of a VIN query the VIN of the vehicle is extracted whole, for
\* every VIN of digits and upper-case letters, every identifier and either
\* service, with or without the refusal of another unit before them, unless the
\* refusal is filled up with a byte that is a letter or a digit (extractVIN,
\* findVINLineStart, validateVIN).
THEOREM VinHolds == DecodingSpec => []VinExtracted
<1>1. ASSUME ExchangeInv, phase = "vin",
             Len(frames) = 4 =>
                 Cleaned(SubSeq(frames[1], IdLength(frames[1]) + 1, Len(frames[1]))) = <<>>
      PROVE  result = [kind |-> "vin", vin |-> answer]
    <2>1. answer \in VINs /\ result = extractVIN(frames)
        BY <1>1 DEF ExchangeInv, VinHeard
    <2>2. PICK q \in VinQueries, id \in Ids, pad \in Pads :
              frames \in {VinAnswer(q, id, answer),
                          <<Line(id, Filled(<<3, 127, q.mode, 120>>, pad))>>
                              \o VinAnswer(q, id, answer)}
        BY <1>1 DEF ExchangeInv, VinHeard
    <2>3. PICK refused : refused = Filled(<<3, 127, q.mode, 120>>, pad)
        OBVIOUS
    <2>4. refused \in Seq(Int) /\ Len(refused) >= 4 /\ refused[1] = 3
        <3>1. pad \in Int /\ q.mode \in Int
            BY DecodingAssumption, BytesAre DEF DecodingAssumption
        <3>2. PICK bytes : bytes = <<3, 127, q.mode, 120>>
            OBVIOUS
        <3>3. bytes \in Seq(Int) /\ Len(bytes) = 4 /\ bytes[1] = 3 /\ 1 \in 1 .. 4 /\ 4 <= 8
            BY <3>1, <3>2
        <3>4. /\ refused \in Seq(Int) /\ Len(refused) >= Len(bytes)
              /\ \A k \in 1 .. Len(bytes) : refused[k] = bytes[k]
            <4>1. refused = Filled(bytes, pad)
                BY <2>3, <3>2
            <4> QED BY ONLY <3>1, <3>3, <4>1, FilledBytes
        <3> QED BY ONLY <3>3, <3>4
    <2>5. PICK answers : answers = VinAnswer(q, id, answer)
        OBVIOUS
    <2>6. answers = [k \in 1 .. 3 |-> answers[k]]
        BY <2>5 DEF VinAnswer
    <2>7. \A n \in {3, 4} :
              /\ Len(frames) = n /\ DOMAIN frames = 1 .. n
              /\ \A k \in 1 .. 3 : frames[n - 3 + k] = answers[k]
              /\ n = 4 => frames[1] = Line(id, refused)
              => extractVIN(frames) = [kind |-> "vin", vin |-> answer]
        <3> SUFFICES ASSUME NEW n \in {3, 4}, Len(frames) = n, DOMAIN frames = 1 .. n,
                            \A k \in 1 .. 3 : frames[n - 3 + k] = answers[k],
                            n = 4 => frames[1] = Line(id, refused)
                     PROVE  extractVIN(frames) = [kind |-> "vin", vin |-> answer]
            OBVIOUS
        <3>1. \A k \in 1 .. 3 : frames[n - 3 + k] = VinAnswer(q, id, answer)[k]
            BY <2>5
        <3>2. n = 4 => /\ frames[1] = Line(id, refused)
                       /\ Cleaned(SubSeq(frames[1], IdLength(frames[1]) + 1, Len(frames[1]))) = <<>>
            BY <1>1
        <3>3. AnswerLines(frames, n, q, id, answer, refused)
            BY <2>4, <3>1, <3>2 DEF AnswerLines
        <3> QED BY ONLY <2>1, <3>3, n \in {3, 4}, q \in VinQueries, id \in Ids, ExtractedFrom
    <2>8. CASE frames = answers
        <3>1. Len(frames) = 3 /\ DOMAIN frames = 1 .. 3 /\ \A k \in 1 .. 3 : frames[3 - 3 + k] = answers[k]
            BY <2>6, <2>8
        <3> QED BY <2>1, <2>7, <3>1
    <2>9. CASE frames = <<Line(id, refused)>> \o answers
        <3>1. PICK first : first = Line(id, refused)
            OBVIOUS
        <3>2. /\ Len(frames) = 4 /\ DOMAIN frames = 1 .. 4 /\ frames[1] = first
              /\ \A k \in 1 .. 3 : frames[4 - 3 + k] = answers[k]
            <4>1. first \in Seq(Int) /\ \A k \in 1 .. 3 : answers[k] \in Seq(Int)
                <5>1. first \in Seq(Int)
                    BY <2>4, <3>1, LineDigits
                <5>2. \A k \in 1 .. 3 : answers[k] \in Seq(Int)
                    <6>1. PICK bytes \in Seq(Int) :
                              /\ Len(bytes) = 20
                              /\ VinAnswer(q, id, answer)
                                     = [k \in 1 .. 3 |-> Line(id, Segments(bytes)[k])]
                        BY ONLY VinPieces, <2>1, q \in VinQueries, id \in Ids
                    <6>2. \A k \in 1 .. 3 : Segments(bytes)[k] \in Seq(Int)
                        BY ONLY <6>1, bytes \in Seq(Int), SegmentsAre
                    <6>3. \A k \in 1 .. 3 : answers[k] = Line(id, Segments(bytes)[k])
                        BY ONLY <2>5, <6>1
                    <6> QED BY ONLY <6>2, <6>3, id \in Ids, LineDigits
                <5> QED BY <5>1, <5>2
            <4>2. <<first>> \in Seq(Seq(Int)) /\ Len(<<first>>) = 1 /\ <<first>>[1] = first
                BY <4>1
            <4>3. answers \in Seq(Seq(Int)) /\ Len(answers) = 3
                BY <2>6, <4>1
            <4>4. /\ frames \in Seq(Seq(Int)) /\ Len(frames) = Len(<<first>>) + Len(answers)
                  /\ \A i \in 1 .. Len(<<first>>) + Len(answers) :
                         frames[i] = IF i <= Len(<<first>>) THEN <<first>>[i]
                                     ELSE answers[i - Len(<<first>>)]
                BY <2>9, <3>1, <4>2, <4>3, ConcatProperties
            <4>5. /\ Len(frames) = 4
                  /\ \A i \in 1 .. 4 : frames[i] = IF i <= 1 THEN <<first>>[i] ELSE answers[i - 1]
                BY ONLY <4>2, <4>3, <4>4
            <4>6. frames[1] = first
                BY <4>2, <4>5
            <4>7. ASSUME NEW k \in 1 .. 3 PROVE frames[4 - 3 + k] = answers[k]
                <5>1. 4 - 3 + k \in 1 .. 4 /\ ~ (4 - 3 + k <= 1) /\ 4 - 3 + k - 1 = k
                    OBVIOUS
                <5> QED BY ONLY <4>5, <5>1
            <4>8. DOMAIN frames = 1 .. 4
                <5>1. frames \in Seq(Seq(Int)) /\ Len(frames) = 4
                    BY ONLY <4>4, <4>5
                <5>2. DOMAIN frames = 1 .. Len(frames)
                    BY ONLY <5>1
                <5> QED BY ONLY <5>1, <5>2
            <4> QED BY ONLY <4>5, <4>6, <4>7, <4>8
        <3> QED BY <2>1, <2>7, <3>1, <3>2
    <2> QED BY <2>2, <2>3, <2>5, <2>8, <2>9
<1>2. ExchangeInv => VinExtracted
    BY <1>1 DEF VinExtracted
<1> QED BY <1>2, ExchangeHolds, PTL
=============================================================================
