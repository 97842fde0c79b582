------------------------------- MODULE Backup --------------------------------
(***************************************************************************)
(* Backups (native/hub/src/molecules/system_operations/backup.rs) and what *)
(* they work beside: the application's own copy of its preferences         *)
(* (lib/storage/settings_store.dart), which writes the whole file at every *)
(* change and is loaded again after a restore                              *)
(* (lib/services/backup_service.dart,                                      *)
(* lib/ui/pages/settings/backup_settings_page.dart), on a desktop.         *)
(***************************************************************************)
EXTENDS HubCalls

CONSTANT MaxSaves \* bound: how often the application changes a preference

ASSUME BackupAssumption == MaxSaves \in Nat

VARIABLES
    prefs,  \* the preferences file
    cache,  \* the application's copy of it: SettingsStore._data
    saving, \* what the application is in the middle of writing: _save
    saves,
    disk,   \* what else is backed up
    file,   \* the backup file
    work    \* per call: what its task has read, and the disk when it began

backupVars == <<prefs, cache, saving, saves, disk, file, work>>

\* The DNS settings and the PAC file are kept by the same functions: one "file".
Parts == {"subsList", "subs", "over", "file"}

\* What a part holds: the application's data, the data a backup from elsewhere
\* brought, a part of some data, or nothing.
Contents == {"none", "app", "backup", "part"}
Shared == {"none", "app", "backup"}

\* The preferences: those that are backed up, and those of this device
\* (EXCLUDED_PREFERENCE_KEYS), of which each change makes another version.
Preferences == [shared: Shared, device: 0..(MaxSaves + 1)]
NoPreferences == [shared |-> "none", device |-> 0]
PrefsFiles == [good: BOOLEAN, data: Preferences]
Good(data) == [good |-> TRUE, data |-> data]
Broken == [good |-> FALSE, data |-> NoPreferences]

\* BackupData; one that is missing, not JSON or of another version is not good.
BackupFiles == [good: BOOLEAN, shared: Shared, parts: [Parts -> Contents]]

EveryPart(content) == [p \in Parts |-> content]
Unread == [good |-> FALSE, shared |-> "none", parts |-> EveryPart("none")]

BackupTypeOK ==
    /\ prefs \in PrefsFiles
    /\ cache \in Preferences
    /\ saving \in Seq(Preferences)
    /\ saves \in 0..MaxSaves
    /\ disk \in [Parts -> Contents]
    /\ file \in BackupFiles
    /\ work \in [Calls -> [data: BackupFiles, keys: 0..(MaxSaves + 1),
                           was: [prefs: PrefsFiles, disk: [Parts -> Contents]]]]

\* _loadFromFile: what cannot be read is replaced by the defaults.
Load(f) == IF f.good THEN f.data ELSE NoPreferences

Full(content) == [good |-> TRUE, shared |-> content, parts |-> EveryPart(content)]

\* An installation in use, with a backup from elsewhere or none, or a damaged one.
BackupInit ==
    /\ \/ /\ prefs = Good([shared |-> "app", device |-> 1]) /\ disk = EveryPart("app")
          /\ file \in {Unread, Full("backup"), Full("none")}
       \/ /\ prefs = Broken /\ disk = EveryPart("none")
          /\ file = Full("backup")
    /\ cache = Load(prefs)
    /\ saving = <<>> /\ saves = 0
    /\ work = [c \in Calls |-> [data |-> Unread, keys |-> 0,
                                was |-> [prefs |-> prefs, disk |-> disk]]]

(***************************************************************************)
(* createBackup and restoreBackup: refused while _isOperating, which a     *)
(* limit of 60 s or 15 s clears while the hub goes on.                     *)
(***************************************************************************)
IsOperating == \E c \in Calls : Waits(c) /\ Channel(call[c].kind) = "backup"

CreatePlan == <<"collectPrefs", "collectSubs", "collectOver", "collectFile", "openFile", "fillFile">>
RestorePlan == <<"verify", "readPrefs", "openPrefs", "fillPrefs", "clearSubs", "writeSubs",
                 "clearOver", "writeOver", "writeFile">>

\* A restore that has ended well, while its page has not loaded everything again.
IsRestoring ==
    \E c \in Calls : call[c].kind = "restore" /\ call[c].phase = "answered" /\ task[call[c].from].ok

AskBackup(c) ==
    /\ ~IsOperating
    /\ \/ Ask(c, "create", CreatePlan)
       \/ ~IsRestoring /\ Ask(c, "restore", RestorePlan)
    /\ work' = [work EXCEPT ![c].was = [prefs |-> prefs, disk |-> disk]]
    /\ UNCHANGED <<prefs, cache, saving, saves, disk, file>>

(***************************************************************************)
(* create_backup: collect what there is, then write the file.              *)
(***************************************************************************)
Collected(c, p, content) == work' = [work EXCEPT ![c].data.parts[p] = content]

CollectPrefs(c) ==
    /\ Doing(c, "collectPrefs")
    /\ IF prefs.good
       THEN StepDone(c) /\ work' = [work EXCEPT ![c].data.shared = prefs.data.shared]
       ELSE Refuse(c) /\ UNCHANGED work

CollectSubs(c) ==
    /\ Doing(c, "collectSubs")
    /\ StepDone(c)
    /\ work' = [work EXCEPT ![c].data.parts = [@ EXCEPT !["subsList"] = disk["subsList"],
                                                        !["subs"] = disk["subs"]]]

CollectOver(c) == Doing(c, "collectOver") /\ StepDone(c) /\ Collected(c, "over", disk["over"])

\* A file that cannot be read is left out as if there were none.
CollectFile(c) ==
    /\ Doing(c, "collectFile")
    /\ \/ StepDone(c) /\ Collected(c, "file", disk["file"])
       \/ Breaks /\ GoTo(c, Tail(task[c].todo), TRUE) /\ Collected(c, "file", "none")

Collect(c) ==
    /\ \/ CollectPrefs(c)
       \/ CollectSubs(c)
       \/ CollectOver(c)
       \/ CollectFile(c)
    /\ UNCHANGED <<prefs, disk, file>>

WriteFile(c) ==
    /\ \/ /\ Doing(c, "openFile")
          /\ file' = Unread
       \/ /\ Doing(c, "fillFile")
          /\ file' = [work[c].data EXCEPT !.good = TRUE]
    /\ StepDone(c)
    /\ UNCHANGED <<prefs, disk, work>>

\* What the `?` of any other step does with an error; a write can stop half way.
CreateFails(c) ==
    /\ \E step \in {"collectPrefs", "collectSubs", "collectOver", "openFile", "fillFile"} :
          Doing(c, step)
    /\ StepBreaks(c)
    /\ UNCHANGED <<prefs, disk, file, work>>

(***************************************************************************)
(* restore_backup: part after part, ended by the first error.              *)
(***************************************************************************)
Verify(c) ==
    /\ Doing(c, "verify")
    /\ IF file.good
       THEN StepDone(c) /\ work' = [work EXCEPT ![c].data = file]
       ELSE Refuse(c) /\ UNCHANGED work
    /\ UNCHANGED <<prefs, disk, file>>

\* The keys of this device are those of the file, none when it cannot be parsed.
ReadPrefs(c) ==
    /\ Doing(c, "readPrefs")
    /\ work' = [work EXCEPT ![c].keys = Load(prefs).device]
    /\ StepDone(c)
    /\ UNCHANGED <<prefs, disk, file>>

\* A file is emptied and then written; two writers leave what one of them has
\* written, or a mixture of both that is not JSON.
Written(data) == {Good(data)} \cup {Broken : b \in {TRUE} \cap {prefs.good}}

WritePrefs(c) ==
    /\ \/ Doing(c, "openPrefs") /\ prefs' = Broken
       \/ /\ Doing(c, "fillPrefs")
          /\ prefs' \in Written([shared |-> work[c].data.shared, device |-> work[c].keys])
    /\ StepDone(c)
    /\ UNCHANGED <<disk, file, work>>

\* Mutant: the files of the subscriptions are not removed.
MutantNotCleared(c) ==
    /\ \/ Doing(c, "clearSubs") /\ UNCHANGED disk
       \/ Doing(c, "clearOver") /\ disk' = [disk EXCEPT !["over"] = "none"]
    /\ StepDone(c)
    /\ UNCHANGED <<prefs, file, work>>

\* The files of a directory are removed, whatever the backup has.
Clear(c) ==
    /\ \/ Doing(c, "clearSubs") /\ disk' = [disk EXCEPT !["subs"] = "none"]
       \/ Doing(c, "clearOver") /\ disk' = [disk EXCEPT !["over"] = "none"]
    /\ StepDone(c)
    /\ UNCHANGED <<prefs, file, work>>

Writes == [writeSubs |-> {"subsList", "subs"}, writeOver |-> {"over"}, writeFile |-> {"file"}]

\* What the backup does not have is left as it is.
Brought(c, parts) == {p \in parts : work[c].data.parts[p] # "none"}

WritePart(c) ==
    /\ \E step \in DOMAIN Writes :
          /\ Doing(c, step)
          /\ disk' = [p \in Parts |-> IF p \in Brought(c, Writes[step]) THEN work[c].data.parts[p] ELSE disk[p]]
    /\ StepDone(c)
    /\ UNCHANGED <<prefs, file, work>>

\* An error leaves a directory cleared in part, a file or a directory written in part.
RestoreFails(c) ==
    /\ \/ Doing(c, "verify") /\ UNCHANGED disk
       \/ Doing(c, "openPrefs") /\ UNCHANGED disk
       \/ Doing(c, "fillPrefs") /\ UNCHANGED disk
       \/ /\ Doing(c, "clearSubs") /\ disk["subs"] # "none"
          /\ disk' = [disk EXCEPT !["subs"] = "part"]
       \/ /\ Doing(c, "clearOver") /\ disk["over"] # "none"
          /\ disk' = [disk EXCEPT !["over"] = "part"]
       \/ \E step \in DOMAIN Writes :
             /\ Doing(c, step)
             /\ \E p \in Brought(c, Writes[step]) :
                   disk' = [disk EXCEPT ![p] = "part",
                                        !["subsList"] = IF p = "subs" /\ "subsList" \in Brought(c, Parts)
                                                        THEN work[c].data.parts["subsList"]
                                                        ELSE IF p = "subsList" THEN "part" ELSE @]
    /\ StepBreaks(c)
    /\ UNCHANGED <<prefs, file, work>>

BackupTask(c) ==
    /\ \/ Collect(c) \/ WriteFile(c) \/ CreateFails(c)
       \/ Verify(c) \/ ReadPrefs(c) \/ WritePrefs(c) \/ Clear(c) \/ WritePart(c)
       \/ RestoreFails(c)
    /\ UNCHANGED <<cache, saving, saves>>

(***************************************************************************)
(* The application changes a preference, and loads them again after a      *)
(* restore that has ended well, if its page is still shown.                *)
(***************************************************************************)
NobodyAlone == task' = [c \in Calls |-> IF call[c].phase = "idle" THEN task[c] ELSE [task[c] EXCEPT !.alone = FALSE]]

BeginSave ==
    /\ saving = <<>> /\ saves < MaxSaves
    /\ \E c \in Calls : Running(c)
    /\ saves' = saves + 1
    /\ cache' = [cache EXCEPT !.device = saves + 2]
    /\ saving' = <<cache'>>
    /\ prefs' = Broken
    /\ NobodyAlone
    /\ UNCHANGED <<call, mail, faults, disk, file, work>>

EndSave ==
    /\ saving # <<>>
    /\ prefs' \in Written(Head(saving))
    /\ saving' = <<>>
    /\ NobodyAlone
    /\ UNCHANGED <<call, mail, faults, cache, saves, disk, file, work>>

Reload(c) ==
    /\ call[c].kind = "restore" /\ call[c].phase = "answered" /\ task[call[c].from].ok
    /\ call' = [call EXCEPT ![c].phase = "over"]
    /\ \/ cache' = Load(prefs)
       \/ UNCHANGED cache
    /\ UNCHANGED <<task, mail, faults, prefs, saving, saves, disk, file, work>>

BackupAppEnds ==
    /\ cache' = Load(prefs)
    /\ saving' = <<>>
    /\ UNCHANGED <<prefs, saves, disk, file, work>>
=============================================================================
