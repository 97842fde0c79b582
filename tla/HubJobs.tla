------------------------------- MODULE HubJobs -------------------------------
(***************************************************************************)
(* The jobs the application has the hub do, together: backups and          *)
(* restores, and updates of the core.                                      *)
(***************************************************************************)
EXTENDS Backup, CoreUpdate

\* The two kinds of jobs share nothing but the way they are called: a behaviour has
\* those of one page.
VARIABLE page

jobsVars == <<callVars, backupVars, updateVars, page>>

JobsTypeOK == CallsTypeOK /\ BackupTypeOK /\ UpdateTypeOK

JobsInit ==
    /\ CallsInit /\ BackupInit /\ UpdateInit
    /\ page \in {"backup", "update"}
    /\ page = "update" => file = Unread /\ prefs.good /\ disk = EveryPart("app")

Limit(c) == TimeOut(c) /\ UNCHANGED <<backupVars, updateVars, page>>

BackupStep ==
    /\ page = "backup"
    /\ UNCHANGED updateVars
    /\ \/ \E c \in Calls : AskBackup(c) \/ BackupTask(c) \/ Reload(c)
       \/ BeginSave \/ EndSave
       \/ AppEnds /\ BackupAppEnds

UpdateStep ==
    /\ page = "update"
    /\ UNCHANGED backupVars
    /\ \/ \E c \in Calls : AskDownload(c) \/ AskReplace(c) \/ UpdateTask(c)
       \/ AppEnds /\ UNCHANGED updateVars

JobsNext ==
    \/ (BackupStep \/ UpdateStep) /\ UNCHANGED page
    \/ Deliver /\ UNCHANGED <<backupVars, updateVars, page>>
    \/ \E c \in Calls : Limit(c)

JobsSpec == JobsInit /\ [][JobsNext]_jobsVars

-----------------------------------------------------------------------------
(***************************************************************************)
(* Backups.                                                                *)
(***************************************************************************)
EndsWell(c, kind) == call[c].kind = kind /\ Sends(c) /\ task'[c].ok /\ task[c].alone

\* A backup that ends well, beside which nothing was restored or saved, holds all
\* there was; only a file of DNS or PAC settings that could not be read is missing.
CreateDoes ==
    [][\A c \in Calls : EndsWell(c, "create") =>
          /\ file'.good
          /\ file'.shared = work[c].was.prefs.data.shared
          /\ \A p \in Parts : \/ file'.parts[p] = work[c].was.disk[p]
                              \/ p = "file" /\ faults > 0 /\ file'.parts[p] = "none"]_jobsVars

\* What a restore leaves of a part: what the backup has of it; of what the backup
\* does not have, the directories are empty and the rest is as it was.
Restored(c, p) ==
    LET brought == work[c].data.parts[p] IN
    IF brought # "none" THEN brought
    ELSE IF p \in {"subs", "over"} THEN "none" ELSE work[c].was.disk[p]

\* A restore that ends well, beside which nothing was backed up or saved, leaves
\* the parts of the backup and no file of before among them, and of the
\* preferences the backup's, with this device's own as they were.
RestoreDoes ==
    [][\A c \in Calls : EndsWell(c, "restore") =>
          /\ \A p \in Parts : disk'[p] = Restored(c, p)
          /\ prefs' = Good([shared |-> work[c].data.shared,
                            device |-> Load(work[c].was.prefs).device])]_jobsVars

\* When such a restore is followed by the reload, the application has the backup's
\* preferences and keeps its own of this device, if the file had them before.
DeviceKept ==
    [][\A c \in Calls :
          (Reload(c) /\ cache' # cache /\ call[c].from = c /\ task[c].alone /\ saving = <<>>)
          => /\ cache'.shared = work[c].data.shared
             /\ work[c].was.prefs = Good(cache) => cache'.device = cache.device]_jobsVars

\* A call is answered by another one's result only after a limit has passed, and only by
\* that of a call whose own limit had, or which had been answered by another one's in
\* its turn: _isOperating is cleared by the limit and by any result, not by its own.
OwnAnswer ==
    \A c \in Calls :
        LET d == call[c].from IN
        call[c].phase = "answered" /\ Channel(call[c].kind) = "backup" /\ d # c
        => /\ call[d].phase = "timedOut" \/ call[d].from \notin {d, NoCall}
           /\ \E e \in Calls : call[e].phase = "timedOut"

\* What the application may rely on when it is told that a backup or a restore went
\* well (BackupService.createBackup and restoreBackup).
BackupsDo == CreateDoes /\ RestoreDoes /\ DeviceKept /\ []OwnAnswer

-----------------------------------------------------------------------------
(***************************************************************************)
(* Updates of the core.                                                    *)
(***************************************************************************)
\* A download that ends well has read the whole of an asset for this platform that
\* can be unpacked; as long as nothing breaks it fails only for want of one, or
\* because the one it has chosen is of another format.
DownloadDoes ==
    [][\A c \in Calls : (call[c].kind = "download" /\ Sends(c)) =>
          IF task'[c].ok
          THEN got[c].asset \in {GzFile, ZipFile} /\ got[c].read = MaxChunks
          ELSE faults' > 0 \/ got[c].asset \notin {GzFile, ZipFile}]_jobsVars

\* A replacement beside no other that ends well leaves the file it has made, which can
\* be executed; one that the first thing to go wrong ends leaves the core that it had
\* found, unless that thing was the change of permissions.
ReplaceDoes ==
    [][\A c \in Calls : (call[c].kind = "replace" /\ Sends(c) /\ ~crowded) =>
          IF task'[c].ok THEN core' = c /\ Usable(c)'
          ELSE faults' = 1 /\ ~Doing(c, "permit") => core' = had[c]]_jobsVars

\* What the application may rely on when it is told that a download or a replacement
\* of the core went well or failed (core_update_service.dart).
UpdatesDo == DownloadDoes /\ ReplaceDoes

\* One of the two names is that of a program that can be executed.
Restorable == Usable(core) \/ Usable(backup)

\* As long as nothing goes wrong there is such a program at any time, even in the middle
\* of a replacement, and the core is one whenever nothing is replaced, even after
\* replacements that overlapped; once one thing has gone wrong there still is one
\* whenever nothing is replaced, unless replacements overlapped.
OneIsUsable ==
    /\ faults = 0 /\ ~crowded => Restorable
    /\ faults = 0 /\ ~Replacing => Usable(core)
    /\ faults = 1 /\ ~Replacing /\ ~crowded => Restorable

=============================================================================
