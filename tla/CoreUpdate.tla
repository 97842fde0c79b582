----------------------------- MODULE CoreUpdate ------------------------------
(***************************************************************************)
(* The update of the core                                                  *)
(* (native/hub/src/molecules/core_update/updater.rs,                       *)
(* lib/clash/services/core_update_service.dart): the archive of the latest *)
(* release is fetched and unpacked, and the program is replaced.  The      *)
(* application has no caller of either yet.  Nothing keeps a second        *)
(* replacement out while the task of an earlier one still runs.            *)
(***************************************************************************)
EXTENDS HubCalls

CONSTANTS
    MaxChunks, \* bound: of how many chunks an archive is
    Unix,
    Original,  \* the file the core is at first
    NoFile

ASSUME UpdateAssumption ==
    /\ MaxChunks \in Nat \ {0} /\ Unix \in BOOLEAN
    /\ Original # NoFile /\ {Original, NoFile} \cap Calls = {}

\* A call creates one file at most, which goes by the name of the call.
Files == Calls \cup {Original}

VARIABLES
    core,    \* which file has the name of the core
    backup,  \* and which that of its backup
    whole,   \* the files that hold all the bytes of a core
    exec,    \* and those that have the permission to be executed
    fd,      \* per call: the file it has opened to write the new core
    got,     \* per call: the asset chosen, and how many chunks are read
    had,     \* per call: the core when its task began
    crowded  \* did replacements overlap since one began with none under way?

filesVars == <<core, backup, whole, exec, fd>>
updateVars == <<filesVars, got, had, crowded>>

Usable(f) == f \in whole \cap exec

\* An asset is for this platform and architecture or not, and in a format that
\* can be unpacked or not: a zip without a program cannot.
Assets == [fits: BOOLEAN, format: {"zip", "gz", "emptyZip", "other"}]
GzFile == [fits |-> TRUE, format |-> "gz"]
ZipFile == [fits |-> TRUE, format |-> "zip"]
EmptyZip == [fits |-> TRUE, format |-> "emptyZip"]
Package == [fits |-> TRUE, format |-> "other"]
Foreign == [fits |-> FALSE, format |-> "gz"]
Releases == {<<>>, <<Foreign>>, <<Foreign, GzFile>>, <<ZipFile, Package>>, <<Package, GzFile>>, <<EmptyZip>>}

UpdateTypeOK ==
    /\ {core, backup} \subseteq Files \cup {NoFile}
    /\ whole \subseteq Files /\ exec \subseteq Files
    /\ fd \in [Calls -> Files \cup {NoFile}]
    /\ got \in [Calls -> [asset: Assets, read: 0..MaxChunks]]
    /\ had \in [Calls -> Files \cup {NoFile}]
    /\ crowded \in BOOLEAN

UpdateInit ==
    /\ core = Original /\ backup = NoFile
    /\ whole = {Original} /\ exec = {Original}
    /\ fd = [c \in Calls |-> NoFile]
    /\ got = [c \in Calls |-> [asset |-> Foreign, read |-> 0]]
    /\ had = [c \in Calls |-> core]
    /\ crowded = FALSE

(***************************************************************************)
(* downloadCore: 30 s for what the hub may take 10 s and 30 s for.         *)
(***************************************************************************)
AskDownload(c) ==
    /\ Ask(c, "download", <<"release", "fetch">>)
    /\ UNCHANGED updateVars

\* find_asset: the first name with "<platform>-<arch>" in it, whatever its format.
FindAsset(assets) ==
    LET fitting == {i \in DOMAIN assets : assets[i].fits}
    IN  IF fitting = {} THEN Foreign ELSE assets[Min(fitting)]

\* get_latest_release.
GetRelease(c) ==
    /\ Doing(c, "release")
    /\ \E offer \in Releases :
          IF FindAsset(offer).fits
          THEN StepDone(c) /\ got' = [got EXCEPT ![c].asset = FindAsset(offer)]
          ELSE Refuse(c) /\ UNCHANGED got

\* download_file.
Fetch(c) ==
    /\ Doing(c, "fetch") /\ got[c].read < MaxChunks
    /\ GoTo(c, task[c].todo, TRUE)
    /\ UNCHANGED faults
    /\ got' = [got EXCEPT ![c].read = @ + 1]

\* extract_core: the first program of a zip, what is in a gz, and nothing else.
Extracts(asset) == asset.format \in {"zip", "gz"}

Extract(c) ==
    /\ Doing(c, "fetch") /\ got[c].read = MaxChunks
    /\ IF Extracts(got[c].asset) THEN StepDone(c) ELSE Refuse(c)
    /\ UNCHANGED got

DownloadFails(c) ==
    /\ Doing(c, "release") \/ Doing(c, "fetch")
    /\ StepBreaks(c)
    /\ UNCHANGED got

Download(c) ==
    /\ GetRelease(c) \/ Fetch(c) \/ Extract(c) \/ DownloadFails(c)
    /\ UNCHANGED <<filesVars, had, crowded>>

(***************************************************************************)
(* replaceCore: backup, write, permissions; a write that fails is undone.  *)
(* The look and the step it decides on are apart: a file is renamed, made  *)
(* or removed by another replacement in between.                           *)
(***************************************************************************)
Replaces(c) == Running(c) /\ call[c].kind = "replace"
Replacing == \E c \in Calls : Replaces(c)

AskReplace(c) ==
    /\ Ask(c, "replace", IF Unix THEN <<"look", "rename", "open", "fill", "permit">>
                               ELSE <<"look", "rename", "open", "fill">>)
    /\ had' = [had EXCEPT ![c] = core]
    /\ crowded' = Replacing
    /\ UNCHANGED <<filesVars, got>>

\* core_path.exists(): the rename is left out when there is no core.
Look(c) ==
    /\ Doing(c, "look")
    /\ GoTo(c, IF core = NoFile THEN Tail(Tail(task[c].todo)) ELSE Tail(task[c].todo), TRUE)
    /\ UNCHANGED <<faults, filesVars>>

\* Mutant: the old program is removed, not renamed.
MutantNoBackup(c) ==
    /\ Doing(c, "rename")
    /\ core' = NoFile
    /\ StepDone(c)
    /\ UNCHANGED <<backup, whole, exec, fd>>

Rename(c) ==
    /\ Doing(c, "rename")
    /\ IF core = NoFile THEN Refuse(c) /\ UNCHANGED <<core, backup>>
       ELSE StepDone(c) /\ core' = NoFile /\ backup' = core
    /\ UNCHANGED <<whole, exec, fd>>

\* async_fs::write opens the core, the one that is there or a new one, and makes it
\* empty.  A new file on a Unix has a mode that cannot be executed.
Open(c) ==
    /\ Doing(c, "open")
    /\ LET made == core = NoFile
           f == IF made THEN c ELSE core
       IN  /\ core' = f
           /\ fd' = [fd EXCEPT ![c] = f]
           /\ whole' = whole \ {f}
           /\ exec' = IF made /\ ~Unix THEN exec \cup {f} ELSE exec
    /\ StepDone(c)
    /\ UNCHANGED backup

\* Then it writes the bytes, the same for every call.  What it has written may be
\* gone when another call has opened the same file and has yet to write.
Fill(c) ==
    /\ Doing(c, "fill")
    /\ \/ whole' = whole \cup {fd[c]}
       \/ /\ \E d \in Calls \ {c} : fd[d] = fd[c] /\ (Doing(d, "fill") \/ faults > 0)
          /\ UNCHANGED whole
    /\ StepDone(c)
    /\ UNCHANGED <<core, backup, exec, fd>>

\* Mutant: the permissions are not set.
MutantNoPermit(c) ==
    /\ Doing(c, "permit")
    /\ StepDone(c)
    /\ UNCHANGED filesVars

Permit(c) ==
    /\ Doing(c, "permit")
    /\ IF core = NoFile THEN Refuse(c) /\ UNCHANGED exec
       ELSE StepDone(c) /\ exec' = exec \cup {core}
    /\ UNCHANGED <<core, backup, whole, fd>>

WriteBreaks(c) ==
    /\ Doing(c, "open") \/ Doing(c, "fill")
    /\ Breaks
    /\ GoTo(c, <<"undo">>, FALSE)
    /\ UNCHANGED filesVars

\* backup_path.exists() and core_path.exists().
Undo(c) ==
    /\ Doing(c, "undo")
    /\ GoTo(c, IF backup = NoFile THEN <<>>
               ELSE IF core = NoFile THEN <<"rollBack">> ELSE <<"remove", "rollBack">>, FALSE)
    /\ UNCHANGED <<faults, filesVars>>

\* An error of remove_file is ignored.
RemovePart(c) ==
    /\ Doing(c, "remove")
    /\ GoTo(c, Tail(task[c].todo), FALSE)
    /\ \/ core' = NoFile /\ UNCHANGED faults
       \/ UNCHANGED core /\ Breaks
    /\ UNCHANGED <<backup, whole, exec, fd>>

RollBack(c) ==
    /\ Doing(c, "rollBack")
    /\ Refuse(c)
    /\ IF backup = NoFile THEN UNCHANGED <<core, backup>>
       ELSE core' = backup /\ backup' = NoFile
    /\ UNCHANGED <<whole, exec, fd>>

\* The `?` of the other steps: nothing is undone.
ReplaceFails(c) ==
    /\ \E step \in {"rename", "permit", "rollBack"} : Doing(c, step)
    /\ StepBreaks(c)
    /\ UNCHANGED filesVars

Replace(c) ==
    /\ \/ Look(c) \/ Rename(c) \/ Open(c) \/ Fill(c) \/ Permit(c) \/ WriteBreaks(c)
       \/ Undo(c) \/ RemovePart(c) \/ RollBack(c) \/ ReplaceFails(c)
    /\ UNCHANGED <<got, had, crowded>>

UpdateTask(c) == Download(c) \/ Replace(c)
=============================================================================
