-------------------------- MODULE ServiceInstaller ---------------------------
(***************************************************************************)
(* The commands install, uninstall, start and stop of the service program  *)
(* (native/stelliberty_service/src/service/installer.rs, lib.rs) over the  *)
(* service manager of the operating system.  Each command is a process     *)
(* that looks at the service, decides on its steps from what it has seen,  *)
(* and takes them one by one; other processes, and the service itself, go  *)
(* on in between, and every step may fail.                                 *)
(***************************************************************************)
EXTENDS Naturals, FiniteSets, SequencesExt

CONSTANTS
    Procs,       \* names for the processes of the service program
    MaxLaunches, \* bound: how many of them are started
    MaxFaults    \* bound: failures of the operating system, crashes of the service

ASSUME InstallerAssumption == Procs # {} /\ MaxLaunches \in Nat /\ MaxFaults \in Nat

VARIABLES
    os,       \* windows, linux (systemd) or macos (launchd)
    unit,     \* the registration: Windows' entry, the unit file, the property list
    loaded,   \* the registration the service manager works with (systemd)
    enabled,  \* it starts at boot
    state,    \* what the service manager says of the service
    binary,   \* the service program in the private directory
    runs,     \* the program the service was started from
    proc,     \* per process: its command, its steps left, what it saw, its result
    launches,
    faults

service == <<unit, loaded, enabled, state, binary, runs>>
installerVars == <<os, service, proc, launches, faults>>

Commands == {"install", "uninstall", "start", "stop"}
States == {"stopped", "starting", "running", "stopping", "restarting", "failed"}
Steps == {"bail", "startService", "copy", "create", "describe", "write", "reload", "enable",
          "start", "tryStart", "awaitStart", "check", "stop", "tryStop", "awaitStop",
          "awaitGone", "disable", "remove", "delete"}

Programs == {"none", "old", "partial", "current"}

InstallerTypeOK ==
    /\ os \in {"windows", "linux", "macos"}
    /\ unit \in {"none", "old", "current", "deleting"}
    /\ loaded \in {"none", "old", "current"} /\ enabled \in BOOLEAN
    /\ state \in States
    /\ binary \in Programs /\ runs \in Programs
    /\ proc \in [Procs -> [command: Commands, phase: {"look", "work", "done"},
                           todo: Seq(Steps), saw: States, fresh: BOOLEAN, alone: BOOLEAN,
                           calm: BOOLEAN, ok: BOOLEAN]]
    /\ launches \in 0..MaxLaunches /\ faults \in 0..MaxFaults

Off == [command |-> "install", phase |-> "done", todo |-> <<>>, saw |-> "stopped",
        fresh |-> FALSE, alone |-> TRUE, calm |-> TRUE, ok |-> FALSE]

\* Nothing is installed, or an older or the same version is, at rest or at work.
InstallerInit ==
    /\ os \in {"windows", "linux", "macos"}
    /\ binary \in {"none", "old", "current"}
    /\ unit \in (IF binary = "none" THEN {"none"} ELSE {"current"} \cup (IF os = "linux" THEN {"old"} ELSE {}))
    /\ loaded = unit /\ enabled = (unit # "none")
    /\ state \in (IF unit = "none" THEN {"stopped"} ELSE {"stopped", "running"})
    /\ runs = (IF state = "running" THEN binary ELSE "none")
    /\ proc = [p \in Procs |-> Off]
    /\ launches = 0 /\ faults = 0

-----------------------------------------------------------------------------
(***************************************************************************)
(* The service and its manager.                                            *)
(***************************************************************************)
Alive(s) == s \in {"starting", "running", "stopping"}

\* The service comes to state s.
Becomes(s) ==
    /\ state' = s
    /\ runs' = IF Alive(s) THEN (IF Alive(state) THEN runs ELSE binary) ELSE "none"

Stays == UNCHANGED <<state, runs>>

Registered == unit \notin {"none", "deleting"}
Runnable == binary \in {"old", "current"}

\* The program of a process that runs cannot be overwritten.
Busy == Alive(state) /\ os # "macos"

\* What a request to start does: Windows answers before the service runs, systemd when the
\* process is forked, launchd keeps it alive.
CanStart == Registered /\ (os = "windows" => state = "stopped" /\ Runnable)

Starts ==
    Becomes(CASE os = "windows" -> "starting"
              [] os = "linux" /\ state # "running" /\ ~Runnable -> "restarting"
              [] OTHER -> "running")

CanStop == os = "windows" => state = "running"
Stops == Becomes(IF os = "windows" THEN "stopping" ELSE "stopped")

Working(p) == proc[p].phase \in {"look", "work"}

Fault ==
    /\ faults < MaxFaults
    /\ faults' = faults + 1

\* A failure is known to every process it may have disturbed.
Disturbed == [p \in Procs |-> IF Working(p) THEN [proc[p] EXCEPT !.calm = FALSE] ELSE proc[p]]

HasStarted ==
    /\ state = "starting"
    /\ Becomes("running")
    /\ UNCHANGED <<os, unit, loaded, enabled, binary, proc, launches, faults>>

HasStopped ==
    /\ state = "stopping"
    /\ Becomes("stopped")
    /\ UNCHANGED <<os, unit, loaded, enabled, binary, proc, launches, faults>>

\* A process of Windows that has opened or created the service.  An install that is
\* still to create it has let go of what it had opened.
HasOpen(p) == proc[p].phase = "work" /\ ~Contains(proc[p].todo, "create")

\* An entry that was marked for deletion goes when the service is not running and nobody
\* has it open.
HasGone ==
    /\ unit = "deleting" /\ state = "stopped"
    /\ \A p \in Procs: ~HasOpen(p)
    /\ unit' = "none" /\ loaded' = "none" /\ enabled' = FALSE
    /\ UNCHANGED <<os, state, binary, runs, proc, launches, faults>>

\* Restart=on-failure, RestartSec=5s.
Restarts ==
    /\ state = "restarting"
    /\ Becomes(IF loaded = "none" THEN "failed" ELSE IF Runnable THEN "running" ELSE "restarting")
    /\ UNCHANGED <<os, unit, loaded, enabled, binary, proc, launches, faults>>

\* launchd starts it again at once (KeepAlive).
Crashes ==
    /\ state = "running" /\ os # "macos"
    /\ Fault
    /\ Becomes(IF os = "linux" THEN "restarting" ELSE "stopped")
    /\ proc' = Disturbed
    /\ UNCHANGED <<os, unit, loaded, enabled, binary, launches>>

-----------------------------------------------------------------------------
(***************************************************************************)
(* A process looks, and decides.                                           *)
(***************************************************************************)
Free == {p \in Procs: ~Working(p)}
NewProc == CHOOSE p \in Free: TRUE

\* The processes at work are no longer by themselves.
Joined == [p \in Procs |-> IF Working(p) THEN [proc[p] EXCEPT !.alone = FALSE] ELSE proc[p]]

\* A process is started; p is a name that is free.
Launch(p, command) ==
    /\ Free # {} /\ p = NewProc
    /\ launches < MaxLaunches /\ launches' = launches + 1
    /\ proc' = [Joined EXCEPT ![p] = [Off EXCEPT !.command = command, !.phase = "look",
                                                  !.alone = (Free = Procs)]]

When(condition, steps) == IF condition THEN steps ELSE <<>>

\* check_service_needs_update: by size and time of the two files.
NeedsUpdate == binary # "current"

\* An update that does not stop the service first.
MutantNoStop ==
    CASE unit = "none" -> <<"copy", "create", "describe", "tryStart", "awaitStart">>
      [] unit # "none" /\ NeedsUpdate -> <<"copy", "tryStart", "awaitStart">>
      [] unit # "none" /\ ~NeedsUpdate /\ state = "running" -> <<>>
      [] unit # "none" /\ ~NeedsUpdate /\ state = "stopped" -> <<"startService">>
      [] OTHER -> <<"copy", "create", "describe", "tryStart", "awaitStart">>

WindowsInstall ==
    CASE unit = "none" -> <<"copy", "create", "describe", "tryStart", "awaitStart">>
      [] unit # "none" /\ NeedsUpdate ->
           When(state = "running", <<"tryStop", "awaitStop">>) \o <<"copy", "tryStart", "awaitStart">>
      [] unit # "none" /\ ~NeedsUpdate /\ state = "running" -> <<>>
      [] unit # "none" /\ ~NeedsUpdate /\ state = "stopped" -> <<"startService">>
      [] OTHER -> <<"copy", "create", "describe", "tryStart", "awaitStart">>

\* The unit file names the user who may use the socket, and is compared as a whole.
UnitStale == unit = "old"

LinuxInstall ==
    CASE unit # "none" /\ (NeedsUpdate \/ UnitStale) ->
           When(state = "running", <<"stop">>) \o When(NeedsUpdate, <<"copy">>)
             \o When(UnitStale, <<"write">>) \o <<"reload">> \o When(state = "running", <<"start">>)
      [] unit # "none" /\ ~NeedsUpdate /\ ~UnitStale /\ state = "running" -> <<>>
      [] unit # "none" /\ ~NeedsUpdate /\ ~UnitStale /\ state = "stopped" -> <<"startService">>
      [] OTHER -> <<"copy", "write", "reload", "enable", "start", "check">>

MacInstall ==
    IF unit = "none" THEN <<"copy", "write", "start">>
    ELSE IF NeedsUpdate
    THEN When(state = "running", <<"stop">>) \o <<"copy">> \o When(state = "running", <<"start">>)
    ELSE When(state # "running", <<"start">>)

WindowsUninstall ==
    When(unit # "none", When(state # "stopped", <<"tryStop", "awaitGone">>) \o <<"delete">>)

LinuxUninstall ==
    When(unit # "none",
         When(state = "running", <<"stop">>) \o <<"disable", "remove", "reload">>)

MacUninstall == When(unit # "none", <<"stop", "remove">>)

\* Windows says of a service that is not installed that it is not, and succeeds.
WindowsStart == When(unit # "none" /\ state # "running", <<"start">>)
WindowsStop == When(unit # "none" /\ state # "stopped", <<"stop">>)

UnixStart == IF unit = "none" THEN <<"bail">> ELSE When(state # "running", <<"start">>)
UnixStop == IF unit = "none" THEN <<"bail">> ELSE When(state # "stopped", <<"stop">>)

StartPlan == IF os = "windows" THEN WindowsStart ELSE UnixStart
StopPlan == IF os = "windows" THEN WindowsStop ELSE UnixStop

Plan(command) ==
    CASE command = "install" -> (CASE os = "windows" -> WindowsInstall
                                   [] os = "linux" -> LinuxInstall
                                   [] os = "macos" -> MacInstall)
      [] command = "uninstall" -> (CASE os = "windows" -> WindowsUninstall
                                     [] os = "linux" -> LinuxUninstall
                                     [] os = "macos" -> MacUninstall)
      [] command = "start" -> StartPlan
      [] command = "stop" -> StopPlan

Done(ok) == [Off EXCEPT !.ok = ok]

\* Process p with the steps in todo left: it ends well when there are none.
With(p, todo) ==
    IF todo = <<>> THEN Done(TRUE) ELSE [proc[p] EXCEPT !.todo = todo, !.phase = "work"]

GoOn(p) == proc' = [proc EXCEPT ![p] = With(p, Tail(proc[p].todo))]
Bail(p) == proc' = [proc EXCEPT ![p] = Done(FALSE)]

Look(p) ==
    /\ proc[p].phase = "look"
    /\ LET todo == Plan(proc[p].command)
       IN IF todo = <<>> THEN proc' = [proc EXCEPT ![p] = Done(TRUE)]
          ELSE proc' = [proc EXCEPT ![p].todo = todo, ![p].phase = "work", ![p].saw = state,
                                    ![p].fresh = (unit = "none")]
    /\ UNCHANGED <<os, service, launches, faults>>

-----------------------------------------------------------------------------
(***************************************************************************)
(* The steps.                                                              *)
(***************************************************************************)
At(p, step) == proc[p].phase = "work" /\ Head(proc[p].todo) = step

StepBails(p) ==
    /\ At(p, "bail")
    /\ Bail(p)
    /\ UNCHANGED <<os, service, launches, faults>>

\* The start command, called by install, looks for itself.
StartService(p) ==
    /\ At(p, "startService")
    /\ proc' = [proc EXCEPT ![p] = With(p, StartPlan)]
    /\ UNCHANGED <<os, service, launches, faults>>

\* update_service_binary.
Copy(p) ==
    /\ At(p, "copy")
    /\ IF Busy THEN Bail(p) /\ UNCHANGED <<binary, runs>>
       ELSE /\ GoOn(p) /\ binary' = "current"
            /\ runs' = IF Alive(state) THEN "current" ELSE runs
    /\ UNCHANGED <<os, unit, loaded, enabled, state, launches, faults>>

\* A copy without the comparison of the sizes.
MutantUnverified(p) ==
    /\ At(p, "copy") /\ ~Busy
    /\ Fault
    /\ proc' = [Disturbed EXCEPT ![p] = With(p, Tail(proc[p].todo))]
    /\ binary' = "partial"
    /\ runs' = IF Alive(state) THEN "partial" ELSE runs
    /\ UNCHANGED <<os, unit, loaded, enabled, state, launches>>

\* The copy stops half way.
CopyBreaks(p) ==
    /\ At(p, "copy") /\ ~Busy
    /\ Fault
    /\ proc' = [Disturbed EXCEPT ![p] = Done(FALSE)]
    /\ binary' = "partial"
    /\ runs' = IF Alive(state) THEN "partial" ELSE runs
    /\ UNCHANGED <<os, unit, loaded, enabled, state, launches>>

\* create_service, which fails for a name that is taken.
Create(p) ==
    /\ At(p, "create")
    /\ IF unit # "none" THEN Bail(p) /\ UNCHANGED <<unit, loaded, enabled>>
       ELSE GoOn(p) /\ unit' = "current" /\ loaded' = "current" /\ enabled' = TRUE
    /\ UNCHANGED <<os, state, binary, runs, launches, faults>>

\* The unit file or the property list is written.
WriteUnit(p) ==
    /\ At(p, "write")
    /\ GoOn(p)
    /\ unit' = "current"
    /\ IF os = "macos" THEN loaded' = "current" /\ enabled' = TRUE ELSE UNCHANGED <<loaded, enabled>>
    /\ UNCHANGED <<os, state, binary, runs, launches, faults>>

Describe(p) ==
    /\ At(p, "describe")
    /\ GoOn(p)
    /\ UNCHANGED <<os, service, launches, faults>>

Reload(p) ==
    /\ At(p, "reload")
    /\ GoOn(p)
    /\ loaded' = unit
    /\ UNCHANGED <<os, unit, enabled, state, binary, runs, launches, faults>>

Enable(p) ==
    /\ At(p, "enable") \/ At(p, "disable")
    /\ GoOn(p)
    /\ enabled' = At(p, "enable")
    /\ UNCHANGED <<os, unit, loaded, state, binary, runs, launches, faults>>

Start(p) ==
    /\ At(p, "start")
    /\ IF CanStart THEN GoOn(p) /\ Starts ELSE Bail(p) /\ Stays
    /\ UNCHANGED <<os, unit, loaded, enabled, binary, launches, faults>>

Stop(p) ==
    /\ At(p, "stop")
    /\ IF CanStop THEN GoOn(p) /\ Stops ELSE Bail(p) /\ Stays
    /\ UNCHANGED <<os, unit, loaded, enabled, binary, launches, faults>>

\* Windows' install and uninstall go by the state that follows, not by the result.
TryStart(p) ==
    /\ At(p, "tryStart")
    /\ GoOn(p)
    /\ IF CanStart THEN Starts ELSE Stays
    /\ UNCHANGED <<os, unit, loaded, enabled, binary, launches, faults>>

TryStop(p) ==
    /\ At(p, "tryStop")
    /\ GoOn(p)
    /\ IF CanStop THEN Stops ELSE Stays
    /\ UNCHANGED <<os, unit, loaded, enabled, binary, launches, faults>>

\* A wait for the service to run that does not see it fail.
MutantOnlyRunning(p) ==
    /\ At(p, "awaitStart")
    /\ state = "running"
    /\ GoOn(p)
    /\ UNCHANGED <<os, service, launches, faults>>

AwaitStart(p) ==
    /\ At(p, "awaitStart")
    /\ state # "starting"
    /\ IF state = "running" THEN GoOn(p) ELSE Bail(p)
    /\ UNCHANGED <<os, service, launches, faults>>

\* install waits for a service that does not stop without limit.
AwaitStop(p) ==
    /\ At(p, "awaitStop")
    /\ state = "stopped"
    /\ GoOn(p)
    /\ UNCHANGED <<os, service, launches, faults>>

\* uninstall waits for any state to change, for a while.
AwaitGone(p) ==
    /\ At(p, "awaitGone")
    /\ state # "stopping"
    /\ IF state = "stopped" THEN GoOn(p) ELSE Bail(p)
    /\ UNCHANGED <<os, service, launches, faults>>

\* is-active, half a second after the start.
Check(p) ==
    /\ At(p, "check")
    /\ IF state = "running" THEN GoOn(p) ELSE Bail(p)
    /\ UNCHANGED <<os, service, launches, faults>>

RemoveUnit(p) ==
    /\ At(p, "remove")
    /\ IF unit = "none" /\ os # "macos" THEN Bail(p) /\ UNCHANGED <<unit, loaded, enabled>>
       ELSE /\ GoOn(p) /\ unit' = "none"
            /\ IF os = "macos" THEN loaded' = "none" /\ enabled' = FALSE
               ELSE UNCHANGED <<loaded, enabled>>
    /\ UNCHANGED <<os, state, binary, runs, launches, faults>>

Delete(p) ==
    /\ At(p, "delete")
    /\ IF ~Registered THEN Bail(p) /\ UNCHANGED <<unit, loaded, enabled>>
       ELSE /\ GoOn(p)
            /\ IF state = "stopped" /\ \A q \in Procs \ {p}: ~HasOpen(q)
               THEN unit' = "none" /\ loaded' = "none" /\ enabled' = FALSE
               ELSE unit' = "deleting" /\ UNCHANGED <<loaded, enabled>>
    /\ UNCHANGED <<os, state, binary, runs, launches, faults>>

\* The next step after one that failed.
Later(p) ==
    LET rest == Tail(proc[p].todo)
    IN IF rest = <<>> THEN Done(TRUE) ELSE [proc[p] EXCEPT !.todo = rest, !.calm = FALSE]

\* A step fails, or takes too long.  Most failures end the command; some are only printed.
StepFails(p) ==
    /\ proc[p].phase = "work"
    /\ Fault
    /\ LET step == Head(proc[p].todo)
       IN /\ step \notin {"bail", "startService"}
          /\ step = "awaitStop" => state = "stopping"
          /\ proc' = [Disturbed EXCEPT ![p] =
               IF step \in {"tryStart", "tryStop", "disable"} THEN Later(p) ELSE Done(FALSE)]
    /\ UNCHANGED <<os, service, launches>>

\* The state of the service cannot be read: it is taken to have stopped.
StateUnknown(p) ==
    /\ At(p, "awaitStop") \/ At(p, "awaitGone")
    /\ Fault
    /\ proc' = [Disturbed EXCEPT ![p] = Later(p)]
    /\ UNCHANGED <<os, service, launches>>

-----------------------------------------------------------------------------
ProcStep(p) ==
    \/ Look(p)
    \/ StepBails(p)
    \/ StartService(p)
    \/ Copy(p)
    \/ Create(p)
    \/ WriteUnit(p)
    \/ Describe(p)
    \/ Reload(p)
    \/ Enable(p)
    \/ Start(p)
    \/ Stop(p)
    \/ TryStart(p)
    \/ TryStop(p)
    \/ AwaitStart(p)
    \/ AwaitStop(p)
    \/ AwaitGone(p)
    \/ Check(p)
    \/ RemoveUnit(p)
    \/ Delete(p)

ProcFails(p) == CopyBreaks(p) \/ StepFails(p) \/ StateUnknown(p)

ServiceStep == HasStarted \/ HasStopped \/ HasGone \/ Restarts

=============================================================================
