---------------------------- MODULE ServiceSetup -----------------------------
(***************************************************************************)
(* The hub's part in installing and removing the service                   *)
(* (native/hub/src/molecules/clash_process/service_manager.rs), composed   *)
(* with the processes of the service program that it starts with raised    *)
(* privileges.  On Windows it cannot wait for such a process and goes by   *)
(* the registration of the service; elsewhere it waits, and does nothing   *)
(* else meanwhile.                                                         *)
(***************************************************************************)
EXTENDS ServiceInstaller

CONSTANTS
    Tasks,     \* the handlers of InstallService and UninstallService
    MaxPolls,  \* bound: 20 looks at the registration
    MaxTries   \* bound: 15 more attempts to delete the program

ASSUME SetupAssumption == MaxPolls \in Nat /\ MaxTries \in Nat

VARIABLES
    root,  \* the application runs as root (not on Windows)
    task   \* per handler: its operation, phase, process, counter and answer

vars == <<installerVars, root, task>>

Idle == [op |-> "install", phase |-> "idle", proc |-> CHOOSE p \in Procs: TRUE, n |-> 0,
         was |-> FALSE, answer |-> "none"]

SetupTypeOK ==
    /\ InstallerTypeOK
    /\ root \in BOOLEAN
    /\ task \in [Tasks -> [op: {"install", "uninstall"},
                           phase: {"idle", "asked", "elevated", "waiting", "polling", "stopping", "removing"},
                           proc: Procs, n: 0..(MaxPolls + MaxTries), was: BOOLEAN,
                           answer: {"none", "ok", "error"}]]

SetupInit ==
    /\ InstallerInit
    /\ root \in (IF os = "windows" THEN {FALSE} ELSE BOOLEAN)
    /\ task = [t \in Tasks |-> Idle]

-----------------------------------------------------------------------------
\* get_status: a service that is registered and runs may say that it has a core.
CoreSeen == (os # "macos" => unit # "none") /\ state = "running"

\* A command that is waited for keeps the only thread of the hub.
Blocked == \E t \in Tasks: task[t].phase = "waiting"

HubStep(t) ==
    /\ ~Blocked
    /\ UNCHANGED <<os, unit, loaded, enabled, state, runs, faults, root>>

To(t, phase) == task' = [task EXCEPT ![t].phase = phase, ![t].n = 0]
Answer(t, answer) == task' = [task EXCEPT ![t] = [Idle EXCEPT !.answer = answer]]

Request(t, op) ==
    /\ HubStep(t)
    /\ task[t].phase = "idle" /\ launches < MaxLaunches
    /\ task' = [task EXCEPT ![t].op = op, ![t].phase = "asked", ![t].answer = "none"]
    /\ UNCHANGED <<binary, proc, launches>>

\* install_service first asks whether a core is running.
AskStatus(t) ==
    /\ HubStep(t)
    /\ task[t].phase = "asked"
    /\ \E was \in {FALSE, task[t].op = "install" /\ CoreSeen}:
         task' = [task EXCEPT ![t].phase = "elevated", ![t].was = was]
    /\ UNCHANGED <<binary, proc, launches>>

\* On macOS the program itself asks for the privileges, but refuses to run without them.
MayRun == os = "macos" => root

\* The user refuses, or the program is not there.
Refused(t) ==
    /\ HubStep(t)
    /\ task[t].phase = "elevated"
    /\ Answer(t, "error")
    /\ UNCHANGED <<binary, proc, launches>>

\* run_elevated_command, pkexec, or the program itself.
Elevate(t) ==
    /\ HubStep(t)
    /\ task[t].phase = "elevated"
    /\ MayRun
    /\ \E p \in Procs:
         /\ Launch(p, task[t].op)
         /\ task' = [task EXCEPT ![t].phase = IF os = "windows" THEN "polling" ELSE "waiting",
                                 ![t].proc = p]
    /\ UNCHANGED binary

\* Windows: every 200 ms, whether the service is registered.
Poll(t) ==
    LET seen == (task[t].op = "install") = (unit # "none")
    IN /\ HubStep(t)
       /\ task[t].phase = "polling"
       /\ IF ~seen /\ task[t].n < MaxPolls THEN task' = [task EXCEPT ![t].n = @ + 1]
          ELSE CASE task[t].op = "uninstall" -> To(t, "removing")
                 [] task[t].op = "install" /\ task[t].was -> To(t, "stopping")
                 [] OTHER -> Answer(t, "ok")
       /\ UNCHANGED <<binary, proc, launches>>

\* The handler waits for the process.
Waited(t) ==
    LET p == proc[task[t].proc]
    IN /\ task[t].phase = "waiting"
       /\ p.phase = "done"
       /\ IF p.ok /\ task[t].op = "uninstall" THEN To(t, "removing")
          ELSE Answer(t, IF p.ok THEN "ok" ELSE "error")
       /\ UNCHANGED <<installerVars, root>>

\* StopClash, to whatever service there is; a failure is only logged.
StopCore(t) ==
    /\ HubStep(t)
    /\ task[t].phase = "stopping"
    /\ Answer(t, "ok")
    /\ UNCHANGED <<binary, proc, launches>>

\* Under pkexec the program keeps its copy with root's data, where the hub does not look.
Visible == os = "linux" => root

\* remove_service_binary_from_private, after the ClashProcessResult that says that the
\* core has stopped.  Windows keeps the file of a process that runs.
RemoveBinary(t) ==
    /\ HubStep(t)
    /\ task[t].phase = "removing"
    /\ IF ~Visible \/ binary = "none" THEN Answer(t, "ok") /\ UNCHANGED binary
       ELSE IF os = "windows" /\ Alive(state)
       THEN /\ IF task[t].n < MaxTries THEN task' = [task EXCEPT ![t].n = @ + 1] ELSE Answer(t, "error")
            /\ UNCHANGED binary
       ELSE Answer(t, "ok") /\ binary' = "none"
    /\ proc' = Joined
    /\ UNCHANGED launches

\* A command given in a terminal.
ShellCommand(p, command) ==
    /\ Launch(p, command)
    /\ UNCHANGED <<os, service, faults, root, task>>

-----------------------------------------------------------------------------
TaskStep(t) ==
    \/ AskStatus(t)
    \/ Refused(t)
    \/ Elevate(t)
    \/ Poll(t)
    \/ Waited(t)
    \/ StopCore(t)
    \/ RemoveBinary(t)

SetupNext ==
    \/ \E t \in Tasks: TaskStep(t) \/ \E op \in {"install", "uninstall"}: Request(t, op)
    \/ \E p \in Procs: \E command \in Commands: ShellCommand(p, command)
    \/ (\E p \in Procs: ProcStep(p) \/ ProcFails(p)) /\ UNCHANGED <<root, task>>
    \/ ServiceStep /\ UNCHANGED <<root, task>>
    \/ Crashes /\ UNCHANGED <<root, task>>

SetupSpec == SetupInit /\ [][SetupNext]_vars

\* Processes and tasks are scheduled, a dialog is answered, and the service manager does
\* what it was asked to.
SetupFairSpec ==
    /\ SetupSpec
    /\ \A t \in Tasks: WF_vars(TaskStep(t))
    /\ \A p \in Procs: WF_vars(ProcStep(p) /\ UNCHANGED <<root, task>>)
    /\ WF_vars(ServiceStep /\ UNCHANGED <<root, task>>)

-----------------------------------------------------------------------------
(***************************************************************************)
(* Safety.                                                                 *)
(***************************************************************************)

\* Process p ends in this step with result ok, after a life without other processes.
Ends(p, command, ok) ==
    /\ Working(p) /\ proc[p].command = command /\ proc[p].alone
    /\ proc'[p].phase = "done" /\ proc'[p].ok = ok

\* Nothing failed meanwhile.
Calm(p) == proc[p].calm /\ faults' = faults

\* What the process has seen when it began.
Saw(p) == IF proc[p].phase = "look" THEN state ELSE proc[p].saw
Fresh(p) == proc[p].phase = "work" /\ proc[p].fresh

\* An install that ends well and had the machine to itself leaves the service registered
\* with the program it brought, whatever an interrupted command had left before; and if
\* nothing failed meanwhile, a service that was running or not there at all is running it.
\* One that has nothing to do, for the service is current and runs, takes an entry for good
\* that Windows is about to delete.
InstallDoes ==
    [][\A p \in Procs:
         Ends(p, "install", TRUE) =>
           /\ unit' = "current" \/ (unit = "deleting" /\ proc[p].phase = "look")
           /\ binary' = "current"
           /\ Calm(p) /\ (Fresh(p) \/ Saw(p) = "running") => state' = "running" /\ runs' = "current"]_vars

\* An uninstall that ends well and had the machine to itself leaves nothing registered and
\* nothing running: a service that still runs was not registered, or about to be restarted.
UninstallDoes ==
    [][\A p \in Procs:
         Ends(p, "uninstall", TRUE) =>
           /\ unit' \in {"none", "deleting"}
           /\ Calm(p) /\ proc[p].phase = "work" /\ Saw(p) # "restarting" => ~Alive(state')]_vars

\* What somebody may rely on who is told that the command went well.
CommandsDo == InstallDoes /\ UninstallDoes

\* An install or uninstall that fails has a reason: another command, a failure of the
\* system, a service that was just about to change its state or to go, or one that runs
\* without being registered.
FailsForAReason ==
    [][\A p \in Procs: \A command \in {"install", "uninstall"}:
         Ends(p, command, FALSE) /\ Calm(p) =>
           \/ Saw(p) \in {"starting", "stopping", "restarting"}
           \/ Saw(p) = "running" /\ Fresh(p)
           \/ unit = "deleting"]_vars

\* "The program in the private directory is deleted only after a successful uninstall"
\* (service_manager.rs:439): it is never deleted under a registered service.  The code
\* breaks it on Windows, where run_elevated_command reports success whatever happens.
BinaryKept ==
    [][binary # "none" /\ binary' = "none" => ~Registered]_vars

(***************************************************************************)
(* Liveness.                                                               *)
(***************************************************************************)

\* The command waits without limit for a service that has refused to stop.
Refuses(p) == At(p, "awaitStop") /\ state = "running"

\* Every command of the service program ends, unless the service does not stop.
CommandsEnd == \A p \in Procs: Working(p) ~> ~Working(p) \/ Refuses(p)

\* Every operation is answered, also when the command it started never ends.
OperationsEnd == \A t \in Tasks: task[t].phase = "asked" ~> task[t].answer # "none"

\* Nobody waits for ever: neither who typed a command nor who asked the application.
EverythingEnds == CommandsEnd /\ OperationsEnd

=============================================================================
