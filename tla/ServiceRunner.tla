--------------------------- MODULE ServiceRunner ----------------------------
(***************************************************************************)
(* The background service process: the run loop and its heartbeat monitor  *)
(* (service/runner.rs), the command handler (service/handler.rs) and the   *)
(* task per connection of the IPC server (ipc/server.rs), sharing one      *)
(* ClashManager behind a fair tokio RwLock.                                *)
(*                                                                         *)
(* A connection carries one command.  Its task queues for the lock and is  *)
(* never cancelled when the client goes away.  Time is counted in ticks.   *)
(***************************************************************************)
EXTENDS ClashManager

CONSTANTS
    Conns,         \* the connections the clients may open
    Cmds,          \* the commands they may carry, out of AllCmds
    Monitor,       \* the heartbeat monitor's task
    Shutdown,      \* the task that runs the service to its end
    NoTask,
    CheckEvery,    \* CHECK_INTERVAL
    Timeout,       \* HEARTBEAT_TIMEOUT
    SleepGap,      \* the gap between two checks that reveals a suspend
    SuspendLengths,\* for how long the machine may be suspended
    MaxSuspends,   \* bound on the number of suspends
    MaxCrashes,    \* bound on the number of times the service is killed
    MaxBoots       \* bound on the number of times the service is started

AllCmds == {"StartClash", "StopClash", "GetStatus"}

ASSUME RunnerAssumption ==
    /\ Cmds \subseteq AllCmds
    /\ Monitor \notin Conns
    /\ Shutdown \notin Conns
    /\ NoTask \notin Conns
    /\ Monitor # Shutdown /\ Monitor # NoTask /\ Shutdown # NoTask
    /\ CheckEvery \in Nat \ {0}
    /\ Timeout \in Nat /\ SleepGap \in Nat
    /\ CheckEvery <= SleepGap
    /\ SuspendLengths \subseteq Nat
    /\ MaxSuspends \in Nat /\ MaxCrashes \in Nat /\ MaxBoots \in Nat

Tasks == Conns \cup {Monitor, Shutdown}

VARIABLES
    phase,      \* "down", "up", "stopping", "exiting" or "dropping"
    listening,  \* the accept loop runs
    conn,       \* per connection: its command, its task's state, its answer
    ahead,      \* per task queued for the lock: the tasks queued before it
    waiting,    \* the tasks queued for the lock
    writer,     \* the task that holds it for writing
    readers,    \* the tasks that hold it for reading
    mon,        \* the monitor: "off", "sleep", "queued" or "held"
    silence,    \* ticks since last_heartbeat
    nap,        \* ticks since the monitor went to sleep
    sinceCheck, \* ticks since the monitor's previous check
    app,        \* the application is running
    slept,      \* the silence includes a suspend longer than SleepGap
    suspends, crashes, boots,
    orphans,    \* history: the cores the last service process left behind
    settled     \* history: the cores of the last life whose shutdown has stopped them

queueVars == <<waiting, ahead>>
lockVars == <<queueVars, writer, readers>>
clockVars == <<silence, nap, sinceCheck, slept>>
historyVars == <<orphans, settled>>
envVars == <<app, suspends, crashes, boots, historyVars>>
serverVars == <<phase, listening>>

vars == <<managerVars, serverVars, conn, lockVars, mon, clockVars, envVars>>

-----------------------------------------------------------------------------
\* Ticks beyond what any comparison can tell apart are not counted.
SilenceCap == Timeout + 1
GapCap == SleepGap + 1

Capped(n, cap) == IF n > cap THEN cap ELSE n

ConnStates == {"free", "inbox", "queued", "held", "pid", "uptime", "done", "dropped"}

Answers == {"none", "ok", "err"}

Connection == [cmd: AllCmds, st: ConnStates, answer: Answers, pid: Nat, uptime: Nat]

RunnerTypeOK ==
    /\ ManagerTypeOK
    /\ phase \in {"down", "up", "stopping", "exiting", "dropping"}
    /\ listening \in BOOLEAN
    /\ conn \in [Conns -> Connection]
    /\ waiting \subseteq Tasks
    /\ ahead \in [Tasks -> SUBSET Tasks]
    /\ writer \in Tasks \cup {NoTask}
    /\ readers \subseteq Conns
    /\ mon \in {"off", "sleep", "queued", "held"}
    /\ silence \in 0..SilenceCap
    /\ nap \in 0..CheckEvery
    /\ sinceCheck \in 0..GapCap
    /\ app \in BOOLEAN
    /\ slept \in BOOLEAN
    /\ suspends \in Nat
    /\ crashes \in Nat
    /\ boots \in Nat
    /\ orphans \subseteq Pids
    /\ settled \subseteq Pids

NewConn == [cmd |-> "GetStatus", st |-> "free", answer |-> "none", pid |-> 0, uptime |-> 0]

RunnerInit ==
    /\ ManagerInit
    /\ phase = "down"
    /\ listening = FALSE
    /\ conn = [i \in Conns |-> NewConn]
    /\ waiting = {}
    /\ ahead = [t \in Tasks |-> {}]
    /\ writer = NoTask
    /\ readers = {}
    /\ mon = "off"
    /\ silence = 0
    /\ nap = 0
    /\ sinceCheck = 0
    /\ app = FALSE
    /\ slept = FALSE
    /\ suspends = 0
    /\ crashes = 0
    /\ boots = 0
    /\ orphans = {}
    /\ settled = {}

-----------------------------------------------------------------------------
(***************************************************************************)
(* The RwLock: a writer excludes everyone, and nobody overtakes a task     *)
(* that is queued before it.                                               *)
(***************************************************************************)
Queue(t) ==
    /\ waiting' = waiting \cup {t}
    /\ ahead' = [ahead EXCEPT ![t] = waiting]

\* The tasks of T leave the queue, granted or dropped.
LeaveQueue(T) ==
    /\ waiting' = waiting \ T
    /\ ahead' = [t \in Tasks |-> IF t \in T THEN {} ELSE ahead[t] \ T]

\* A lock that is granted in any order.
MutantUnfairFirst(t) == t \in waiting

First(t) == t \in waiting /\ ahead[t] = {}

Reads(t) == t \in Conns /\ conn[t].cmd = "GetStatus"

\* A writer that does not wait for the readers.
MutantReadersIgnored == writer = NoTask

LockFree == writer = NoTask /\ readers = {}

-----------------------------------------------------------------------------
(***************************************************************************)
(* Clients and the IPC server.                                             *)
(***************************************************************************)

\* A command arrives on connection i; its task is spawned, so tasks that
\* arrived close together may reach the lock in either order.
Arrive(i, cmd) ==
    /\ app /\ listening
    /\ conn[i].st = "free"
    /\ conn' = [conn EXCEPT ![i].cmd = cmd, ![i].st = "inbox"]
    /\ UNCHANGED <<managerVars, serverVars, lockVars, mon, clockVars, envVars>>

HandleCommand(i) ==
    /\ conn[i].st = "inbox"
    /\ conn' = [conn EXCEPT ![i].st = "queued"]
    /\ Queue(i)
    /\ UNCHANGED <<managerVars, serverVars, writer, readers, mon, clockVars, envVars>>

\* Heartbeat needs no ClashManager; it only renews last_heartbeat.
Heartbeat ==
    /\ app /\ listening
    /\ silence' = 0
    /\ slept' = FALSE
    /\ UNCHANGED <<managerVars, serverVars, conn, lockVars, mon, nap, sinceCheck, envVars>>

\* Creating the next pipe instance failed: run() returns and nobody restarts it.
IpcServerFails ==
    /\ phase = "up" /\ listening
    /\ listening' = FALSE
    /\ UNCHANGED <<managerVars, phase, conn, lockVars, mon, clockVars, envVars>>

-----------------------------------------------------------------------------
(***************************************************************************)
(* StartClash, StopClash and the calls of the monitor and the shutdown.    *)
(***************************************************************************)
FirstStep(t) ==
    IF t \in Conns /\ conn[t].cmd = "StartClash" THEN "start" ELSE "stop"

ConnHeld(i) == [conn EXCEPT ![i].st = "held"]

AcquireWrite(t) ==
    /\ First(t)
    /\ ~Reads(t)
    /\ LockFree
    /\ writer' = t
    /\ LeaveQueue({t})
    /\ op' = FirstStep(t)
    /\ conn' = IF t \in Conns THEN ConnHeld(t) ELSE conn
    /\ mon' = IF t = Monitor THEN "held" ELSE mon
    /\ UNCHANGED <<alive, spawned, child, startTime, serverVars, readers, clockVars, envVars>>

AcquireRead(i) ==
    /\ First(i)
    /\ Reads(i)
    /\ writer = NoTask
    /\ readers' = readers \cup {i}
    /\ LeaveQueue({i})
    /\ conn' = ConnHeld(i)
    /\ UNCHANGED <<managerVars, serverVars, writer, mon, clockVars, envVars>>

\* One step of start or stop, run by whoever holds the lock.
CallStep ==
    /\ writer # NoTask
    /\ ManagerStep
    /\ UNCHANGED <<serverVars, conn, lockVars, mon, clockVars, envVars>>

Returned == op \in {"ok", "err"}

\* The caller drops its guard once the call has returned.
Unlock ==
    /\ Returned
    /\ op' = "none"
    /\ writer' = NoTask
    /\ UNCHANGED <<alive, spawned, child, startTime, queueVars, readers>>

AnswerCall(i) ==
    /\ writer = i
    /\ Unlock
    /\ conn' = [conn EXCEPT ![i].st = "done", ![i].answer = op]
    /\ UNCHANGED <<serverVars, mon, clockVars, envVars>>

-----------------------------------------------------------------------------
(***************************************************************************)
(* GetStatus: get_status locks the child, the child again, and the start   *)
(* time, one after the other, while other readers may do the same.         *)
(***************************************************************************)
StatusNotRunning(i) ==
    /\ i \in readers /\ conn[i].st = "held"
    /\ ForgetChild
    /\ conn' = [conn EXCEPT ![i].st = "done", ![i].answer = "ok"]
    /\ readers' = readers \ {i}
    /\ UNCHANGED <<op, serverVars, queueVars, writer, mon, clockVars, envVars>>

StatusRunning(i) ==
    /\ i \in readers /\ conn[i].st = "held"
    /\ child \in alive
    /\ conn' = [conn EXCEPT ![i].st = "pid"]
    /\ UNCHANGED <<managerVars, serverVars, lockVars, mon, clockVars, envVars>>

StatusPid(i) ==
    /\ i \in readers /\ conn[i].st = "pid"
    /\ conn' = [conn EXCEPT ![i].st = "uptime", ![i].pid = child]
    /\ UNCHANGED <<managerVars, serverVars, lockVars, mon, clockVars, envVars>>

StatusUptime(i) ==
    /\ i \in readers /\ conn[i].st = "uptime"
    /\ conn' = [conn EXCEPT ![i].st = "done", ![i].answer = "ok", ![i].uptime = startTime]
    /\ readers' = readers \ {i}
    /\ UNCHANGED <<managerVars, serverVars, queueVars, writer, mon, clockVars, envVars>>

-----------------------------------------------------------------------------
(***************************************************************************)
(* The heartbeat monitor.                                                  *)
(***************************************************************************)
MonitorDue == mon = "sleep" /\ nap = CheckEvery

\* The suspend is noticed but the heartbeat timer is not reset.
MutantSuspendNoReset ==
    /\ MonitorDue
    /\ sinceCheck > SleepGap
    /\ nap' = 0
    /\ sinceCheck' = 0
    /\ UNCHANGED <<managerVars, serverVars, conn, lockVars, mon, silence, slept, envVars>>

\* Too long since the previous check: the machine was suspended.
MonitorSeesSuspend ==
    /\ MonitorDue
    /\ sinceCheck > SleepGap
    /\ silence' = 0
    /\ slept' = FALSE
    /\ nap' = 0
    /\ sinceCheck' = 0
    /\ UNCHANGED <<managerVars, serverVars, conn, lockVars, mon, envVars>>

MonitorContent ==
    /\ MonitorDue
    /\ sinceCheck <= SleepGap
    /\ silence <= Timeout
    /\ nap' = 0
    /\ sinceCheck' = 0
    /\ UNCHANGED <<managerVars, serverVars, conn, lockVars, mon, silence, slept, envVars>>

\* The silence is read here; what arrives before the lock is granted is not
\* looked at again.
MonitorAlarmed ==
    /\ MonitorDue
    /\ sinceCheck <= SleepGap
    /\ silence > Timeout
    /\ mon' = "queued"
    /\ Queue(Monitor)
    /\ nap' = 0
    /\ sinceCheck' = 0
    /\ UNCHANGED <<managerVars, serverVars, conn, writer, readers, silence, slept, envVars>>

\* A monitor that ends after its first stop.
MutantMonitorBreaks ==
    /\ writer = Monitor
    /\ Unlock
    /\ mon' = "off"
    /\ silence' = 0
    /\ slept' = FALSE
    /\ nap' = 0
    /\ UNCHANGED <<serverVars, conn, sinceCheck, envVars>>

\* A monitor whose guard lives on until its next alarm.
MutantGuardKept ==
    /\ writer = Monitor
    /\ Returned
    /\ op' = "none"
    /\ mon' = "sleep"
    /\ silence' = 0
    /\ slept' = FALSE
    /\ nap' = 0
    /\ UNCHANGED <<alive, spawned, child, startTime, lockVars, serverVars, conn, sinceCheck, envVars>>

\* The core has been stopped (or not); either way the timer starts afresh.
\* A monitor aborted while it was inside stop() ends at its next await.
MonitorStopped ==
    /\ writer = Monitor
    /\ Unlock
    /\ mon' = IF phase = "exiting" THEN "off" ELSE "sleep"
    /\ silence' = 0
    /\ slept' = FALSE
    /\ nap' = 0
    /\ UNCHANGED <<serverVars, conn, sinceCheck, envVars>>

-----------------------------------------------------------------------------
(***************************************************************************)
(* Time.  While the machine is awake tokio's timers fire on time, so no    *)
(* tick passes over a monitor that is due.                                 *)
(***************************************************************************)
Running == phase \in {"up", "stopping"}

Advance(d) ==
    /\ silence' = Capped(silence + d, SilenceCap)
    /\ nap' = IF mon = "sleep" THEN Capped(nap + d, CheckEvery) ELSE nap
    /\ sinceCheck' = Capped(sinceCheck + d, GapCap)
    /\ UNCHANGED <<managerVars, serverVars, conn, lockVars, mon>>

Tick ==
    /\ Running
    /\ ~MonitorDue
    /\ Advance(1)
    /\ UNCHANGED <<slept, envVars>>

Suspend ==
    /\ Running
    /\ suspends < MaxSuspends
    /\ \E d \in SuspendLengths:
         /\ Advance(d)
         /\ slept' = (slept \/ d > SleepGap)
    /\ suspends' = suspends + 1
    /\ UNCHANGED <<app, crashes, boots, historyVars>>

-----------------------------------------------------------------------------
(***************************************************************************)
(* The service's own life.                                                 *)
(***************************************************************************)

\* The manager is created empty; the monitor starts when the IPC server is
\* ready or the wait for it is over, whether or not the server came up.
Boot ==
    /\ phase = "down"
    /\ boots < MaxBoots
    /\ boots' = boots + 1
    /\ phase' = "up"
    /\ listening' \in BOOLEAN
    /\ mon' = "sleep"
    /\ silence' = 0 /\ nap' = 0 /\ sinceCheck' = 0 /\ slept' = FALSE
    /\ UNCHANGED <<managerVars, conn, lockVars, app, suspends, crashes, historyVars>>

\* SIGTERM, SIGINT or the service manager's stop request.
StopRequested ==
    /\ phase = "up"
    /\ phase' = "stopping"
    /\ Queue(Shutdown)
    /\ UNCHANGED <<managerVars, listening, conn, writer, readers, mon, clockVars, envVars>>

\* The end of the main task: the monitor and the accept loop are aborted.
\* An aborted task ends at an await, so not while it is inside stop().
LeaveMain ==
    /\ phase' = "exiting"
    /\ listening' = FALSE
    /\ mon' = IF writer = Monitor THEN mon ELSE "off"

\* The shutdown keeps its guard to the end of the main task.
MutantShutdownKeepsGuard ==
    /\ phase = "stopping"
    /\ writer = Shutdown
    /\ Returned
    /\ op' = "none"
    /\ LeaveMain
    /\ UNCHANGED <<alive, spawned, child, startTime, conn, lockVars, clockVars, envVars>>

\* A shutdown that does not wait for the stop it has begun.
MutantShutdownHurries ==
    /\ phase = "stopping"
    /\ writer = Shutdown
    /\ op' = "none"
    /\ writer' = NoTask
    /\ LeaveMain
    /\ LeaveQueue({Monitor})
    /\ settled' = Pids \ orphans
    /\ UNCHANGED <<alive, spawned, child, startTime, conn, readers, clockVars,
                   app, suspends, crashes, boots, orphans>>

ShutdownStopped ==
    /\ phase = "stopping"
    /\ writer = Shutdown
    /\ Returned
    /\ op' = "none"
    /\ writer' = NoTask
    /\ LeaveMain
    /\ LeaveQueue({Monitor})
    /\ settled' = IF op = "ok" THEN Pids \ orphans ELSE settled
    /\ UNCHANGED <<alive, spawned, child, startTime, conn, readers, clockVars,
                   app, suspends, crashes, boots, orphans>>

\* The lock was not granted within 5 s: another task holds it or is before.
ShutdownTimesOut ==
    /\ phase = "stopping"
    /\ writer # Shutdown
    /\ ~(First(Shutdown) /\ LockFree)
    /\ LeaveMain
    /\ LeaveQueue({Monitor, Shutdown})
    /\ UNCHANGED <<managerVars, conn, writer, readers, clockVars, envVars>>

\* The runtime is dropped: a task that is running reaches its next await and
\* is dropped there, and with the last Arc the manager is dropped, which stops
\* the core once more.
Unanswered(i) == conn[i].st \notin {"free", "done", "dropped"}

\* A manager without a Drop of its own.
MutantNoDrop ==
    /\ phase = "exiting"
    /\ LockFree
    /\ phase' = "down"
    /\ conn' = [i \in Conns |-> IF Unanswered(i) THEN [conn[i] EXCEPT !.st = "dropped"] ELSE conn[i]]
    /\ LeaveQueue(Tasks)
    /\ mon' = "off"
    /\ child' = 0
    /\ startTime' = 0
    /\ UNCHANGED <<alive, spawned, op, writer, listening, readers, clockVars, envVars>>

DropRuntime ==
    /\ phase = "exiting"
    /\ LockFree
    /\ phase' = "dropping"
    /\ conn' = [i \in Conns |-> IF Unanswered(i) THEN [conn[i] EXCEPT !.st = "dropped"] ELSE conn[i]]
    /\ LeaveQueue(Tasks)
    /\ mon' = "off"
    /\ writer' = Shutdown
    /\ op' = "stop"
    /\ UNCHANGED <<alive, spawned, child, startTime, listening, readers, clockVars, envVars>>

ManagerDropped ==
    /\ phase = "dropping"
    /\ writer = Shutdown
    /\ Unlock
    /\ phase' = "down"
    /\ UNCHANGED <<listening, conn, mon, clockVars, envVars>>

\* The process is gone with all its tasks.  systemd kills the whole control
\* group, on Windows only the process itself is gone and its core lives on.
ProcessGone ==
    /\ phase' = "down"
    /\ listening' = FALSE
    /\ alive' \in IF Windows THEN {alive} ELSE {{}}
    /\ orphans' = alive'
    /\ child' = 0 /\ startTime' = 0 /\ op' = "none"
    /\ conn' = [i \in Conns |-> IF Unanswered(i) THEN [conn[i] EXCEPT !.st = "dropped"] ELSE conn[i]]
    /\ LeaveQueue(Tasks) /\ writer' = NoTask /\ readers' = {}
    /\ mon' = "off"
    /\ UNCHANGED <<spawned, clockVars, app, suspends, boots, settled>>

ServiceKilled ==
    /\ phase # "down"
    /\ crashes < MaxCrashes
    /\ crashes' = crashes + 1
    /\ ProcessGone

\* On Windows the service reports SERVICE_STOPPED before it drops the runtime.
\* The dispatcher then returns in the main thread, and the process may exit
\* while a call still runs, and before or within the drop of the manager.
ProcessExits ==
    /\ Windows
    /\ phase \in {"exiting", "dropping"}
    /\ ProcessGone
    /\ UNCHANGED crashes

AppStarts ==
    /\ ~app
    /\ app' = TRUE
    /\ UNCHANGED <<managerVars, serverVars, conn, lockVars, mon, clockVars, suspends, crashes, boots, historyVars>>

AppExits ==
    /\ app
    /\ app' = FALSE
    /\ UNCHANGED <<managerVars, serverVars, conn, lockVars, mon, clockVars, suspends, crashes, boots, historyVars>>

CoreEnds ==
    /\ CoreExits
    /\ UNCHANGED <<serverVars, conn, lockVars, mon, clockVars, envVars>>

-----------------------------------------------------------------------------
StatusStep(i) ==
    \/ StatusNotRunning(i)
    \/ StatusRunning(i)
    \/ StatusPid(i)
    \/ StatusUptime(i)

MonitorCheck ==
    \/ MonitorSeesSuspend
    \/ MonitorContent
    \/ MonitorAlarmed

TaskStep ==
    \/ \E t \in Tasks: AcquireWrite(t)
    \/ \E i \in Conns: AcquireRead(i) \/ AnswerCall(i) \/ StatusStep(i)
    \/ CallStep
    \/ MonitorCheck
    \/ MonitorStopped

LifeStep ==
    \/ Boot
    \/ StopRequested
    \/ ShutdownStopped
    \/ ShutdownTimesOut
    \/ DropRuntime
    \/ ManagerDropped
    \/ ServiceKilled
    \/ ProcessExits
    \/ IpcServerFails

EnvStep ==
    \/ Heartbeat
    \/ Tick
    \/ Suspend
    \/ AppStarts
    \/ CoreEnds

Next ==
    \/ \E i \in Conns, cmd \in Cmds: Arrive(i, cmd)
    \/ \E i \in Conns: HandleCommand(i)
    \/ TaskStep
    \/ LifeStep
    \/ EnvStep
    \/ AppExits

Spec == RunnerInit /\ [][Next]_vars

(***************************************************************************)
(* Every task of the multi-threaded runtime runs again when it can, the    *)
(* lock is handed to the head of its queue, a call that has begun ends,    *)
(* and time passes.  Nothing obliges a client, the user, the operating     *)
(* system or a failure to do anything.                                     *)
(***************************************************************************)
Fairness ==
    /\ \A i \in Conns:
         /\ WF_vars(HandleCommand(i)) /\ WF_vars(AnswerCall(i))
         /\ WF_vars(AcquireRead(i)) /\ WF_vars(StatusStep(i))
    /\ \A t \in Tasks: WF_vars(AcquireWrite(t))
    /\ WF_vars(CallStep)
    /\ WF_vars(MonitorCheck) /\ WF_vars(MonitorStopped)
    /\ WF_vars(Tick)
    /\ WF_vars(ShutdownStopped) /\ WF_vars(DropRuntime) /\ WF_vars(ManagerDropped)

FairSpec == Spec /\ Fairness

-----------------------------------------------------------------------------
(***************************************************************************)
(* Safety.                                                                 *)
(***************************************************************************)

\* While no kill, wait or process listing fails, the only core that can exist,
\* beside those an ended service process has left behind, is the one behind the
\* handle: a restart never leaves the previous core running beside the new one
\* (manager.rs, start: "stop the old instance first"; stop takes the handle out
\* before it kills).
OneCore ==
    ~OsMayFail => alive \subseteq {child} \cup orphans

\* When StartClash is about to be answered with success, no core but the new one
\* exists, not even one left behind by a service process that was killed: the
\* sweep by process name has removed it.
StartReplacesAll ==
    \A i \in Conns:
      /\ writer = i /\ conn[i].cmd = "StartClash" /\ op = "ok"
      /\ ~OsMayFail
      => alive \subseteq {child}

\* A core that was there when the stop of the shutdown returned never outlives it,
\* whatever calls were queued beside it.  A StartClash that slips in between that
\* stop and the end of the tasks, or that still holds the lock when the shutdown
\* gives up, is undone on Unix, where the end of the runtime drops the last handle
\* on the manager: no core outlives the service there.  On Windows the process may
\* exit first, after it has reported that it is stopped (runner.rs:227).
NoCoreWithoutService ==
    ~OsMayFail =>
      /\ alive \cap settled = {}
      /\ phase = "down" /\ ~Windows => alive = {}

\* The pid and the uptime of one status answer belong to the same core, although
\* they are read under two separate locks while other readers may find that the
\* core has exited.
StatusConsistent ==
    \A i \in Conns:
      conn[i].st = "done" /\ conn[i].pid # 0 /\ conn[i].uptime # 0
      => conn[i].pid = conn[i].uptime

\* The monitor never raises the alarm on a silence that a long suspend is part
\* of (runner.rs: a gap of more than 60 s between two checks resets the timer).
NoAlarmAfterSuspend ==
    [][mon = "sleep" /\ mon' = "queued" => ~slept]_vars

\* The service implements CoreSlot.
Slot == INSTANCE CoreSlot WITH
    MayLose <- OsMayFail \/ Windows,
    core <- IF child \in alive THEN child ELSE 0,
    strays <- alive \ {child},
    last <- spawned

\* A core is launched only when the previous one is gone, unless a kill failed or
\* a Windows service ended with its core left behind, whatever the interleaving of
\* commands, monitor, shutdown and restarts of the service.
ImplementsCoreSlot == Slot!SlotSpec

-----------------------------------------------------------------------------
(***************************************************************************)
(* Liveness.                                                               *)
(***************************************************************************)

\* When the application is gone the core does not outlive it: the monitor stops
\* it in the end, or the application comes back.  Only a core that an ended service
\* process has left behind has nobody who looks after it.
OrphanStopped ==
    (~app /\ ~(alive \subseteq orphans)) ~> (app \/ alive \subseteq orphans)

\* Every command that reached the service is answered, or its connection is
\* closed because the service ends.
CommandsAnswered ==
    \A i \in Conns: conn[i].st = "inbox" ~> conn[i].st \in {"done", "dropped"}

\* A stop request to the service ends it, whatever calls are queued.
ShutdownCompletes ==
    phase = "stopping" ~> phase = "down"

=============================================================================
