------------------------ MODULE ServiceRunnerProofs -------------------------
(***************************************************************************)
(* Proofs about ServiceRunner, for any set of connections and any length   *)
(* of the timers.                                                          *)
(***************************************************************************)
EXTENDS ServiceRunner, TLAPS

-----------------------------------------------------------------------------
(***************************************************************************)
(* What the steps leave alone.                                             *)
(***************************************************************************)

\* The steps that leave the manager's processes and handle alone.
LEMMA ManagerFrame ==
    ASSUME [Next]_vars
    PROVE  \/ UNCHANGED <<alive, spawned, child, startTime>>
           \/ CallStep
           \/ CoreEnds
           \/ ServiceKilled \/ ProcessExits
           \/ \E i \in Conns: StatusNotRunning(i)
<1>1. CASE TaskStep
  BY <1>1 DEF TaskStep, AcquireWrite, AcquireRead, AnswerCall, StatusStep, StatusRunning,
              StatusPid, StatusUptime, MonitorCheck, MonitorSeesSuspend, MonitorContent,
              MonitorAlarmed, MonitorStopped, Unlock, managerVars
<1>2. CASE LifeStep
  BY <1>2 DEF LifeStep, Boot, StopRequested, ShutdownStopped, ShutdownTimesOut, DropRuntime,
              ManagerDropped, Unlock, IpcServerFails, managerVars
<1>3. CASE EnvStep
  BY <1>3 DEF EnvStep, Heartbeat, Tick, Suspend, Advance, AppStarts, managerVars
<1> QED
  BY <1>1, <1>2, <1>3 DEF Next, Arrive, HandleCommand, AppExits, vars, managerVars

\* Only the end of the service process and of its shutdown are recorded.
LEMMA HistoryFrame ==
    ASSUME [Next]_vars
    PROVE  \/ UNCHANGED historyVars
           \/ ShutdownStopped
           \/ ServiceKilled \/ ProcessExits
<1>1. CASE TaskStep
  BY <1>1 DEF TaskStep, AcquireWrite, AcquireRead, AnswerCall, CallStep, StatusStep, StatusNotRunning,
              StatusRunning, StatusPid, StatusUptime, MonitorCheck, MonitorSeesSuspend,
              MonitorContent, MonitorAlarmed, MonitorStopped, envVars
<1>2. CASE LifeStep
  BY <1>2 DEF LifeStep, Boot, StopRequested, ShutdownTimesOut, DropRuntime, ManagerDropped,
              IpcServerFails, envVars
<1>3. CASE EnvStep
  BY <1>3 DEF EnvStep, Heartbeat, Tick, Suspend, AppStarts, CoreEnds, envVars
<1> QED
  BY <1>1, <1>2, <1>3 DEF Next, Arrive, HandleCommand, AppExits, vars, envVars

\* Every step leaves the two records of cores well typed.
LEMMA HistoryType ==
    ASSUME RunnerTypeOK, [Next]_vars
    PROVE  orphans' \subseteq Pids' /\ settled' \subseteq Pids'
<1>t. /\ spawned \in Nat
      /\ alive \subseteq 1..spawned /\ orphans \subseteq 1..spawned /\ settled \subseteq 1..spawned
  BY DEF RunnerTypeOK, ManagerTypeOK, Pids
<1>1. spawned' \in {spawned, spawned + 1}
  <2>1. CASE CallStep
    BY <2>1 DEF CallStep, ManagerStep, StartStopsOld, StopChild, ForgetChild, StartCleansOrphans,
       StartFails, StartSpawns, StopRuns
  <2> QED
    BY <2>1, ManagerFrame DEF CoreEnds, CoreExits, ServiceKilled, ProcessExits, ProcessGone,
       StatusNotRunning, ForgetChild
<1>2. CASE UNCHANGED historyVars
  BY <1>t, <1>1, <1>2 DEF historyVars, Pids
<1>3. CASE ShutdownStopped
  BY <1>t, <1>3 DEF ShutdownStopped, Pids
<1>4. CASE ServiceKilled \/ ProcessExits
  <2>1. spawned' = spawned /\ settled' = settled /\ alive' \in {alive, {}} /\ orphans' = alive'
    BY <1>4 DEF ServiceKilled, ProcessExits, ProcessGone
  <2> QED
    BY <1>t, <2>1 DEF Pids
<1> QED
  BY <1>2, <1>3, <1>4, HistoryFrame

-----------------------------------------------------------------------------
(***************************************************************************)
(* Type correctness.                                                       *)
(***************************************************************************)

\* The steps of a start or stop call, an exit of a core and a status query that
\* finds the core gone keep the manager's state well typed.
LEMMA ManagerType ==
    ASSUME ManagerTypeOK,
           \/ ManagerStep
           \/ CoreExits
           \/ ForgetChild /\ op' = op
    PROVE  ManagerTypeOK'
<1> USE DEF ManagerTypeOK, Pids, Ops
<1>1. CASE StartStopsOld
  BY <1>1 DEF StartStopsOld, StopChild, NothingToStop, ChildKilled, ChildOutlivesKill,
              KillRefused, ForgetChild
<1>2. CASE StartCleansOrphans
  BY <1>2 DEF StartCleansOrphans
<1>3. CASE StartFails
  BY <1>3 DEF StartFails
<1>4. CASE StartSpawns
  BY <1>4 DEF StartSpawns
<1>5. CASE StopRuns
  BY <1>5 DEF StopRuns, StopChild, NothingToStop, ChildKilled, ChildOutlivesKill, KillRefused
<1>6. CASE CoreExits
  BY <1>6 DEF CoreExits
<1>7. CASE ForgetChild /\ op' = op
  BY <1>7 DEF ForgetChild
<1> QED
  BY <1>1, <1>2, <1>3, <1>4, <1>5, <1>6, <1>7 DEF ManagerStep

\* Zero is in the range of every timer.
LEMMA TimerZero == 0 \in 0..SilenceCap /\ 0 \in 0..CheckEvery /\ 0 \in 0..GapCap
BY RunnerAssumption DEF RunnerAssumption, SilenceCap, GapCap

\* Time that passes leaves the timers in range.
LEMMA AdvanceType ==
    ASSUME RunnerTypeOK, NEW d \in Nat, Advance(d)
    PROVE  silence' \in 0..SilenceCap /\ nap' \in 0..CheckEvery /\ sinceCheck' \in 0..GapCap
<1>1. SilenceCap \in Nat /\ CheckEvery \in Nat /\ GapCap \in Nat
  BY RunnerAssumption DEF RunnerAssumption, SilenceCap, GapCap
<1>2. silence \in Nat /\ nap \in 0..CheckEvery /\ sinceCheck \in Nat
  BY <1>1 DEF RunnerTypeOK
<1>3. ASSUME NEW n \in Nat, NEW cap \in Nat
      PROVE  Capped(n + d, cap) \in 0..cap
  BY DEF Capped
<1>4. nap \in Nat
  BY <1>1, <1>2
<1> QED
  BY <1>1, <1>2, <1>3, <1>4 DEF Advance

\* Every step leaves the connections well typed.
LEMMA ConnType ==
    ASSUME RunnerTypeOK, [Next]_vars
    PROVE  conn' \in [Conns -> Connection]
<1> DEFINE ConnOK == conn' \in [Conns -> Connection]
<1>t. conn \in [Conns -> Connection] /\ Cmds \subseteq AllCmds
  BY RunnerAssumption DEF RunnerTypeOK
<1>s. conn' = conn => ConnOK
  BY <1>t
<1> USE DEF ConnStates, Answers, Connection
<1>1. ASSUME NEW t \in Tasks, AcquireWrite(t)
      PROVE  ConnOK
  BY <1>1, <1>t DEF AcquireWrite, ConnHeld
<1>2. ASSUME NEW i \in Conns, AcquireRead(i)
      PROVE  ConnOK
  BY <1>2, <1>t DEF AcquireRead, ConnHeld
<1>3. ASSUME NEW i \in Conns, AnswerCall(i)
      PROVE  ConnOK
  BY <1>3, <1>t DEF AnswerCall, Unlock, Returned
<1>4. ASSUME NEW i \in Conns, StatusStep(i)
      PROVE  ConnOK
  <2>1. child \in Nat /\ startTime \in Nat
    BY DEF RunnerTypeOK, ManagerTypeOK, Pids
  <2> QED
    BY <1>4, <1>t, <2>1 DEF StatusStep, StatusNotRunning, StatusRunning, StatusPid, StatusUptime
<1>5. ASSUME NEW i \in Conns, NEW cmd \in Cmds, Arrive(i, cmd)
      PROVE  ConnOK
  BY <1>5, <1>t DEF Arrive
<1>6. ASSUME NEW i \in Conns, HandleCommand(i)
      PROVE  ConnOK
  BY <1>6, <1>t DEF HandleCommand
<1>7. CASE DropRuntime
  BY <1>7, <1>t DEF DropRuntime
<1>8. CASE ServiceKilled \/ ProcessExits
  BY <1>8, <1>t DEF ServiceKilled, ProcessExits, ProcessGone
<1>9. CASE CallStep \/ MonitorCheck \/ MonitorStopped
  BY <1>9, <1>s DEF CallStep, MonitorCheck, MonitorSeesSuspend, MonitorContent, MonitorAlarmed,
                    MonitorStopped
<1>10. CASE EnvStep \/ AppExits \/ UNCHANGED vars
  BY <1>10, <1>s DEF EnvStep, Heartbeat, Tick, Suspend, Advance, AppStarts, AppExits, CoreEnds, vars
<1>11. CASE Boot \/ StopRequested \/ ShutdownStopped \/ ShutdownTimesOut \/ ManagerDropped
            \/ IpcServerFails
  BY <1>11, <1>s DEF Boot, StopRequested, ShutdownStopped, ShutdownTimesOut, ManagerDropped,
                     IpcServerFails
<1> QED
  BY <1>1, <1>2, <1>3, <1>4, <1>5, <1>6, <1>7, <1>8, <1>9, <1>10, <1>11
  DEF Next, TaskStep, LifeStep

\* RunnerTypeOK is inductive.
LEMMA TypeStep == RunnerTypeOK /\ [Next]_vars => RunnerTypeOK'
<1> SUFFICES ASSUME RunnerTypeOK, [Next]_vars
             PROVE  RunnerTypeOK'
  OBVIOUS
<1>0. conn' \in [Conns -> Connection]
  BY ConnType
<1>h. orphans' \subseteq Pids' /\ settled' \subseteq Pids'
  BY HistoryType
<1> USE <1>0, <1>h, TimerZero
<1> USE DEF RunnerTypeOK, Tasks, vars, managerVars, serverVars, lockVars, queueVars, clockVars, envVars
<1>1. UNCHANGED managerVars => ManagerTypeOK'
  BY DEF ManagerTypeOK, Pids
<1>2. CASE \E t \in Tasks: AcquireWrite(t)
  <2> PICK t \in Tasks: AcquireWrite(t)
    BY <1>2
  <2>1. op' \in Ops /\ ManagerTypeOK'
    BY DEF AcquireWrite, FirstStep, Ops, ManagerTypeOK, Pids
  <2> QED
    BY <2>1 DEF AcquireWrite, LeaveQueue, ConnHeld
<1>3. ASSUME NEW i \in Conns, AcquireRead(i)
      PROVE  RunnerTypeOK'
  BY <1>1, <1>3 DEF AcquireRead, LeaveQueue, ConnHeld
<1>4. ASSUME NEW i \in Conns, AnswerCall(i)
      PROVE  RunnerTypeOK'
  <2>1. ManagerTypeOK'
    BY <1>4 DEF AnswerCall, Unlock, ManagerTypeOK, Pids, Ops
  <2> QED
    BY <1>4, <2>1 DEF AnswerCall, Unlock, Returned
<1>5. ASSUME NEW i \in Conns, StatusStep(i)
      PROVE  RunnerTypeOK'
  <2>1. CASE StatusNotRunning(i)
    <3>1. ManagerTypeOK'
      BY <2>1, ManagerType DEF StatusNotRunning
    <3> QED
      BY <2>1, <3>1 DEF StatusNotRunning
  <2>2. CASE StatusRunning(i)
    BY <2>2, <1>1 DEF StatusRunning
  <2>3. CASE StatusPid(i)
    BY <2>3, <1>1 DEF StatusPid, ManagerTypeOK, Pids
  <2>4. CASE StatusUptime(i)
    BY <2>4, <1>1 DEF StatusUptime, ManagerTypeOK, Pids
  <2> QED
    BY <1>5, <2>1, <2>2, <2>3, <2>4 DEF StatusStep
<1>6. CASE CallStep
  <2>1. ManagerTypeOK'
    BY <1>6, ManagerType DEF CallStep
  <2> QED
    BY <1>6, <2>1 DEF CallStep
<1>7. CASE MonitorCheck
  BY <1>7, <1>1 DEF MonitorCheck, MonitorSeesSuspend, MonitorContent, MonitorAlarmed, Queue
<1>8. CASE MonitorStopped
  <2>1. ManagerTypeOK'
    BY <1>8 DEF MonitorStopped, Unlock, ManagerTypeOK, Pids, Ops
  <2> QED
    BY <1>8, <2>1 DEF MonitorStopped, Unlock
<1>9. CASE Boot
  <2>1. listening' \in BOOLEAN /\ slept' \in BOOLEAN /\ app' \in BOOLEAN
    BY <1>9 DEF Boot
  <2>2. boots' \in Nat /\ suspends' \in Nat /\ crashes' \in Nat
    BY <1>9 DEF Boot
  <2> QED
    BY <1>9, <1>1, <2>1, <2>2 DEF Boot
<1>10. CASE StopRequested
  BY <1>10, <1>1 DEF StopRequested, Queue
<1>11. CASE ShutdownStopped
  <2>1. ManagerTypeOK'
    BY <1>11 DEF ShutdownStopped, ManagerTypeOK, Pids, Ops
  <2> QED
    BY <1>11, <2>1 DEF ShutdownStopped, LeaveMain, LeaveQueue
<1>12. CASE ShutdownTimesOut
  BY <1>12, <1>1 DEF ShutdownTimesOut, LeaveMain, LeaveQueue
<1>13. CASE DropRuntime
  <2>1. ManagerTypeOK'
    BY <1>13 DEF DropRuntime, ManagerTypeOK, Pids, Ops
  <2> QED
    BY <1>13, <2>1 DEF DropRuntime, LeaveQueue
<1>14. CASE ManagerDropped
  <2>1. ManagerTypeOK'
    BY <1>14 DEF ManagerDropped, Unlock, ManagerTypeOK, Pids, Ops
  <2> QED
    BY <1>14, <2>1 DEF ManagerDropped, Unlock
<1>15. CASE ServiceKilled \/ ProcessExits
  <2>1. ManagerTypeOK'
    BY <1>15 DEF ServiceKilled, ProcessExits, ProcessGone, ManagerTypeOK, Pids, Ops
  <2>2. waiting' \subseteq Tasks /\ ahead' \in [Tasks -> SUBSET Tasks]
    BY <1>15 DEF ServiceKilled, ProcessExits, ProcessGone, LeaveQueue
  <2>3. listening' \in BOOLEAN /\ app' \in BOOLEAN /\ slept' \in BOOLEAN
    BY <1>15 DEF ServiceKilled, ProcessExits, ProcessGone
  <2>4. crashes' \in Nat
    BY <1>15 DEF ServiceKilled, ProcessExits
  <2> QED
    BY <1>15, <2>1, <2>2, <2>3, <2>4 DEF ServiceKilled, ProcessExits, ProcessGone
<1>16. CASE IpcServerFails
  BY <1>16, <1>1 DEF IpcServerFails
<1>17. CASE Heartbeat
  BY <1>17, <1>1 DEF Heartbeat
<1>18. CASE Tick
  BY <1>18, <1>1, AdvanceType DEF Tick, Advance
<1>19. CASE Suspend
  <2>1. PICK d \in Nat: Advance(d) /\ slept' = (slept \/ d > SleepGap)
    BY <1>19, RunnerAssumption DEF Suspend, RunnerAssumption
  <2>2. slept' \in BOOLEAN
    BY <2>1, Zenon
  <2> QED
    BY <1>19, <1>1, <2>1, <2>2, AdvanceType DEF Suspend, Advance
<1>20. CASE AppStarts \/ AppExits
  BY <1>20, <1>1 DEF AppStarts, AppExits
<1>21. CASE CoreEnds
  <2>1. ManagerTypeOK'
    BY <1>21, ManagerType DEF CoreEnds
  <2> QED
    BY <1>21, <2>1 DEF CoreEnds
<1>22. ASSUME NEW i \in Conns, NEW cmd \in Cmds, Arrive(i, cmd)
       PROVE  RunnerTypeOK'
  BY <1>22, <1>1 DEF Arrive
<1>23. ASSUME NEW i \in Conns, HandleCommand(i)
       PROVE  RunnerTypeOK'
  BY <1>23, <1>1 DEF HandleCommand, Queue
<1>24. CASE UNCHANGED vars
  BY <1>24, <1>1
<1> QED
  BY <1>2, <1>3, <1>4, <1>5, <1>6, <1>7, <1>8, <1>9, <1>10, <1>11, <1>12, <1>13, <1>14,
     <1>15, <1>16, <1>17, <1>18, <1>19, <1>20, <1>21, <1>22, <1>23, <1>24
  DEF Next, TaskStep, LifeStep, EnvStep

\* The initial state is well typed.
LEMMA TypeInit == RunnerInit => RunnerTypeOK
<1>1. ASSUME RunnerInit
      PROVE  RunnerTypeOK
  <2>1. ManagerTypeOK
    BY <1>1 DEF RunnerInit, ManagerInit, ManagerTypeOK, Pids, Ops
  <2>2. conn \in [Conns -> Connection]
    BY <1>1 DEF RunnerInit, NewConn, Connection, ConnStates, Answers, AllCmds
  <2>3. ahead \in [Tasks -> SUBSET Tasks] /\ waiting \subseteq Tasks
    BY <1>1 DEF RunnerInit
  <2>4. listening \in BOOLEAN /\ app \in BOOLEAN /\ slept \in BOOLEAN
    BY <1>1 DEF RunnerInit
  <2> QED
    BY <1>1, <2>1, <2>2, <2>3, <2>4, TimerZero DEF RunnerInit, RunnerTypeOK
<1> QED
  BY <1>1

\* Every reachable state of the service is well typed.
THEOREM TypeCorrect == Spec => []RunnerTypeOK
BY TypeInit, TypeStep, PTL DEF Spec

-----------------------------------------------------------------------------
(***************************************************************************)
(* The inductive invariant.                                                *)
(***************************************************************************)
Starting(i) == writer = i /\ conn[i].cmd = "StartClash"

\* Who holds the lock, who queues for it, and what their tasks are doing.
LockDiscipline ==
    /\ writer # NoTask => readers = {}
    /\ op = "none" <=> writer = NoTask
    /\ \A i \in Conns: conn[i].st = "queued" <=> i \in waiting
    /\ \A i \in Conns: writer = i => conn[i].st = "held"
    /\ \A i \in readers: conn[i].st \in {"held", "pid", "uptime"}
    /\ \A i \in Conns: conn[i].st \in {"pid", "uptime"} => i \in readers
    /\ writer = Monitor => mon = "held"

\* When the service is ending or gone nothing is left that could take the lock.
NobodyLeft ==
    /\ phase \in {"exiting", "dropping", "down"} => ~listening
    /\ phase \in {"dropping", "down"} =>
        /\ waiting = {}
        /\ mon = "off"
        /\ \A i \in Conns: ~Unanswered(i)
        /\ writer = IF phase = "dropping" THEN Shutdown ELSE NoTask

\* Where a call that started is, and what it has achieved so far.
CallProgress ==
    /\ op \in {"start", "cleanup", "spawn"} => \E i \in Conns: Starting(i)
    /\ op = "stop" => \A i \in Conns: ~Starting(i)
    /\ op \in {"cleanup", "spawn"} => child = 0
    /\ op \in {"ok", "err"} => child = 0 \/ \E i \in Conns: Starting(i)
    /\ op = "spawn" /\ ~OsMayFail => alive = {}
    /\ phase = "down" => child = 0

\* What a status query has read still fits the manager.
StatusTrack ==
    /\ child # 0 => startTime = child
    /\ \A i \in Conns:
         /\ conn[i].st \notin {"uptime", "done", "dropped"} => conn[i].pid = 0
         /\ conn[i].st # "done" => conn[i].uptime = 0
         /\ conn[i].st = "uptime" => conn[i].pid = 0 \/ startTime \in {0, conn[i].pid}

\* A monitor that sleeps through a long suspend will notice it.
SuspendSeen ==
    mon = "sleep" /\ slept => sinceCheck > SleepGap

\* A core that was there when the shutdown's stop returned is gone for good, and
\* only a Windows process leaves cores behind.
HistoryTrack ==
    /\ ~OsMayFail => alive \cap settled = {}
    /\ ~Windows => orphans = {}

IInv ==
    /\ RunnerTypeOK
    /\ LockDiscipline
    /\ NobodyLeft
    /\ CallProgress
    /\ StatusTrack
    /\ SuspendSeen
    /\ HistoryTrack
    /\ OneCore
    /\ StartReplacesAll
    /\ StatusConsistent

\* The lock's rules are kept by every step.
LEMMA LockStep ==
    ASSUME RunnerTypeOK, LockDiscipline, NobodyLeft, [Next]_vars
    PROVE  LockDiscipline'
<1> USE DEF LockDiscipline
<1>t. /\ conn \in [Conns -> Connection]
      /\ waiting \subseteq Conns \cup {Monitor, Shutdown}
      /\ writer \in Conns \cup {Monitor, Shutdown, NoTask}
      /\ readers \subseteq Conns
      /\ Monitor \notin Conns /\ Shutdown \notin Conns /\ NoTask \notin Conns
      /\ Monitor # Shutdown /\ Monitor # NoTask /\ Shutdown # NoTask
  BY RunnerAssumption DEF RunnerAssumption, RunnerTypeOK, Tasks
<1>1. ASSUME NEW t \in Tasks, AcquireWrite(t)
      PROVE  LockDiscipline'
  BY <1>t, <1>1 DEF AcquireWrite, ConnHeld, First, LeaveQueue, LockFree, FirstStep, Tasks, Connection
<1>2. ASSUME NEW i \in Conns, AcquireRead(i)
      PROVE  LockDiscipline'
  BY <1>t, <1>2 DEF AcquireRead, ConnHeld, First, LeaveQueue, managerVars, Connection
<1>3. ASSUME NEW i \in Conns, AnswerCall(i)
      PROVE  LockDiscipline'
  BY <1>t, <1>3 DEF AnswerCall, Unlock, queueVars, Connection
<1>4. ASSUME NEW i \in Conns, StatusStep(i)
      PROVE  LockDiscipline'
  BY <1>t, <1>4 DEF StatusStep, StatusNotRunning, StatusRunning, StatusPid, StatusUptime,
                    managerVars, lockVars, queueVars, Connection
<1>5. CASE CallStep
  <2>1. op' \in {"cleanup", "spawn", "ok", "err"}
    BY <1>5 DEF CallStep, ManagerStep, StartStopsOld, StopChild, NothingToStop, ChildKilled,
                ChildOutlivesKill, KillRefused, StartCleansOrphans, StartFails, StartSpawns, StopRuns
  <2> QED
    BY <1>5, <2>1 DEF CallStep, lockVars, queueVars
<1>6. CASE MonitorCheck
  BY <1>t, <1>6 DEF MonitorCheck, MonitorSeesSuspend, MonitorContent, MonitorAlarmed, MonitorDue, Queue,
               managerVars, lockVars, queueVars
<1>7. CASE MonitorStopped
  BY <1>t, <1>7 DEF MonitorStopped, Unlock, queueVars
<1>8. CASE Boot
  BY <1>8 DEF Boot, NobodyLeft, managerVars, lockVars, queueVars
<1>9. CASE StopRequested
  BY <1>t, <1>9 DEF StopRequested, Queue, managerVars
<1>10. CASE ShutdownStopped
  BY <1>t, <1>10 DEF ShutdownStopped, LeaveMain, LeaveQueue
<1>11. CASE ShutdownTimesOut
  BY <1>t, <1>11 DEF ShutdownTimesOut, LeaveMain, LeaveQueue, managerVars
<1>12. CASE DropRuntime
  BY <1>t, <1>12 DEF DropRuntime, LeaveQueue, Unanswered, LockFree, Connection, Tasks
<1>13. CASE ManagerDropped
  BY <1>t, <1>13 DEF ManagerDropped, Unlock, queueVars
<1>14. CASE ServiceKilled \/ ProcessExits
  BY <1>t, <1>14 DEF ServiceKilled, ProcessExits, ProcessGone, LeaveQueue, Unanswered, Connection, Tasks
<1>15. CASE IpcServerFails \/ EnvStep \/ AppExits \/ UNCHANGED vars
  BY <1>15 DEF IpcServerFails, EnvStep, Heartbeat, Tick, Suspend, Advance, AppStarts, AppExits,
               CoreEnds, CoreExits, vars, managerVars, lockVars, queueVars
<1>16. ASSUME NEW i \in Conns, NEW cmd \in Cmds, Arrive(i, cmd)
       PROVE  LockDiscipline'
  BY <1>t, <1>16 DEF Arrive, managerVars, lockVars, queueVars, Connection
<1>17. ASSUME NEW i \in Conns, HandleCommand(i)
       PROVE  LockDiscipline'
  BY <1>t, <1>17 DEF HandleCommand, Queue, managerVars, Connection
<1> QED
  BY <1>1, <1>2, <1>3, <1>4, <1>5, <1>6, <1>7, <1>8, <1>9, <1>10, <1>11, <1>12, <1>13, <1>14,
     <1>15, <1>16, <1>17 DEF Next, TaskStep, LifeStep

\* Nothing takes the lock while the service is ending or gone.
LEMMA LeftStep ==
    ASSUME RunnerTypeOK, LockDiscipline, NobodyLeft, [Next]_vars
    PROVE  NobodyLeft'
<1> USE DEF NobodyLeft
<1>t. /\ conn \in [Conns -> Connection]
      /\ waiting \subseteq Conns \cup {Monitor, Shutdown}
      /\ readers \subseteq Conns
      /\ Monitor \notin Conns /\ Shutdown \notin Conns /\ NoTask \notin Conns
      /\ Monitor # Shutdown /\ Monitor # NoTask /\ Shutdown # NoTask
  BY RunnerAssumption DEF RunnerAssumption, RunnerTypeOK, Tasks
<1>1. ASSUME NEW t \in Tasks, AcquireWrite(t)
      PROVE  NobodyLeft'
  BY <1>1 DEF AcquireWrite, First, serverVars
<1>2. ASSUME NEW i \in Conns, AcquireRead(i)
      PROVE  NobodyLeft'
  BY <1>2 DEF AcquireRead, First, serverVars
<1>3. ASSUME NEW i \in Conns, AnswerCall(i)
      PROVE  NobodyLeft'
  BY <1>t, <1>3 DEF AnswerCall, serverVars
<1>4. ASSUME NEW i \in Conns, StatusStep(i)
      PROVE  NobodyLeft'
  BY <1>t, <1>4 DEF StatusStep, StatusNotRunning, StatusRunning, StatusPid, StatusUptime,
                    Unanswered, serverVars
<1>5. CASE CallStep \/ IpcServerFails \/ EnvStep \/ AppExits \/ UNCHANGED vars
  BY <1>5 DEF CallStep, IpcServerFails, EnvStep, Heartbeat, Tick, Suspend, Advance, AppStarts, AppExits,
              CoreEnds, CoreExits, Unanswered, vars, serverVars, lockVars, queueVars
<1>6. CASE MonitorCheck
  BY <1>6 DEF MonitorCheck, MonitorSeesSuspend, MonitorContent, MonitorAlarmed, MonitorDue,
              Unanswered, serverVars, lockVars, queueVars
<1>7. CASE MonitorStopped
  BY <1>t, <1>7 DEF MonitorStopped, serverVars
<1>8. CASE Boot \/ StopRequested
  BY <1>8 DEF Boot, StopRequested
<1>9. CASE ShutdownStopped \/ ShutdownTimesOut
  BY <1>9 DEF ShutdownStopped, ShutdownTimesOut, LeaveMain
<1>10. CASE DropRuntime
  BY <1>t, <1>10 DEF DropRuntime, LeaveQueue, Unanswered, Connection, Tasks
<1>11. CASE ManagerDropped
  BY <1>11 DEF ManagerDropped, Unlock, Unanswered, queueVars
<1>12. CASE ServiceKilled \/ ProcessExits
  BY <1>t, <1>12 DEF ServiceKilled, ProcessExits, ProcessGone, LeaveQueue, Unanswered, Connection, Tasks
<1>13. ASSUME NEW i \in Conns, NEW cmd \in Cmds, Arrive(i, cmd)
       PROVE  NobodyLeft'
  BY <1>13 DEF Arrive, serverVars
<1>14. ASSUME NEW i \in Conns, HandleCommand(i)
       PROVE  NobodyLeft'
  BY <1>14 DEF HandleCommand, Unanswered, serverVars
<1> QED
  BY <1>1, <1>2, <1>3, <1>4, <1>5, <1>6, <1>7, <1>8, <1>9, <1>10, <1>11, <1>12, <1>13, <1>14
  DEF Next, TaskStep, LifeStep

\* What a start or stop call does to the manager, by the step it is at.
LEMMA CallOutcome ==
    ASSUME ManagerTypeOK, CallProgress, ManagerStep
    PROVE  /\ op = "start" => op' \in {"cleanup", "err"} /\ child' = 0
           /\ op = "cleanup" => op' = "spawn" /\ child' = 0 /\ (~OsMayFail => alive' = {})
           /\ op = "spawn" => \/ op' = "err" /\ child' = 0
                              \/ op' = "ok" /\ (~OsMayFail => alive' = {child'})
           /\ op = "stop" => op' \in {"ok", "err"} /\ child' = 0
           /\ op \in {"start", "cleanup", "spawn", "stop"}
<1> USE DEF CallProgress
<1>1. CASE StartStopsOld
  BY <1>1 DEF StartStopsOld, StopChild, NothingToStop, ChildKilled, ChildOutlivesKill,
              KillRefused, ForgetChild
<1>2. CASE StartCleansOrphans
  BY <1>2 DEF StartCleansOrphans
<1>3. CASE StartFails
  BY <1>3 DEF StartFails
<1>4. CASE StartSpawns
  BY <1>4 DEF StartSpawns
<1>5. CASE StopRuns
  BY <1>5 DEF StopRuns, StopChild, NothingToStop, ChildKilled, ChildOutlivesKill, KillRefused
<1> QED
  BY <1>1, <1>2, <1>3, <1>4, <1>5 DEF ManagerStep

\* The progress of a call is kept by every step.
LEMMA ProgressStep ==
    ASSUME RunnerTypeOK, LockDiscipline, NobodyLeft, CallProgress, [Next]_vars
    PROVE  CallProgress'
<1> USE DEF CallProgress, Starting
<1>t. /\ conn \in [Conns -> Connection]
      /\ writer \in Conns \cup {Monitor, Shutdown, NoTask}
      /\ readers \subseteq Conns
      /\ Monitor \notin Conns /\ Shutdown \notin Conns /\ NoTask \notin Conns
      /\ Monitor # Shutdown /\ Monitor # NoTask /\ Shutdown # NoTask
      /\ ManagerTypeOK
      /\ op \in Ops
  BY RunnerAssumption DEF RunnerAssumption, RunnerTypeOK, ManagerTypeOK, Tasks
<1>1. ASSUME NEW t \in Tasks, AcquireWrite(t)
      PROVE  CallProgress'
  BY <1>t, <1>1 DEF AcquireWrite, ConnHeld, First, LockFree, FirstStep, Tasks, Connection,
                    NobodyLeft, serverVars
<1>2. ASSUME NEW i \in Conns, AcquireRead(i)
      PROVE  CallProgress'
  BY <1>t, <1>2 DEF AcquireRead, LockDiscipline, managerVars, serverVars
<1>3. ASSUME NEW i \in Conns, AnswerCall(i)
      PROVE  CallProgress'
  BY <1>t, <1>3 DEF AnswerCall, Unlock, serverVars
<1>4. ASSUME NEW i \in Conns, StatusStep(i)
      PROVE  CallProgress'
  <2>1. op = "none" /\ writer = NoTask
    BY <1>4 DEF StatusStep, StatusNotRunning, StatusRunning, StatusPid, StatusUptime, LockDiscipline
  <2> QED
    BY <1>t, <1>4, <2>1 DEF StatusStep, StatusNotRunning, StatusRunning, StatusPid, StatusUptime,
                            ForgetChild, managerVars, serverVars, lockVars
<1>5. CASE CallStep
  <2>1. writer' = writer /\ conn' = conn /\ phase' = phase /\ ManagerStep
    BY <1>5 DEF CallStep, lockVars, serverVars
  <2>2. phase # "down"
    BY <1>5 DEF CallStep, NobodyLeft
  <2> QED
    BY <1>t, <2>1, <2>2, CallOutcome
<1>6. CASE MonitorCheck
  BY <1>6 DEF MonitorCheck, MonitorSeesSuspend, MonitorContent, MonitorAlarmed,
              managerVars, serverVars, lockVars
<1>7. CASE MonitorStopped
  BY <1>t, <1>7 DEF MonitorStopped, Unlock, serverVars
<1>8. CASE Boot \/ StopRequested \/ IpcServerFails
  BY <1>8 DEF Boot, StopRequested, IpcServerFails, managerVars, lockVars
<1>9. CASE ShutdownStopped
  BY <1>t, <1>9 DEF ShutdownStopped, LeaveMain
<1>10. CASE ShutdownTimesOut
  BY <1>t, <1>10 DEF ShutdownTimesOut, LeaveMain, managerVars
<1>11. CASE DropRuntime
  BY <1>t, <1>11 DEF DropRuntime
<1>12. CASE ManagerDropped
  BY <1>t, <1>12 DEF ManagerDropped, Unlock, Returned
<1>13. CASE ServiceKilled \/ ProcessExits
  BY <1>t, <1>13 DEF ServiceKilled, ProcessExits, ProcessGone
<1>14. CASE EnvStep \/ AppExits \/ UNCHANGED vars
  BY <1>14 DEF EnvStep, Heartbeat, Tick, Suspend, Advance, AppStarts, AppExits, CoreEnds, CoreExits,
               vars, managerVars, serverVars, lockVars
<1>15. ASSUME NEW i \in Conns, NEW cmd \in Cmds, Arrive(i, cmd)
       PROVE  CallProgress'
  <2>1. writer # i
    BY <1>15 DEF Arrive, LockDiscipline
  <2> QED
    BY <1>t, <1>15, <2>1 DEF Arrive, managerVars, serverVars, lockVars
<1>16. ASSUME NEW i \in Conns, HandleCommand(i)
       PROVE  CallProgress'
  BY <1>t, <1>16 DEF HandleCommand, managerVars, serverVars, Connection
<1> QED
  BY <1>1, <1>2, <1>3, <1>4, <1>5, <1>6, <1>7, <1>8, <1>9, <1>10, <1>11, <1>12, <1>13, <1>14,
     <1>15, <1>16 DEF Next, TaskStep, LifeStep

\* There is one core at most beside the orphans, and the handle is on it.
LEMMA OneCoreStep ==
    ASSUME RunnerTypeOK, CallProgress, OneCore, [Next]_vars
    PROVE  OneCore'
<1> SUFFICES ASSUME ~OsMayFail
             PROVE  alive' \subseteq {child'} \cup orphans'
  BY DEF OneCore
<1>t. /\ spawned \in Nat
      /\ alive \subseteq 1..spawned
      /\ alive \subseteq {child} \cup orphans
  BY DEF RunnerTypeOK, ManagerTypeOK, Pids, OneCore
<1>1. child = 0 => alive \subseteq orphans
  BY <1>t
<1>2. CASE CallStep
  <2>1. orphans' = orphans
    BY <1>2 DEF CallStep, envVars, historyVars
  <2>2. CASE StartStopsOld \/ StopRuns
    BY <1>t, <1>1, <2>1, <2>2 DEF StartStopsOld, StopRuns, StopChild, NothingToStop, ChildKilled,
       ChildOutlivesKill, KillRefused, ForgetChild
  <2>3. CASE StartCleansOrphans \/ StartFails
    BY <1>t, <2>1, <2>3 DEF StartCleansOrphans, StartFails
  <2>4. CASE StartSpawns
    BY <1>1, <2>1, <2>4 DEF StartSpawns, CallProgress
  <2> QED
    BY <1>2, <2>2, <2>3, <2>4 DEF CallStep, ManagerStep
<1>3. CASE CoreEnds
  BY <1>t, <1>3 DEF CoreEnds, CoreExits, envVars, historyVars
<1>4. CASE \E i \in Conns: StatusNotRunning(i)
  BY <1>t, <1>1, <1>4 DEF StatusNotRunning, ForgetChild, envVars, historyVars
<1>5. CASE ServiceKilled \/ ProcessExits
  BY <1>5 DEF ServiceKilled, ProcessExits, ProcessGone
<1>6. CASE UNCHANGED <<alive, spawned, child, startTime>>
  <2>1. CASE ShutdownStopped
    BY <1>t, <1>6, <2>1 DEF ShutdownStopped
  <2> QED
    BY <1>t, <1>5, <1>6, <2>1, HistoryFrame DEF historyVars
<1> QED
  BY <1>2, <1>3, <1>4, <1>5, <1>6, ManagerFrame

\* What a shutdown has stopped does not come back.
LEMMA HistoryStep ==
    ASSUME RunnerTypeOK, LockDiscipline, CallProgress, OneCore, HistoryTrack, [Next]_vars
    PROVE  HistoryTrack'
<1>t. /\ spawned \in Nat
      /\ alive \subseteq 1..spawned /\ settled \subseteq 1..spawned /\ orphans \subseteq 1..spawned
      /\ Shutdown \notin Conns
  BY RunnerAssumption DEF RunnerAssumption, RunnerTypeOK, ManagerTypeOK, Pids
<1>1. ~Windows => orphans' = {}
  BY HistoryFrame DEF HistoryTrack, historyVars, ShutdownStopped, ServiceKilled, ProcessExits, ProcessGone
<1>2. ASSUME ~OsMayFail
      PROVE  alive' \cap settled' = {}
  <2>1. alive \cap settled = {}
    BY <1>2 DEF HistoryTrack
  <2>2. CASE ShutdownStopped
    <3>1. alive' = alive /\ (settled' = settled \/ (op = "ok" /\ settled' = (1..spawned) \ orphans))
      BY <2>2 DEF ShutdownStopped, Pids
    <3>2. op = "ok" => child = 0
      BY <1>t, <2>2 DEF ShutdownStopped, CallProgress, Starting
    <3>3. child = 0 => alive \subseteq orphans
      BY <1>t, <1>2 DEF OneCore
    <3> QED
      BY <2>1, <3>1, <3>2, <3>3
  <2>3. CASE ServiceKilled \/ ProcessExits
    <3>1. settled' = settled /\ alive' \in {alive, {}}
      BY <2>3 DEF ServiceKilled, ProcessExits, ProcessGone
    <3> QED
      BY <2>1, <3>1
  <2>4. CASE UNCHANGED historyVars
    <3>1. settled' = settled
      BY <2>4 DEF historyVars
    <3>2. alive' \subseteq alive \cup {spawned + 1}
      <4>1. CASE CallStep
        BY <4>1 DEF CallStep, ManagerStep, StartStopsOld, StopChild, NothingToStop, ChildKilled,
           ChildOutlivesKill, KillRefused, ForgetChild, StartCleansOrphans, StartFails, StartSpawns, StopRuns
      <4> QED
        BY <4>1, ManagerFrame DEF CoreEnds, CoreExits, ServiceKilled, ProcessExits, ProcessGone,
           StatusNotRunning, ForgetChild
    <3> QED
      BY <1>t, <2>1, <3>1, <3>2
  <2> QED
    BY <2>2, <2>3, <2>4, HistoryFrame
<1> QED
  BY <1>1, <1>2 DEF HistoryTrack

\* A start that succeeds has removed every other core.
LEMMA ReplaceStep ==
    ASSUME RunnerTypeOK, LockDiscipline, CallProgress, StartReplacesAll, [Next]_vars
    PROVE  StartReplacesAll'
<1> SUFFICES ASSUME NEW i \in Conns, writer' = i, conn'[i].cmd = "StartClash", op' = "ok", ~OsMayFail
             PROVE  alive' \subseteq {child'}
  BY DEF StartReplacesAll
<1>t. /\ conn \in [Conns -> Connection]
      /\ NoTask \notin Conns /\ Monitor \notin Conns /\ Shutdown \notin Conns
      /\ ManagerTypeOK
  BY RunnerAssumption DEF RunnerAssumption, RunnerTypeOK
<1>1. CASE CallStep
  <2>1. ManagerStep /\ writer = i /\ conn[i].cmd = "StartClash"
    BY <1>1 DEF CallStep, lockVars
  <2>2. op = "spawn" /\ alive' = {child'}
    BY <1>t, <2>1, CallOutcome DEF CallProgress, Starting
  <2> QED
    BY <2>2
<1>2. CASE ~CallStep
  <2>1. op = "ok" /\ writer = i /\ conn[i].cmd = "StartClash"
    BY <1>2, <1>t DEF Next, TaskStep, LifeStep, EnvStep, AcquireWrite, FirstStep, AcquireRead, ConnHeld,
       AnswerCall, Unlock, StatusStep, StatusNotRunning, StatusRunning, StatusPid, StatusUptime,
       MonitorCheck, MonitorSeesSuspend, MonitorContent, MonitorAlarmed, MonitorStopped,
       Boot, StopRequested, ShutdownStopped, ShutdownTimesOut, DropRuntime, ManagerDropped,
       ServiceKilled, ProcessExits, ProcessGone, IpcServerFails, Heartbeat, Tick, Suspend, Advance, AppStarts, AppExits, CoreEnds,
       CoreExits, Arrive, HandleCommand, LockDiscipline, Connection, vars, managerVars, lockVars
  <2>2. alive \subseteq {child}
    BY <2>1 DEF StartReplacesAll
  <2>3. readers = {}
    BY <1>t, <2>1 DEF LockDiscipline
  <2> QED
    BY <1>2, <2>1, <2>2, <2>3, ManagerFrame DEF CoreEnds, CoreExits, ServiceKilled, ProcessExits,
       ProcessGone, StatusNotRunning
<1> QED
  BY <1>1, <1>2

\* The start time stays that of the core behind the handle.
LEMMA StartTimeStep ==
    ASSUME ManagerTypeOK, child # 0 => startTime = child, [Next]_vars
    PROVE  child' # 0 => startTime' = child'
<1>1. CASE CallStep
  BY <1>1 DEF CallStep, ManagerStep, StartStopsOld, StopChild, NothingToStop, ChildKilled,
     ChildOutlivesKill, KillRefused, ForgetChild, StartCleansOrphans, StartFails, StartSpawns, StopRuns
<1> QED
  BY <1>1, ManagerFrame DEF CoreEnds, CoreExits, ServiceKilled, ProcessExits, ProcessGone,
     StatusNotRunning, ForgetChild

\* What the status queries have read still fits the manager after any step.
LEMMA StatusTrackStep ==
    ASSUME RunnerTypeOK, LockDiscipline, StatusTrack, StatusConsistent, [Next]_vars
    PROVE  StatusTrack' /\ StatusConsistent'
<1> USE DEF StatusTrack, StatusConsistent
<1>t. /\ conn \in [Conns -> Connection]
      /\ NoTask \notin Conns
      /\ ManagerTypeOK
      /\ child \in Nat /\ startTime \in Nat
  BY RunnerAssumption DEF RunnerAssumption, RunnerTypeOK, ManagerTypeOK, Pids
<1>0. child' # 0 => startTime' = child'
  BY <1>t, StartTimeStep
<1>1. ASSUME NEW i \in Conns, conn[i].st = "uptime"
      PROVE  writer = NoTask
  BY <1>1, <1>t DEF LockDiscipline
<1>2. ASSUME NEW t \in Tasks, AcquireWrite(t)
      PROVE  StatusTrack' /\ StatusConsistent'
  BY <1>t, <1>0, <1>2 DEF AcquireWrite, ConnHeld, First, LockDiscipline, Connection
<1>3. ASSUME NEW i \in Conns, AcquireRead(i)
      PROVE  StatusTrack' /\ StatusConsistent'
  BY <1>t, <1>0, <1>3 DEF AcquireRead, ConnHeld, First, LockDiscipline, managerVars, Connection
<1>4. ASSUME NEW i \in Conns, AnswerCall(i)
      PROVE  StatusTrack' /\ StatusConsistent'
  BY <1>t, <1>0, <1>4 DEF AnswerCall, Unlock, LockDiscipline, Connection
<1>5. ASSUME NEW i \in Conns, StatusNotRunning(i)
      PROVE  StatusTrack' /\ StatusConsistent'
  BY <1>t, <1>0, <1>5 DEF StatusNotRunning, ForgetChild, Connection
<1>6. ASSUME NEW i \in Conns, StatusRunning(i)
      PROVE  StatusTrack' /\ StatusConsistent'
  BY <1>t, <1>0, <1>6 DEF StatusRunning, managerVars, Connection
<1>7. ASSUME NEW i \in Conns, StatusPid(i)
      PROVE  StatusTrack' /\ StatusConsistent'
  BY <1>t, <1>0, <1>7 DEF StatusPid, managerVars, Connection
<1>8. ASSUME NEW i \in Conns, StatusUptime(i)
      PROVE  StatusTrack' /\ StatusConsistent'
  BY <1>t, <1>0, <1>8 DEF StatusUptime, managerVars, Connection
<1>9. CASE CallStep
  <2>1. conn' = conn /\ writer # NoTask
    BY <1>9 DEF CallStep
  <2> QED
    BY <1>0, <1>1, <2>1
<1>10. CASE MonitorCheck \/ MonitorStopped
  BY <1>0, <1>10 DEF MonitorCheck, MonitorSeesSuspend, MonitorContent, MonitorAlarmed,
                     MonitorStopped, Unlock, managerVars
<1>11. CASE Boot \/ StopRequested \/ ShutdownStopped \/ ShutdownTimesOut \/ ManagerDropped
            \/ IpcServerFails
  BY <1>0, <1>11 DEF Boot, StopRequested, ShutdownStopped, ShutdownTimesOut, LeaveMain,
                     ManagerDropped, Unlock, IpcServerFails, managerVars
<1>12. CASE DropRuntime
  BY <1>t, <1>0, <1>12 DEF DropRuntime, Unanswered, Connection
<1>13. CASE ServiceKilled \/ ProcessExits
  BY <1>t, <1>0, <1>13 DEF ServiceKilled, ProcessExits, ProcessGone, Unanswered, Connection
<1>14. CASE EnvStep \/ AppExits \/ UNCHANGED vars
  BY <1>0, <1>14 DEF EnvStep, Heartbeat, Tick, Suspend, Advance, AppStarts, AppExits, CoreEnds,
                     CoreExits, vars, managerVars
<1>15. ASSUME NEW i \in Conns, NEW cmd \in Cmds, Arrive(i, cmd)
       PROVE  StatusTrack' /\ StatusConsistent'
  BY <1>t, <1>0, <1>15 DEF Arrive, managerVars, Connection
<1>16. ASSUME NEW i \in Conns, HandleCommand(i)
       PROVE  StatusTrack' /\ StatusConsistent'
  BY <1>t, <1>0, <1>16 DEF HandleCommand, managerVars, Connection
<1> QED
  BY <1>2, <1>3, <1>4, <1>5, <1>6, <1>7, <1>8, <1>9, <1>10, <1>11, <1>12, <1>13, <1>14, <1>15, <1>16
  DEF Next, TaskStep, LifeStep, StatusStep

\* A long suspend that a sleeping monitor has not noticed yet shows in its next gap.
LEMMA SuspendStep ==
    ASSUME RunnerTypeOK, SuspendSeen, [Next]_vars
    PROVE  SuspendSeen'
<1> USE DEF SuspendSeen
<1>t. SleepGap \in Nat /\ SuspendLengths \subseteq Nat /\ sinceCheck \in Nat
  BY RunnerAssumption DEF RunnerAssumption, RunnerTypeOK, GapCap
<1>1. ASSUME NEW d \in Nat, Advance(d), sinceCheck > SleepGap \/ d > SleepGap
      PROVE  sinceCheck' > SleepGap
  BY <1>t, <1>1 DEF Advance, Capped, GapCap
<1>2. CASE Tick
  <2>1. mon' = mon /\ slept' = slept /\ Advance(1)
    BY <1>2 DEF Tick, Advance
  <2> QED
    BY <1>1, <2>1
<1>3. CASE Suspend
  <2>1. PICK d \in Nat: Advance(d) /\ slept' = (slept \/ d > SleepGap)
    BY <1>3, <1>t DEF Suspend
  <2>2. mon' = mon /\ (slept' => slept \/ d > SleepGap)
    BY <2>1 DEF Advance
  <2> QED
    BY <1>1, <2>1, <2>2
<1>4. CASE MonitorCheck
  <2>1. CASE MonitorContent
    <3>1. mon = "sleep" /\ ~(sinceCheck > SleepGap) /\ slept' = slept
      BY <1>t, <2>1 DEF MonitorContent, MonitorDue
    <3>2. ~slept
      BY <3>1
    <3> QED
      BY <3>1, <3>2
  <2> QED
    BY <1>4, <2>1 DEF MonitorCheck, MonitorSeesSuspend, MonitorAlarmed
<1>5. CASE MonitorStopped \/ Boot \/ Heartbeat
  BY <1>5 DEF MonitorStopped, Boot, Heartbeat
<1>6. CASE UNCHANGED <<slept, sinceCheck>> /\ mon' # "sleep"
  BY <1>6
<1>7. CASE UNCHANGED <<slept, sinceCheck, mon>>
  BY <1>7
<1>8. CASE TaskStep
  BY <1>4, <1>5, <1>6, <1>7, <1>8 DEF TaskStep, AcquireWrite, AcquireRead, AnswerCall, CallStep, StatusStep,
     StatusNotRunning, StatusRunning, StatusPid, StatusUptime, clockVars
<1>9. CASE LifeStep
  BY <1>5, <1>6, <1>7, <1>9 DEF LifeStep, StopRequested, ShutdownStopped, ShutdownTimesOut, LeaveMain,
     DropRuntime, ManagerDropped, ServiceKilled, ProcessExits, ProcessGone, IpcServerFails, clockVars
<1>10. CASE EnvStep
  BY <1>2, <1>3, <1>5, <1>7, <1>10 DEF EnvStep, AppStarts, CoreEnds, clockVars
<1> QED
  BY <1>7, <1>8, <1>9, <1>10 DEF Next, Arrive, HandleCommand, AppExits, clockVars, vars

-----------------------------------------------------------------------------
(***************************************************************************)
(* The theorems.                                                           *)
(***************************************************************************)

\* The inductive invariant holds at the start.
LEMMA InvInit == RunnerInit => IInv
<1> SUFFICES ASSUME RunnerInit
             PROVE  IInv
  OBVIOUS
<1>1. RunnerTypeOK
  BY TypeInit
<1>2. \A i \in Conns: conn[i] = NewConn
  BY DEF RunnerInit
<1>3. NoTask \notin Conns /\ Monitor \notin Conns /\ Shutdown \notin Conns
      /\ NoTask # Monitor
  BY RunnerAssumption DEF RunnerAssumption
<1>4. LockDiscipline /\ NobodyLeft
  BY <1>2, <1>3 DEF RunnerInit, ManagerInit, NewConn, LockDiscipline, NobodyLeft, Unanswered
<1>5. CallProgress /\ OneCore /\ StartReplacesAll /\ HistoryTrack
  BY <1>3 DEF RunnerInit, ManagerInit, CallProgress, OneCore, StartReplacesAll, HistoryTrack
<1>6. StatusTrack /\ StatusConsistent /\ SuspendSeen
  BY <1>2 DEF RunnerInit, ManagerInit, NewConn, StatusTrack, StatusConsistent, SuspendSeen
<1> QED
  BY <1>1, <1>4, <1>5, <1>6 DEF IInv

\* The inductive invariant is kept by every step.
LEMMA InvStep == IInv /\ [Next]_vars => IInv'
BY TypeStep, LockStep, LeftStep, ProgressStep, OneCoreStep, HistoryStep, ReplaceStep, StatusTrackStep,
   SuspendStep
DEF IInv

\* The service's lock, calls, queries and timers keep to the inductive invariant.
THEOREM Inductive == Spec => []IInv
BY InvInit, InvStep, PTL DEF Spec

\* Without a failed kill there is never a second core, but for what an ended service
\* process has left behind (manager.rs: stop the old instance, then spawn).
THEOREM OneCoreAlways == Spec => []OneCore
<1>1. IInv => OneCore
  BY DEF IInv
<1> QED
  BY <1>1, Inductive, PTL

\* A StartClash that succeeds leaves no core but its own.
THEOREM StartReplacesAlways == Spec => []StartReplacesAll
<1>1. IInv => StartReplacesAll
  BY DEF IInv
<1> QED
  BY <1>1, Inductive, PTL

\* A core that was there when the shutdown's stop returned does not outlive it, and
\* on Unix, where the end of the runtime drops the manager, no core outlives the
\* service.
THEOREM NoCoreLeftAlways == Spec => []NoCoreWithoutService
<1>1. ASSUME IInv
      PROVE  NoCoreWithoutService
  <2> SUFFICES ASSUME ~OsMayFail, phase = "down", ~Windows
               PROVE  alive = {}
    BY <1>1 DEF NoCoreWithoutService, IInv, HistoryTrack
  <2>1. child = 0 /\ orphans = {} /\ alive \subseteq {child} \cup orphans
    BY <1>1 DEF IInv, CallProgress, HistoryTrack, OneCore
  <2>2. spawned \in Nat /\ alive \subseteq 1..spawned
    BY <1>1 DEF IInv, RunnerTypeOK, ManagerTypeOK, Pids
  <2> QED
    BY <2>1, <2>2
<1> QED
  BY <1>1, Inductive, PTL

\* A status answer describes one core.
THEOREM StatusAlwaysConsistent == Spec => []StatusConsistent
<1>1. IInv => StatusConsistent
  BY DEF IInv
<1> QED
  BY <1>1, Inductive, PTL

\* No alarm is raised on a silence that a long suspend is part of.
THEOREM NeverAlarmedBySuspend == Spec => NoAlarmAfterSuspend
<1>1. ASSUME IInv, [Next]_vars, mon = "sleep", mon' = "queued"
      PROVE  ~slept
  <2>1. MonitorAlarmed
    BY <1>1 DEF Next, TaskStep, LifeStep, EnvStep, AcquireWrite, AcquireRead, AnswerCall, CallStep,
       StatusStep, StatusNotRunning, StatusRunning, StatusPid, StatusUptime, MonitorCheck,
       MonitorSeesSuspend, MonitorContent, MonitorStopped, Boot, StopRequested, ShutdownStopped,
       ShutdownTimesOut, LeaveMain, DropRuntime, ManagerDropped, ServiceKilled, ProcessExits,
       ProcessGone, IpcServerFails,
       Heartbeat, Tick, Suspend, Advance, AppStarts, AppExits, CoreEnds, Arrive, HandleCommand, vars
  <2>2. sinceCheck \in Nat /\ SleepGap \in Nat /\ sinceCheck <= SleepGap
    BY <1>1, <2>1, RunnerAssumption DEF IInv, RunnerTypeOK, GapCap, RunnerAssumption, MonitorAlarmed
  <2> QED
    BY <1>1, <2>2 DEF IInv, SuspendSeen
<1>2. IInv /\ [Next]_vars => [mon = "sleep" /\ mon' = "queued" => ~slept]_vars
  BY <1>1
<1> QED
  BY <1>2, Inductive, PTL DEF Spec, NoAlarmAfterSuspend

-----------------------------------------------------------------------------
(***************************************************************************)
(* The service implements CoreSlot.                                        *)
(***************************************************************************)

\* Every step of the service is a step of the slot or changes nothing of it.
LEMMA SlotStep ==
    ASSUME IInv, [Next]_vars
    PROVE  Slot!SlotNext \/ UNCHANGED Slot!slotVars
<1> USE DEF Slot!SlotNext, Slot!Launch, Slot!End, Slot!Lose, Slot!slotVars
<1>t. /\ spawned \in Nat /\ alive \subseteq 1..spawned /\ child \in 0..spawned
      /\ crashes \in Nat /\ MaxCrashes \in Nat
  BY RunnerAssumption DEF RunnerAssumption, IInv, RunnerTypeOK, ManagerTypeOK, Pids
<1>1. CASE UNCHANGED <<alive, spawned, child, startTime>>
  BY <1>1
<1>2. CASE CallStep
  <2>1. CASE StartStopsOld
    BY <1>t, <2>1 DEF StartStopsOld, StopChild, NothingToStop, ChildKilled, ChildOutlivesKill,
       KillRefused, ForgetChild
  <2>2. CASE StopRuns
    BY <1>t, <2>2 DEF StopRuns, StopChild, NothingToStop, ChildKilled, ChildOutlivesKill, KillRefused
  <2>3. CASE StartCleansOrphans \/ StartFails
    BY <1>t, <2>3 DEF StartCleansOrphans, StartFails, IInv, CallProgress
  <2>4. CASE StartSpawns
    BY <1>t, <2>4 DEF StartSpawns, IInv, CallProgress
  <2> QED
    BY <1>2, <2>1, <2>2, <2>3, <2>4 DEF CallStep, ManagerStep
<1>3. CASE CoreEnds
  BY <1>t, <1>3 DEF CoreEnds, CoreExits
<1>4. CASE ServiceKilled \/ ProcessExits
  <2>1. spawned' = spawned /\ child' = 0 /\ alive' \in {alive, {}} /\ (alive' = alive => Windows \/ alive = {})
    BY <1>4 DEF ServiceKilled, ProcessExits, ProcessGone
  <2> QED
    BY <1>t, <2>1
<1>5. CASE \E i \in Conns: StatusNotRunning(i)
  BY <1>t, <1>5 DEF StatusNotRunning, ForgetChild
<1> QED
  BY <1>1, <1>2, <1>3, <1>4, <1>5, ManagerFrame

\* Whatever commands, monitor, shutdown, kills and restarts of the service do, a
\* core is launched only into an empty slot.
THEOREM SlotImplemented == Spec => ImplementsCoreSlot
<1>1. RunnerInit => Slot!SlotInit
  BY DEF RunnerInit, ManagerInit, Slot!SlotInit
<1>2. IInv /\ [Next]_vars => [Slot!SlotNext]_Slot!slotVars
  BY SlotStep
<1> QED
  BY <1>1, <1>2, Inductive, PTL DEF Spec, ImplementsCoreSlot, Slot!SlotSpec
=============================================================================
