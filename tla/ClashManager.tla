---------------------------- MODULE ClashManager ----------------------------
(***************************************************************************)
(* The core process manager of the privileged service                      *)
(* (native/stelliberty_service/src/clash/manager.rs).                      *)
(*                                                                         *)
(* A ClashManager owns at most one handle on a clash-core process.  Core   *)
(* processes are numbered in the order they are spawned; 0 stands for      *)
(* None.  start and stop run under an exclusive lock held by the caller,   *)
(* so they are cut into the steps at which the operating system can        *)
(* interfere (a core that exits on its own, a kill that does not work):    *)
(* "op" is the step the running call has reached, "ok" and "err" being     *)
(* the value it is about to return.                                        *)
(***************************************************************************)
EXTENDS Naturals

CONSTANTS
    Windows,    \* TRUE in a Windows build, FALSE in a Unix one
    OsMayFail   \* TRUE if kill, wait, pgrep and tasklist calls may fail

ASSUME ManagerAssumption ==
    /\ Windows \in BOOLEAN
    /\ OsMayFail \in BOOLEAN

VARIABLES
    alive,      \* the clash-core processes that exist in the system
    spawned,    \* how many were ever spawned: the pid of the last one
    child,      \* the pid behind the handle, 0 for None
    startTime,  \* the pid whose start instant is recorded, 0 for None
    op          \* the step of the call in progress

managerVars == <<alive, spawned, child, startTime, op>>

Pids == 1..spawned

Ops == {"none", "start", "cleanup", "spawn", "stop", "ok", "err"}

ManagerTypeOK ==
    /\ spawned \in Nat
    /\ alive \subseteq Pids
    /\ child \in Pids \cup {0}
    /\ startTime \in Pids \cup {0}
    /\ op \in Ops

ManagerInit ==
    /\ alive = {}
    /\ spawned = 0
    /\ child = 0
    /\ startTime = 0
    /\ op = "none"

-----------------------------------------------------------------------------
(***************************************************************************)
(* stop: the handle is taken out before the kill, so from here on it is    *)
(* gone whatever happens.  "done" is the step that follows a call that     *)
(* returned Ok: start goes on with it, stop itself returns.                *)
(***************************************************************************)
NothingToStop(done) ==
    /\ child = 0
    /\ op' = done
    /\ UNCHANGED <<alive, child, startTime>>

\* A stop that drops the handle and leaves the process to itself.
MutantHandleDropped(done) ==
    /\ child # 0
    /\ child' = 0
    /\ startTime' = 0
    /\ op' = done
    /\ UNCHANGED alive

\* The kill worked (an already exited child counts: kill and wait return Ok).
ChildKilled(done) ==
    /\ child # 0
    /\ alive' = alive \ {child}
    /\ child' = 0
    /\ startTime' = 0
    /\ op' = done

\* The process outlives the kill: the 3 s wait timed out, the wait failed, or
\* on Windows the taskkill that follows failed too.  The call still returns Ok.
ChildOutlivesKill(done) ==
    /\ OsMayFail
    /\ child \in alive
    /\ child' = 0
    /\ startTime' = 0
    /\ op' = done
    /\ UNCHANGED alive

\* kill itself failed.  Only a Unix build returns Err here, and it does so
\* before start_time is cleared.
KillRefused ==
    /\ OsMayFail
    /\ ~Windows
    /\ child \in alive
    /\ child' = 0
    /\ op' = "err"
    /\ UNCHANGED <<alive, startTime>>

StopChild(done) ==
    /\ \/ NothingToStop(done)
       \/ ChildKilled(done)
       \/ ChildOutlivesKill(done)
       \/ KillRefused
    /\ UNCHANGED spawned

\* What is_running does when it answers false: a child that has exited, or
\* whose try_wait failed, is forgotten together with its start time.
ForgetChild ==
    /\ child \notin alive \/ OsMayFail
    /\ child' = 0
    /\ startTime' = IF child = 0 THEN startTime ELSE 0
    /\ UNCHANGED <<alive, spawned>>

-----------------------------------------------------------------------------
(***************************************************************************)
(* start: stop a running child, kill every leftover clash-core found by    *)
(* name, then check the files and spawn.                                   *)
(***************************************************************************)
\* A start that leaves the old instance to the sweep by name.
MutantStartSkipsOld ==
    /\ op = "start"
    /\ op' = "cleanup"
    /\ UNCHANGED <<alive, spawned, child, startTime>>

StartStopsOld ==
    /\ op = "start"
    /\ \/ child \in alive /\ StopChild("cleanup")
       \/ ForgetChild /\ op' = "cleanup"

\* A start that trusts its own handle and sweeps nothing.
MutantNoSweep ==
    /\ op = "cleanup"
    /\ op' = "spawn"
    /\ UNCHANGED <<alive, spawned, child, startTime>>

\* cleanup_orphan_processes: its failures are only logged.
StartCleansOrphans ==
    /\ op = "cleanup"
    /\ \E left \in SUBSET alive:
         /\ left # {} => OsMayFail
         /\ alive' = left
    /\ op' = "spawn"
    /\ UNCHANGED <<spawned, child, startTime>>

\* The start instant is recorded before the spawn is known to have worked.
MutantStartTimeFirst ==
    /\ op = "spawn"
    /\ op' = "err"
    /\ startTime' = spawned + 1
    /\ UNCHANGED <<alive, spawned, child>>

\* The core or configuration file is missing, or the spawn failed.
StartFails ==
    /\ op = "spawn"
    /\ op' = "err"
    /\ UNCHANGED <<alive, spawned, child, startTime>>

\* The wait for the API socket that follows changes nothing and never fails.
StartSpawns ==
    /\ op = "spawn"
    /\ spawned' = spawned + 1
    /\ alive' = alive \cup {spawned'}
    /\ child' = spawned'
    /\ startTime' = spawned'
    /\ op' = "ok"

StopRuns ==
    /\ op = "stop"
    /\ StopChild("ok")

\* The steps of the call in progress.
ManagerStep ==
    \/ StartStopsOld
    \/ StartCleansOrphans
    \/ StartFails
    \/ StartSpawns
    \/ StopRuns

\* A core ends on its own: crash, exit, or the user's own kill.
CoreExits ==
    \E p \in alive:
      /\ alive' = alive \ {p}
      /\ UNCHANGED <<spawned, child, startTime, op>>

=============================================================================
