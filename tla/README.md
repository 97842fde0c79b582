# A TLA+ model of Stelliberty

Stelliberty is a desktop client for the Clash proxy core.  It is made of three
programs that run beside each other:

* the **application** (Dart, `lib/`), a single-threaded event loop with the user
  interface, the providers and the managers that decide what happens;
* the **hub** (Rust, `native/hub/`), loaded into the application's process: a
  second event loop that does the work.  The two exchange *signals*, typed messages
  without an answer of their own: an answer is a signal in the other direction;
* the **service** (Rust, `native/stelliberty_service/`), a privileged background
  process that starts and stops `clash-core` on behalf of the hub, over a named
  pipe or a Unix socket.

The core itself (`clash-core`) is an external process with a REST and a WebSocket
interface on another pipe or socket.

All line numbers below are relative to the repository's root.

## 1. Inventory

| Component | State | Operations | Hard behaviour | What makes it correct |
|---|---|---|---|---|
| Service: core manager (`clash/manager.rs`) | child handle, start time, the processes in the system | `start`, `stop`, `get_status`, sweep of orphans, `Drop` | a core that exits between two steps; kill, wait, `pgrep` that fail; a core left by a killed service | one core; a start that succeeds leaves only its own; a status answer describes one core |
| Service: run loop and monitor (`service/runner.rs`) | last heartbeat, time of the previous check, the lock on the manager | heartbeat check, suspend detection, stop request, end of the runtime | tasks queueing for one lock; suspend; a shutdown limited to 5 s; a kill of the service | what the shutdown stops stays stopped, no core outlives an application that is gone or, on Unix, the service; a suspend is not taken for silence |
| Service: IPC server and handler (`ipc/server.rs`, `service/handler.rs`) | a task per connection | StartClash, StopClash, GetStatus, Heartbeat | a client that gives up while its command is queued; an accept loop that ends | every command is answered or its connection closed |
| Service: IPC client (`ipc/client.rs`) | attempt of each call | `send_command` with retries and timeouts | a command executed more than once, or after its call has failed | a call ends; once it has succeeded nothing older still acts |
| Hub: delay tests (`delay_testing/tester.rs`) | sessions with their cancel flags, window of tasks | start, cancel, join, complete | cancel before the start, after the end, between a test's end and its join | window full, nothing after a cancel, nothing missed |
| Application: delay tests (`clash_provider.dart`, `delay_test_service.dart`) | flag, active request, nodes on show, subscriptions | test a group, test all, cancel all | cancelled calls that end late; subscriptions closed under a call | one batch at a time; every call ends |
| Application: core life cycle (`lifecycle_manager.dart`, `process_service.dart`) | core state, start mode, flag of the fallback, heartbeat timer | start with two fallbacks, stop, restart | answers without request id, awaited with `first`; stop during a start; recursion from inside a start | the state shown agrees with the core that runs; a call returns what is then shown; every call ends |
| Hub: core without the service (`process_manager.rs`) | the process handle | start, stop | a stop first closes the streams, then waits for the child on the only thread, both without limit; a start whose other half fails | a stopped application has no child |
| Hub: service mode (`service_manager.rs`) | none | install, uninstall, start and stop through the service | an elevated process that cannot be waited for | the program is there while the service is registered; every request is answered |
| Hub: WebSocket streams (`ws_client.rs`, `handlers.rs`) | client, connection table, one id per stream | start and stop of four streams, cleanup | start and stop on channels of their own; ids that outlive their client; a write lock behind a hung handshake | every open stream can be closed; a stop closes only its own stream |
| Hub: requests and connection pools (`handlers.rs`, `connection.rs`, `ipc_client.rs`, `atoms/ipc_client/`) | connections at rest, two semaphores | acquire, release, health check, request with retries | a connection closed between check and use; a retry of a request already executed; a test dropped in the middle of an exchange | a connection has one owner and owes nothing at rest; updates do not overlap; a request is answered once |
| Application: requests (`ipc_request_helper.dart`) | completers by id | five methods with timeouts | late answers, retries under new ids | a call that succeeds has its own answer |
| Application: configuration reload (`clash_manager.dart`, `config_watcher.dart`) | debounce timers, pause flag | reload, watch | a reload beside a reload, a stale path | the core runs with the last configuration |
| Hub: core update (`core_update/updater.rs`) | the core's program and its backup | download, replace, roll back | a step that fails in the middle, an interrupted replacement | there is always a core that can run |
| Hub: overrides and configuration (`override_processor/`, `clash_config/`) | none | merge YAML, chain proxies, inject parameters | cycles among chained proxies, order of keys | merge and chaining meet their reference definitions |
| Hub: backup (`backup.rs`), application: preferences (`settings_store.dart`, `backup_service.dart`) | files; the application's copy of its preferences | create, restore; save, load | a restore that stops half-way or races with a save; results without ids | what is reported well has been done; this device's preferences survive |
| Service: installation (`service/installer.rs`) | the system's service database, the program | install, update, start, stop, uninstall | asynchronous state changes, deletion pending, two commands at once | a command that ends well has done what it says, one that fails has a reason, each ends |
| Hub: power events (`power_event.rs`) | flag, thread id | start, stop listener | two threads and one flag | one listener |
| Application: subscriptions and overrides | lists, files, update timers | update, switch, fall back | overlapping updates | the current subscription exists |
| Monitors, Android core, system proxy, user interface, storage, logger | see `PROJECT.json` | | | |

How they interact.  The user interface calls the managers; a manager sends a
signal and waits for the first signal of the answer's type.  The hub spawns a task
per signal, or handles the signals of one type in order, so signals of different
types may overtake each other.  In service mode the hub's task calls the service
client, which opens one connection per attempt; the service spawns one task per
connection, and all of them queue for one `RwLock` on the manager, as do the
heartbeat monitor and the shutdown.  The application sends a heartbeat every 30 s
while its core runs in service mode.  The hazards that follow from this are
listed in `PROJECT.json`, each at the line where it bites, with the properties
that cover it.

## 2. What is modelled

```
CoreSlot          what the service promises about cores       (abstract)
   ^  refinement
ClashManager      the manager's start, stop, is_running, sweep, Drop, step by step
   ^  EXTENDS
ServiceRunner     run loop, monitor, lock queue, connections, time, crash
   ^  EXTENDS             ^  EXTENDS
ServiceClient         ServiceRunnerProofs
   ^  calls with retries  ^
      ServiceClientProofs   (EXTENDS both)

ServiceInstaller  the commands of the service program on three systems
   ^
ServiceSetup      the hub's handlers that have them executed with raised privileges  <-  ServiceSetupProofs

CoreProcesses     the child of the hub, the core of the service, their results
   ^
Lifecycle         startCore and stopCore of the application  <-  LifecycleProofs

IpcPool           the hub's requests and the two connection pools
   ^
IpcRequests       the application's calls on top of it       <-  IpcRequestsProofs

HubCalls          how the application has the hub do a job
   ^        ^
Backup   CoreUpdate
   ^        ^
    HubJobs       both, with what they promise               <-  HubJobsProofs

DelayTests        both sides of batch delay tests            <-  DelayTestsProofs
WsStreams         the monitors, the hub's streams, the stop  <-  WsStreamsProofs

MC*               values of the constants for TLC
```

A module above an arrow is EXTENDed by the one below it; a module of proofs EXTENDS the
one it is about.  The groups meet in the code at narrow places: the life cycle
sees the service as requests that are executed or not and answered or not
(`CoreProcesses`, which `CoreSlot` justifies: a service has at most one core), the stop
of the core sees the streams as one cleanup (`WsStreams`), and the requests and the delay
tests see the core as something that answers, hangs or is gone.

### ClashManager (`clash/manager.rs`)

`start` and `stop` are called with `&mut self` under the writer's side of the lock,
so only the operating system acts between their statements.  `op` is the
statement the running call has reached: `start` stops a living child, sweeps
leftovers by name, checks the files and spawns.  Each failure the code handles is
an action: a kill that is refused (an error on Unix, before `start_time` is
cleared), a kill that reports success although the process lives on (the wait of
3 s is over), a sweep that misses some processes.  Cores are numbered by the
order of their spawn and `alive` is the set of those that exist in the system,
with or without a handle.  `Windows` chooses the build, `OsMayFail` whether calls
of the operating system fail.

### ServiceRunner (`runner.rs`, `handler.rs`, `server.rs`)

A connection carries one command through `inbox` (its task is spawned), `queued`
(it waits for the lock), `held` (it runs) and `done`, or `dropped` when the service
ends.  tokio's RwLock is fair: `ahead[t]` is the set of tasks that were queued before
`t`, `waiting` the tasks queued, and a task is granted the lock when it has none
ahead and the lock is compatible.  `get_status` holds the lock for reading only
and takes the inner locks one after the other, so `StatusRunning`, `StatusPid` and
`StatusUptime` are separate actions of each reader.

The monitor's check is atomic up to the place where it waits for the lock:
`MonitorAlarmed` reads the silence and queues, `MonitorStopped` comes after the
stop and resets the timer whatever the stop returned.  Time passes in ticks, and
no tick passes over a monitor that is due (its timer fires); a `Suspend` lets many
ticks pass at once.  `StopRequested` (signal or service control) queues the shutdown
behind the others; it stops the core or gives up (`ShutdownTimesOut`), aborts monitor and
accept loop, and the runtime's drop (`DropRuntime`, `ManagerDropped`) runs `Drop` for
the manager.  On Windows the service has reported that it is stopped before the runtime is dropped, the main thread
returns and the process may exit at any place of this (`ProcessExits`).  `ServiceKilled` is a kill of the process.  In both the
core survives on Windows (`ProcessGone`), under systemd the control group is killed with it.  `orphans` and `settled` are history
variables: the cores that the last process left behind, and those that were there when a shutdown's stop had returned.

### ServiceClient (`ipc/client.rs`)

`send_command`: at most `MaxRetries + 1` attempts, a new connection for each,
a timeout that races with the answer, and an attempt given up whose command stays in
the service.  Tasks that the service has spawned are polled in any order, except that a
connection given up before another one was opened was polled before it: the
timeouts are seconds, a poll takes microseconds (`HandleInOrder`, `HandleAbandoned`).  On a machine with one worker thread a start or stop,
which blocks its thread for seconds, can hold up that poll; this assumption is then not sure.

### DelayTests (`clash_provider.dart`, `delay_test_service.dart`, `tester.rs`)

Both event loops.  In the provider, `Begin` is everything up to the wait, in the
two styles of the code: `testGroupDelays` has subscriptions of its own,
`testAllProxiesDelays` keeps them in fields that a later call or a cancel replaces.
`Finally` is the `finally` block of either.  `CancelAll` is `cancelAllDelayTests`.  In the hub,
`HandleStart` registers the session and fills the window, `NodeEnds` is the end of a
node's task, `Join` what the loop does with one outcome: the progress signal, the
refill, and the completion when nothing is pending.  Requests and cancels travel in
two boxes and may overtake each other, a batch's answers come in order.  `displaced` and `lateEnds` are history
variables: the batches that a cancel, or a batch that began beside them, has taken off show while their calls still wait, and those of them
whose calls have ended since the active batch is on show.
Left out is a task that panics (the `JoinError` of `tester.rs:470`, after which the batch completes without that node).

### WsStreams (`handlers.rs`, `ws_client.rs`, `process_manager.rs`, the monitors)

The core without the service.  The application starts the monitors when the core runs
(`CoreStarted`) and ends them when it has stopped (`CoreStopped`), except the monitor of the connections, whose
provider ends it as soon as the core is no longer running (`Early`, part of `StopCore`); the log is also switched by its
level (`Switch`).  A monitor sends one signal.  In the hub every type of signal has a task
of its own, `task[t]` is what it waits for: its next signal, the client's lock for writing or
reading (`queue`, fair as tokio's RwLock), or a handshake, during which it holds the lock for
reading.  The hub has one thread, so that everything between two such waits is one action.
`EnsureClient` gives the lock back and asks for it again; `BeginHandshake` numbers the connection;
`CoreAnswers` is the core's answer, which may still be read when the core is gone; `StreamOpens` enters it into the table and saves its id; `TakeStop` takes the saved id *before* it
waits for the lock; `Cleanup` is `StopClashProcess::handle`.  A core may crash, and if `CoreMayHang` leave a
handshake unanswered for ever.  Left out: the data of the streams, and `StreamResult`, which no part of
the application listens to.  A core starts only when the hub is idle: a start takes seconds, the
signals that are left take milliseconds.

### IpcPool and IpcRequests (`clash_network/handlers.rs`, `ipc_client.rs`, `connection.rs`, `atoms/ipc_client/client.rs`, `ipc_request_helper.dart`)

A request of the hub is a task with a `phase`: it looks for a connection (`acquire`), opens one
(`connect`), writes, reads, waits before it is tried again (`retry`), or has `ended`; `spin`
is the loop of `read_chunked_body` after the end of the stream.  There are two pools, the
requests' and the delay tests', with different rules of what may be taken: a request looks at the
age and the health of a connection, a test takes any that is open.  A pool is a sequence whose front is the
oldest.  `updates` and `connecting` are tokio's two semaphores as queues: the first one, or the first
`MaxConnecting`, have a permit.  `wire` is what a connection carries: what the core has been asked and
has not answered (`asked`), what it has said and nobody has read (`said`), and whether the last
answer is incomplete (`part`).  The core answers (`CoreExecutes`, `CoreCompletes`), ends, starts, hangs, or closes one
connection; what is on a connection that breaks may still be read.  `TestTimesOut` is the
timeout that drops a test's future at any of its waits, which closes its connection.

`IpcRequests` adds the application: each attempt of a call is a request with an id of its own and a
completer, `TimesOut` gives an id up while the hub goes on, and `HandleResponse` is the listener.  A
request that the core has refused to connect to is not tried again (`notReady`, the text "os error 2"); on Windows the
texts of a broken connection contain this one (`WriteErrors`).  An answer that is not a JSON object is tried again
like a failure.

### ServiceInstaller and ServiceSetup (`service/installer.rs`, `service_manager.rs`)

Each `install`, `uninstall`, `start` and `stop` is a process: `Look` is the moment it queries the service,
from which it decides on its steps (`WindowsInstall`, `LinuxInstall`, `MacInstall`, ...), and every step
of `todo` is an action with a failure of its own.  The service manager is asynchronous: a service is
starting or stopping until `HasStarted` and `HasStopped`, a Windows service that is deleted stays until nobody has it
open, systemd restarts a service that crashed, and what it works with (`loaded`) is the unit file only after a
reload.  `binary` is the program in the private directory, which may be missing, old, partial or current,
and `runs` the one the service was started from.  The initial states include those an earlier command has left.

`ServiceSetup` adds the hub: `Elevate` starts the process, which on Windows nobody waits for
(`Poll` looks at the registration at most 20 times and then goes on with success), and elsewhere is waited for by
the only thread (`Blocked`).  `RemoveBinary` is the deletion after an uninstall, with its repetitions.
`ShellCommand` is the same program started in a terminal.

### CoreProcesses and Lifecycle (`process_manager.rs`, `service_manager.rs`, `lifecycle_manager.dart`, `process_service.dart`)

`requests` are the four kinds of requests that the hub has not answered, `mail` the results on their way:
a result is "ok" or not and says nothing of its request (the field `by` is for the properties only).  The
child of the hub and the core of the service are two variables.  A stop first has the streams closed, which may wait
behind a handshake (`Cleans`), then signals the child (`Signal`) and on Unix waits for its end, and nothing else moves in the hub
meanwhile.  Neither wait has a limit: `hung` says that the core does not answer or does not heed the signal (`Hangs`).  An
uninstallation of the service sends a result, too, for which nobody asked (`UninstallTells`).

A call of `startCore` or `stopCore` is at one of the places where its code awaits something: the
configuration, a result (`launch`, `service`, `undo`, `stopService`, `stopSidecar`), the polling of the
API, the initialisation, the validation, the pause before a fallback.  `attempt` is the `startCore`
it is in: the first, the one without overrides or the one with the default configuration, which are called
from inside.  A continuation that can run does so before any other event (`Due`, `AtEvent`), as in Dart's event
loop.  A call is `alone` unless it was taken up beside another one; a call that is refused at once does not
count (`Overlapped`).  Whether the service is installed is fixed per behaviour; a restart is a stop and a start by one caller.

### HubCalls, Backup, CoreUpdate and HubJobs (`backup.rs`, `settings_store.dart`, `backup_service.dart`, `updater.rs`, `core_update_service.dart`)

`HubCalls` is the pattern these services share: listen, send, wait for the first result of that kind for a limited
time.  A result completes every call of its kind that waits; a task whose call has given up goes on.
A task is a list of steps still to do, each of which may fail; `AppEnds` kills the program between any two.

`Backup`: the steps of create and restore over the parts of a backup, beside `BeginSave` and `EndSave`, the
application's write of its whole copy of the preferences, and `Reload`, the load after a restore.  The file is truncated
before it is filled, so that a reader may find it broken.  The keys of this device are read before they are written, in
another step.  `CoreUpdate`: the release, the choice of the asset, the download in chunks, the
unpacking, and the replacement with its backup and roll back, on Unix with the change of permissions.  Nothing keeps
a second replacement out while the hub still works on one whose limit has passed, so that files are told apart from
their names: `core` and `backup` are the files that have the two names, `fd` is the file a call has opened, and each look at a
name is a step before the one it decides on.  `crowded` is a history variable: replacements have overlapped.  Backups and
updates share no state, so `HubJobs` lets a behaviour be about one of them (`page`).

Abstractions: what a part holds is one of four values; the DNS settings and the PAC file, kept by the
same functions, are one part; all replacements bring the same bytes, and a file is written in one step after it was opened;
the signals of a download's progress are left out; preferences are changed only while a job is under way.

## 3. The runs

| Run | Question | Instance |
|---|---|---|
| `service_commands` | Can overlapping commands, the monitor, the shutdown, a service that is killed or exits and a core that exits give two cores, a core that comes back after the shutdown has stopped it, a start that does not replace what it finds, or a status made of two cores? (`OneCore`, `NoCoreWithoutService`, `StartReplacesAll`, `StatusConsistent`, `RunnerTypeOK`) | Windows build, three commands of any kind, one kill, two lives of the service |
| `service_live` | Does a core outlive the service when nothing fails? Is a suspend taken for silence? Is an abandoned core stopped, a command answered, the shutdown completed? (`NoCoreWithoutService`, `NoAlarmAfterSuspend`, `OrphanStopped`, `CommandsAnswered`, `ShutdownCompletes`) | Unix build, two commands, the code's 30, 60 and 70 s in ticks of 30 s, one suspend of 30 or 90 s, fair |
| `client_order` | Once a call has succeeded, can anything sent before it still switch the core? Does the service implement `CoreSlot` when calls of the operating system fail? (`AnswerIsFinal`, `ImplementsCoreSlot`) | Unix build, two calls, one retry each, starts and stops, kills, waits and sweeps that fail |
| `setup` | Does a command of the service program that reports success do what it says, does one that fails have a reason, and does everything end? (`CommandsDo`, `FailsForAReason`, `EverythingEnds`) | three systems, every state an earlier command can have left, two processes at a time, one handler, two launches, one failure or crash, fair |
| `setup_kept` | Is the program kept while the service is registered? (`BinaryKept`) Violated, see below | as `setup` |
| `lifecycle` | Do the state shown, the value returned and the heartbeat agree with the core that runs, whose result does a call take, and does every call end? (`TransientOwned`, `OwnResult`, `RunningHasCore`, `StoppedHasNoChild`, `HeartbeatWhileServing`, `ResultIsState`, `CallsEndUnlessHung`) | two starts or stops, in order or overlapping, with and without the service, two failures, deaths, stops that hang or results of an uninstallation, fair |
| `requests` | Does a connection at rest owe an answer, do updates overlap, is an answer given to its own call, once, and is every request answered? (`NothingOwed`, `OneUpdate`, `OwnAnswer`, `AnsweredOnce`, `AnsweredUnlessStuck`) | two updates, one of them tried again by the application, one delay test, three connections, one place per pool, one retry of the hub; the core ends, hangs or closes a connection once; fair |
| `requests_pool` | And requests that nothing keeps apart: has a connection one owner, is a request reported as not ready only without a core or after the write to a closed pipe, and is every request answered? (`OneOwner`, `NotReadyForAReason`, `AnsweredUnlessStuck`) | Windows build, two queries at a time, one of them tried again, one place in the pool, one new connection at a time; faults as above; fair |
| `requests_truncated` | Is every request answered if the core does not hang? (`Answered`) Violated, see below | as `requests`, without hanging |
| `jobs` | Does a backup, a restore, a download or a replacement that reports success do what it says, does a restore keep this device's preferences, and is there always a core to run? (`BackupsDo`, `UpdatesDo`, `OneIsUsable`) | two jobs that may overlap after a time-out, one change of the preferences, two chunks, one failure or kill |
| `delay_tests` | Is a cancelled batch silent, a completed one complete, does a batch begin beside the active one only if the late end of one that was taken off show has reset its flag, and does every call end? (`NothingAfterCancel`, `NothingMissed`, `SecondOnlyAfterLateEnd`, `BatchesEnd`) | three batches, two nodes, one at a time, fair |
| `ws_owned` | Can a connection outlive its client, does a stop of the core end, and does it close what lost stops have left? (`ClientOwnsConnections`, `StopEndsUnlessHung`, `LeftOversEnd`) | two streams, two lives of the core, three switches, a core that crashes or hangs, fair |

`BackupsDo`, `UpdatesDo`, `CommandsDo` and `EverythingEnds` are conjunctions of named parts
(`CreateDoes`, `RestoreDoes`, `DeviceKept`, ...), one per promise of a component.  `WindowFull` and `IdsDiffer`, the
arithmetic of the window and of the ids, are proved and not run.

**Why the bounds are enough.**  *Service.*  Three commands are one in front of, one inside and
one behind the lock; the monitor and the shutdown come on top.  In `service_live`
one tick is half a minute: the check comes every tick, the silence may last two, so that the third check alarms, as in the code (90 s
are the first multiple of 30 s beyond 70 s), and the two suspends are one that the gap of 60 s does not reveal and one that it does.
In the other runs the timers are as short as they can be (`CheckEvery = 1`, `Timeout = 0`), which makes the
alarm possible at any check.  Two lives and one kill are the smallest history with a core that
nobody holds and a start that finds it; the exit beside the runtime's drop needs one.  `client_order` lets no tick pass
(`TimeStandsStill`): the monitor's own stop is not a command.  Two calls with a retry
each are four connections.  That the monitor, a crash and other commands keep to `CoreSlot` as well is proved (`SlotImplemented`).
*Setup.*  The initial states stand for any history of earlier commands; a hub's command and one
in a terminal are the two that can meet, and one failure or crash at any step is what each of them has to survive.
The registration is looked at once and the deletion repeated once, where the code has 20 and 15:
how often makes no difference to what is seen the last time.
*Life cycle.*  Two calls are the smallest overlap and the smallest history in which a result is late.  One
failure is used up by each fallback, so that two reach the second one; a core or a service that is not there
fails without being counted.  A death, a stop that hangs and the result of an uninstallation count as failures.
*Requests.*  One update holds the permit, another waits for it; the retry of one makes three requests.  Updates exclude each other,
so that the other two limits are reached only in `requests_pool`: there one query waits for the permit of the other's new
connection, and of two connections that are given back the second finds the pool full.  Two connection attempts and one retry show
a first and a last one.  A third connection is never used.
*Jobs.*  Two jobs of one kind are the smallest overlap; a download in two chunks has a middle.
*Delay tests.*  Two nodes with a window of one are a
first fill and one refill.  Three batches are the cancelled one that ends late, the one on show meanwhile, and the one that
begins beside it.  A batch that is displaced by one that itself began so needs a fourth: this case is only proved.
*Streams.*  Two lives of the core are the
smallest history with two clients; the log can be switched and is not ended early, the
connections are the other way round, and every other stream is like one of these two or between them.

**Symmetry and reductions.**  Symmetry is declared in `service_commands` only, over
connections, whose names occur nowhere else.  In `lifecycle`, `jobs` and `delay_tests` two calls differ in nothing but their
names, and the action constraint `InOrder` has the first made first.  `CHECK_DEADLOCK FALSE` is
set where everything may have stopped because the calls, starts, launches or switches are used up.

**Fairness.**  `FairSpec` of ServiceRunner assumes that the service's tasks are scheduled (a task
that can take the lock does, a call that runs goes on, a finished runtime is dropped) and that time
passes: this is what tokio and the operating system give.  It assumes nothing of the
application, of commands, of crashes or of the core.  `DelayFairSpec`
assumes that both event loops go on and that a node's test ends, which its timeout
guarantees; nobody has to test or to cancel.  `StreamsFairSpec` assumes that the hub's tasks
go on, that a handshake ends unless the core hangs, and that the application takes its answer;
nobody has to start, stop or switch anything.  `CallsFairSpec` assumes the same of the hub's requests
and of the core's answers on each connection, and nothing of the application's timers or of delay tests.
`SetupFairSpec` assumes that each process and each handler goes on, that a dialog for privileges is answered, and that the service
manager does what it was asked to; no crash and no command is required.  `LifecycleSpec` has one
weak fairness condition over everything that can go on by itself (`Progress`): both event loops, and what a stop
of the hub waits for, a handshake or the end of the core, unless the core hangs.  That a signal ends a core is not assumed.
`service_commands`, `client_order`, `jobs` and `setup_kept` have safety properties only and assume none.

### Findings

* `requests_truncated`: `handlers.rs:164` says that the result of a request is returned by a signal.
  `read_chunked_body_static` (`ipc_client.rs:197`) takes the empty line that `read_line` gives at the end of the
  stream for a separator and reads again, without end.  A core that ends between two chunks leaves the request without
  an answer, and an update of the configuration keeps its permit, so that every later one waits for ever.
* `setup_kept`: `service_manager.rs:439` says that the program in the private directory is deleted only after a successful
  uninstall.  On Windows `run_elevated_command` returns success when its looks at the registration are over,
  also when the elevated command has failed or still waits for the service to stop, and the handler goes on to
  delete the program (`:440`) under a service that stays registered.

### What else the models show

These are behaviours of the code that the properties do not forbid.  Where one names a property in parentheses, this property makes an exception for it; the others are hazards of `PROJECT.json`
without a property, with a note that says why.  The first four disagree with a comment of the code, too.

* Not ready: `handlers.rs:141` says that its check is for an interface that is not ready yet, on Windows
  "os error 2", a file that does not exist.  The text of a write to a pipe that was closed, error 232, contains "os error 2", too:
  a request that finds its pooled connection broken, as after a suspend, is not tried again, neither by the hub nor by the
  application (`ipc_request_helper.dart:37`), although the core lives and the retry was made for this case (`handlers.rs:242`;
  `NotReadyForAReason`, second reason).
* End of the service: `runner.rs:200` says of the limit of the shutdown that it makes sure that the cleanup of the core is complete
  before Windows terminates the service, and `:217` that after the limit the cleanup is tried through `Drop`.  The service reports that it is
  stopped (`:227`) before its runtime is dropped at the end of the function; the dispatcher returns in the main thread and the process exits
  (`lib.rs:25`).  A start that holds the lock for longer than 5 s, or that was queued behind the shutdown, is then cut off and its
  core runs on without a service (`NoCoreWithoutService` promises an end of every core on Unix only).
* Stop of the core: `clash_defaults.dart:25` calls `processKillTimeout` the limit of the stop of the process, and
  `lifecycle_manager.dart:547` and `:846` pass it to every stop.  `stopProcess` takes it (`process_service.dart:62`) and waits for the result without it (`:69`).
  The hub's stop in turn waits for the lock behind a handshake (`process_manager.rs:307`) and for the child (`:206`) without one
  (`CallsEndUnlessHung`, `StopEndsUnlessHung`).
* Roll back: `updater.rs:301` says that the replacement of the core tries to roll back when it fails.  Only a write
  that fails is rolled back.  When reading or changing the permissions fails (`:336`, `:338`) the function returns at once, and the
  new file, which nobody may execute, has the name of the core (`ReplaceDoes`).
* Life cycle: `startCore` is not kept out while a stop is under way (`lifecycle_manager.dart:141`), nor during the
  pause of a fallback, when the state is "stopped"; in the first case the stop ends after the start's child has been spawned and says
  "stopped" of it (`StoppedHasNoChild`).  `stopCore` during a start returns true at once and the start goes on
  (`:771`).  A result completes every call that waits for one, also one that comes late or from an uninstallation (`OwnResult`).  A request to the service that
  was given up is executed later, and a core that the service has started but whose API does not answer is left to it (`RunningHasCore`).
* Service: the monitor decides at `runner.rs:162` and waits for the lock at `:170`; a heartbeat that
  arrives in between does not save the core.  A stop takes the handle out before it kills (`manager.rs:435`): after a kill that
  failed the core runs on, later stops find nothing to stop, and only the sweep of the next start removes it.  `StartClash` does not renew the last
  heartbeat (`handler.rs:29`), so that a core started into a silence that is nearly over is stopped.
* Setup: commands that overlap, one of the hub and one in a terminal, keep nothing apart (`installer.rs:45`); `CommandsDo` and
  `FailsForAReason` are about a command that had the machine to itself.  On Linux an uninstall that meets a service between a crash and its automatic restart leaves it running
  without a registration (`UninstallDoes` excepts "restarting").  The wait for a service that refuses to stop has
  no limit (`Refuses`).  On Windows an install that finds the current program running does nothing and reports success, also when the
  entry is already marked for deletion and goes when the service stops (`installer.rs:141`): it takes three commands, one more than the run
  has.  The proof needed this, and `InstallDoes` says so.
* Delay tests: the `finally` block of a cancelled batch (`clash_provider.dart:1488`, `:1647`) resets the flag
  of its successor, and a second batch can begin beside an active one (`SecondOnlyAfterLateEnd`).  A cancel that finds no
  session, because it has overtaken its start or comes after the end, is forgotten (`tester.rs:210`): the batch runs to its end
  beside its successor, and its answers reach nobody.
* Streams: a stop that is handled during its own stream's handshake finds no id, or one of an earlier client
  (`handlers.rs:748`, `:775`), and leaves a stream open or closes another; the stop of the core ends
  this (`LeftOversEnd`).  A core that hangs in a handshake blocks that stop (`:512`, `StopEndsUnlessHung`).
* Backup: a restore that fails half-way is not followed by a load, so that the file and the application's copy differ until
  the next save overwrites it.  A load during another write of the file finds it incomplete and takes the defaults; a save
  between a restore and the load puts the old preferences back (`DeviceKept` asks for no write under way, and both it and `RestoreDoes` for a task that was alone).
  A restore reads this device's keys and writes the file in two steps, between which a save is lost or half read (`backup.rs:417`).
* Core update: a replacement after an interrupted one renames the incomplete program over the good backup (`updater.rs:322`), so
  that until it has written the new one there is none.  Replacements that overlap, because the limit of 30 s has passed over the first, can
  make each other fail, and report success for a core that the other one is writing.  `OneIsUsable` and
  `ReplaceDoes` say how far the promise goes.

Seen while reading and not followed further: the two debounced reloads of the configuration, by a change of settings
(`clash_manager.dart:512`) and by the file watcher (`config_watcher.dart:103`), can overlap; a batch that was
cancelled stays in the table of sessions (`tester.rs:377`); a backup reports success without a file that
could not be read (`backup.rs:404`, the exception in `CreateDoes`); the first asset whose name contains the platform is
chosen whatever its format (`updater.rs:213`, the second clause of `DownloadDoes`).

## 4. What is proved

Eight modules of proofs, for every value of the constants under the assumptions named in the
modules (`ManagerAssumption`, `RunnerAssumption`, `ClientAssumption`, `PoolAssumption`, `CallAssumption`, `ProcessesAssumption`,
`CallsAssumption`, `BackupAssumption`, `UpdateAssumption`, `DelayAssumption`, `StreamsAssumption`, `InstallerAssumption`, `SetupAssumption`), which TLC evaluates in every run: names differ from one another, bounds and timers are natural numbers, limits are
not zero, a check comes at least as often as the gap that reveals a suspend, and there is a process that a handler which waits for none can name.

| Module | Theorem | States |
|---|---|---|
| `ServiceRunnerProofs` | `TypeCorrect`, `Inductive` | `[]RunnerTypeOK`, `[]IInv` |
| | `OneCoreAlways` | `[]OneCore` |
| | `StartReplacesAlways` | `[]StartReplacesAll` |
| | `NoCoreLeftAlways` | `[]NoCoreWithoutService` |
| | `StatusAlwaysConsistent` | `[]StatusConsistent` |
| | `NeverAlarmedBySuspend` | `NoAlarmAfterSuspend` |
| | `SlotImplemented` | `ImplementsCoreSlot`, the refinement |
| `ServiceClientProofs` | `ClientRefinesService` | `ClientSpec => Spec`: the calls do to the service only what `ServiceRunner` allows |
| | `ClientInductive` | `[]ClientInv` |
| | `AnswerAlwaysFinal` | `[]AnswerIsFinal` |
| `IpcRequestsProofs` | `CallsInductive` | `[]CallsInv` |
| | `OneOwnerAlways` | `[]OneOwner` |
| | `NothingOwedAlways` | `[]NothingOwed` |
| | `OneUpdateAlways` | `[]OneUpdate` |
| | `OwnAnswerAlways` | `[]OwnAnswer` |
| | `AnsweredOnceAlways` | `[]AnsweredOnce` |
| `LifecycleProofs` | `LifecycleTypeCorrect`, `LifecycleInductive`, `FlowInductive` | types, `[]LifecycleInv` and `[]FlowInv` |
| | `TransientAlwaysOwned` | `[]TransientOwned` |
| | `HeartbeatAlwaysKept` | `[]HeartbeatWhileServing` |
| | `ResultAlwaysState` | `ResultIsState` |
| | `ResultAlwaysOwn` | `[]OwnResult` |
| | `RunningAlwaysHasCore` | `[]RunningHasCore` |
| | `StoppedNeverHasChild` | `[]StoppedHasNoChild` |
| `HubJobsProofs` | `ReplaceInductive`, `JobsInductive` | `[]ReplaceInv`, `[]JobsInv` |
| | `OneAlwaysUsable` | `[]OneIsUsable` |
| | `UpdatesAlwaysDo` | `UpdatesDo` |
| | `BackupsAlwaysDo` | `BackupsDo` |
| | `DeviceAlwaysKept` | `DeviceKept` |
| `DelayTestsProofs` | `DelayInductive`, `DelayTypeCorrect`, `AnswersInductive` | `[]DelayInv`, `[]DelayTypeOK`, `[]AnswersInv` |
| | `WindowAlwaysFull` | `[]WindowFull` |
| | `SecondAlwaysAfterLateEnd` | `SecondOnlyAfterLateEnd` |
| | `NothingEverAfterCancel` | `NothingAfterCancel` |
| | `NothingEverMissed` | `[]NothingMissed` |
| `ServiceSetupProofs` | `SetupInductive` | `[]SetupInv` |
| | `CommandsAlwaysDo` | `CommandsDo` |
| | `FailsAlwaysForAReason` | `FailsForAReason` |
| `WsStreamsProofs` | `IdsInductive` | `[]IdsInv` |
| | `ConnectionsAlwaysOwned` | `[]ClientOwnsConnections` |
| | `IdsAlwaysDiffer` | `[]IdsDiffer` |

None of the properties is inductive by itself.

**The service.**  `IInv` adds

* `LockDiscipline`: a writer excludes every reader, and each task that is queued, holding or
  done says so in its own state.  Without it two calls could run at once and `op`
  would describe neither;
* `NobodyLeft`: in a service that is down no task queues or holds, so that the next
  life starts clean;
* `CallProgress`: what each value of `op` says of the handle and of the living cores, for
  instance that the step before a spawn finds the slot empty.  It gives `OneCore`,
  `StartReplacesAll` and the refinement, whose `Launch` needs an empty slot;
* `StatusTrack`: a reader that has passed the first lock holds a pid that is the handle's,
  for the handle cannot be replaced while a reader holds the lock.  It gives
  `StatusConsistent`;
* `SuspendSeen`: a suspend that is longer than the gap and is part of the silence is
  also part of the time since the last check, or the check has already seen it.  It gives
  `NoAlarmAfterSuspend`;
* `HistoryTrack`: what a shutdown's stop has found is dead, for the stop left nothing behind its handle, pids are not used again
  and orphans are counted apart; and on Unix there are no orphans.  With `CallProgress` it gives `NoCoreWithoutService`.

`InvStep` has a lemma per part (`LockStep`, `LeftStep`, `ProgressStep`, `OneCoreStep`, `ReplaceStep`,
`StartTimeStep`, `StatusTrackStep`, `SuspendStep`, `HistoryStep`), each with a step per action.  `SlotStep`
maps every step of the service to a step of `CoreSlot` or a stutter.

**The clients of the service.**  `ClientRefinesService` carries the service's invariant over to `ClientSpec`; no invariant of
the service says more about commands than that they queue.  `ClientInv` adds that the connections of a call are opened one after the
other (`Unopened`), that what was over when a call began stays so (`PriorOver`), and `Ordered`: once the command of a call is queued, all that was sent before it
stands in front of it, and once it is inside the lock nothing of that which writes is still to come.  `Holders` ties
"inside" to the lock.

**The requests.**  `PoolInv` says which tasks have a connection (`HasConnection`), that a connection has one
owner (`OneOwner`), that what is asked or said on it is its owner's or nothing (`Carries`), that only the first in
the queue of updates is beyond it (`Permitted`), how the number of executions follows the attempts (`Counted`), and that
an answer to a request is the core's to that request (`OwnOutcome`).  `Carries` makes a connection that is
given back owe nothing, and with `Permitted` it makes updates exclude each other.  `CallsInv` adds which attempts
of a call have a completer.  The queue for new connections appears in no property, and its type is not proved.

**The life cycle.**  Besides the types, the invariant has the shape of a call (which fields belong to which place),
the owners of the transient states, and `Solo`: as long as no call was taken up beside another one, which core state, start mode and heartbeat belong to
the place of the only call that was taken up.  A call that is refused changes nothing and is over at once (`RefusedWell`, `RefusedStays`), so that
it disturbs none of this.  The lemmas `GoesWell` and `BeginsWell` are the two ways a call
moves, so that each action cites one of them; the fallbacks call `startCore` from inside, so that one action may begin the next attempt.

`FlowInv` adds, for behaviours in which no call was taken up beside another one, no limit has passed and the service was not uninstalled (`Flow`), that the only thing on its way is the request of
the only call or its result, which makes the result its own, and that a core is there at each place that needs one (`Sound`, `Rest`).
`Mode` is what makes the first of these enough without the service: with it the hub never has a child, and without it no wait has a
limit and there is nothing to uninstall.

**The replacement of the core.**  `Plans` says what may be left of a task's steps, `Made` that the file a call will make is
nowhere before.  Two parts carry `OneIsUsable`.  `Pending` is about replacements that may overlap while nothing goes wrong: a core
that is missing, incomplete or without permission has a task that is about to make, fill or permit it, so that it is
whole when the last one has ended.  `Lone` is about one beside no other: `Place` says where the program of before is at each of its
places, in the name of the core until it is renamed and then in that of the backup, also when one thing goes wrong.

**The other jobs.**  `Apart`: beside a task that is alone no other of its channel runs, so that what such a task has read, and what it has
written, is still there at its next step.  Of updates `JobsInv` adds to `ReplaceInv` that a download fetches what it has chosen (`Chosen`).  Of backups it has two halves.
`CallsInv` is about whom a result answers: a result is on its way once, from a task that has ended, and is taken once (`Results`);
one call waits (`OneWaits`), and a task or result is left behind only by a limit (`Late`); from these a result of another call
needs a limit that has passed.  `WorkInv` is about the data, with one conjunct for each place of the two plans: what a backup has collected
(`Gathers`), which parts a restore has written (`Restores`), and that what a restore has made of the preferences stays until it is
loaded (`Stays`).  The lemmas `Asked`, `Gone`, `Delivered`, `Limited` and `Killed` say what each
step does to the calls, whatever the plans are; both halves and the updates cite them.
That call need not be the one whose result it is: with three calls, more than the run has, the second may be answered by the first one's
late result and the third by the second's, which `OwnAnswer` allows for.

**The delay tests.**  A request or completion that is unhandled belongs to no session (`Unhandled`); every call that goes on without being on show was displaced, and a button that is
enabled beside an active batch was enabled by the late end of such a call (`LateEnd`); and `Windows` keeps the nodes of a batch that are under way apart from those that have ended and bounds both by the nodes started; the lemma `RefillFills` is the
arithmetic of cardinalities behind the refill.  `AnswersInv` is about what is on its way: a completion is the last answer of its
batch, "done" only after every node and beyond any cancel (`EndIsLast`), and the answer for a node that is shown as being tested is
still to come unless its batch is cancelled (`ShownIsDue`).  So nothing is left on show when the completion is handled.

**The streams.**  `IdsInv`: every id in the table or in a handshake is below the counter of the client that is there, and
every id is given once; a handshake holds the lock for reading, so that no client is dropped under it.

**The setup.**  What a command has done when it ends follows from all of its steps, so `Lines` says for every system, every command and
every rest of a plan what is true when that rest is what is left: of any process that its plan is one of these, and of a
process by itself also where the program, the unit and the service are (before a Windows update copies the program, for instance, a service that was found
running or at rest is at rest, unless something failed or crashed).  `ByItself` makes that stable: beside such a process no other works, and what the
service does on its own (`Turning`), a crash (`Crashing`) and the hub's deletion of the program (`Removing`) leave each line true or
disturb its process.  `ServiceInv` adds which states each service manager can report and that a service that lives runs the program that is
there.  The plans are concatenations; `PlansOnWindows`, `PlansOnLinux` and `PlansOnMac` name what they come to once,
and the other lemmas use only the first step and the rest of each (`Reads`).

Model-checked only: all liveness properties, for fairness and ENABLED are beyond the prover's reach here.
No module that has theorems uses a RECURSIVE operator, and nothing is proved by induction over data.

## 5. What is not modelled

Of the modelled components: the service on macOS, which is no service of `runner.rs` but `run_console_mode` (`lib.rs:115-199`), with a heartbeat
monitor of its own that does not look for suspends and ends the process; in the IPC server the framing, the security descriptor of the pipe and the stream of logs; the
test of a single node; the data of the streams and their Android variant; of the life cycle the check and release of
ports (Windows only), `forceResetCoreState`, the change of the mode and the reset of the manager after an uninstallation, `tryStopViaService`
(`process_service.dart:222`), the configuration path, the callbacks, and the clean-up of the hub at its exit; the progress signals of a download; the export and import of preferences on mobile systems and the comparison of versions.

Not modelled at all:

* *Overrides, configuration generator, subscription parsers*: transformations of documents without state, by fixed keys and
  text formats, an external JavaScript engine and downloads.  Their contents are data that no property here tells apart.
* *System proxy, power events, auto start, loopback, application update, paths, network interfaces, JNI, the hub's logger, the
  service's logger and permissions*: single calls of operating system interfaces, or a buffer of lines, on
  whose outcome nothing else depends.
* *Configuration reload*: a debounce timer and a file watcher around one request to the core, which is modelled.
* *Subscriptions and overrides of the application*: updates, switches and fall backs above `startCore` and the reload; they
  use the modelled calls from above.
* *Android core*: calls into the VPN service over a platform channel, whose outcome is the system's.
* *User interface, tray, hotkeys, storage*: presentation and preferences without protocols of their own, except the
  preferences file, which is in `Backup`.

What would come next: the reload beside restarts (`ConfigReload` on top of `Lifecycle` and `IpcRequests`) and the
application's subscription updates.
