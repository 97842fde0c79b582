----------------------------- MODULE WsStreams ------------------------------
(***************************************************************************)
(* The WebSocket streams of a core that runs without the service: the      *)
(* monitors of the application (traffic_monitor.dart and its siblings,     *)
(* switched by the core's state), the handlers of the hub                  *)
(* (clash_network/handlers.rs), the client they share                      *)
(* (clash_network/ws_client.rs), and the stop of the core, which begins    *)
(* with a cleanup of that client (clash_process/process_manager.rs).       *)
(*                                                                         *)
(* The hub runs on one thread.  Every type of signal has a task that       *)
(* handles one signal after the other; an action is what a task does up to *)
(* the next await that really waits.  Those are the RwLock around the      *)
(* client, granted in the order of the requests, and the handshake, during *)
(* which the task holds that lock for reading.                             *)
(***************************************************************************)
EXTENDS Naturals, Sequences, FiniteSets, SequencesExt

CONSTANTS
    Order,        \* the streams, in the order in which the application starts them
    Early,        \* those whose monitor ends when the core begins to stop
    Switchable,   \* those the user can switch: the log, by its level
    CoreMayHang,  \* TRUE if a core may leave a handshake unanswered for ever
    MaxStarts,    \* bound on the number of times the core is started
    MaxSwitches   \* bound on the number of times a stream is switched

Streams == Range(Order)

ASSUME StreamsAssumption ==
    /\ IsInjective(Order)
    /\ Early \subseteq Streams
    /\ Switchable \subseteq Streams
    /\ CoreMayHang \in BOOLEAN
    /\ MaxStarts \in Nat /\ MaxSwitches \in Nat

\* The tasks of the hub, named for the signal they wait for.
Start(s) == <<"start", s>>
Stop(s) == <<"stop", s>>
StopProcess == <<"stop", "process">>

Tasks == {Start(s) : s \in Streams} \cup {Stop(s) : s \in Streams} \cup {StopProcess}

VARIABLES
    app,         \* _coreState: "stopped", "running" or "stopping"
    silent,      \* the streams that are switched off
    monitoring,  \* per stream: _isMonitoring
    core,        \* the core's process: "down", "up" or "hung"
    inbox,       \* the signals the hub has not yet taken, in the order they were sent
    result,      \* a ClashProcessResult is on its way to the application
    task,        \* per task: what it waits for
    queue,       \* the tasks that wait for WS_CLIENT, in order
    client,      \* the number of the client in WS_CLIENT, 0 for None
    clients,     \* how many clients there have been
    nextId,      \* next_connection_id of the client
    idOf,        \* per task: the connection id it works on
    saved,       \* per stream: its connection id, 0 for None
    open,        \* the connections whose receiving task runs
    starts, switches

appVars == <<app, silent, monitoring, result, starts, switches>>
clientVars == <<client, clients, nextId, open>>
vars == <<appVars, core, inbox, task, queue, clientVars, idOf, saved>>

-----------------------------------------------------------------------------
Connection == [client: Nat, id: Nat, stream: Streams]

StreamsTypeOK ==
    /\ app \in {"stopped", "running", "stopping"}
    /\ silent \subseteq Switchable
    /\ monitoring \in [Streams -> BOOLEAN]
    /\ core \in {"down", "up", "hung"}
    /\ inbox \in Seq(Tasks)
    /\ result \in BOOLEAN
    /\ task \in [Tasks -> {"signal", "write", "read", "handshake", "answered"}]
    /\ queue \in Seq(Tasks) /\ IsInjective(queue)
    /\ Range(queue) = {t \in Tasks : task[t] \in {"write", "read"}}
    /\ client \in Nat /\ clients \in Nat /\ nextId \in Nat
    /\ idOf \in [Tasks -> Nat]
    /\ saved \in [Streams -> Nat]
    /\ open \subseteq Connection
    /\ starts \in Nat /\ switches \in Nat

StreamsInit ==
    /\ app = "stopped"
    /\ silent = {}
    /\ monitoring = [s \in Streams |-> FALSE]
    /\ core = "down"
    /\ inbox = <<>>
    /\ result = FALSE
    /\ task = [t \in Tasks |-> "signal"]
    /\ queue = <<>>
    /\ client = 0 /\ clients = 0 /\ nextId = 0
    /\ idOf = [t \in Tasks |-> 0]
    /\ saved = [s \in Streams |-> 0]
    /\ open = {}
    /\ starts = 0 /\ switches = 0

\* The tasks that hold the client's lock, for reading.
Handshaking == {t \in Tasks : task[t] \in {"handshake", "answered"}}

HubIdle == inbox = <<>> /\ \A t \in Tasks: task[t] = "signal"

-----------------------------------------------------------------------------
(***************************************************************************)
(* The application.  A monitor sends nothing when it is already in the     *)
(* state it is asked for.                                                  *)
(***************************************************************************)
Monitor(S, on) ==
    LET changed == SelectSeq(Order, LAMBDA s: s \in S /\ monitoring[s] # on)
    IN /\ monitoring' = [s \in Streams |-> IF s \in S THEN on ELSE monitoring[s]]
       /\ inbox' = inbox \o [i \in 1..Len(changed) |->
                              IF on THEN Start(changed[i]) ELSE Stop(changed[i])]

\* The core is up and its interface answers.  That takes a second or more: by then
\* whatever was connected to its predecessor has met the end of that process, and the
\* hub has handled the signals sent before.
CoreStarted ==
    /\ app = "stopped" /\ core = "down"
    /\ HubIdle /\ open = {}
    /\ starts < MaxStarts
    /\ starts' = starts + 1
    /\ app' = "running"
    /\ core' = "up"
    /\ Monitor(Streams \ silent, TRUE)
    /\ UNCHANGED <<silent, result, switches, task, queue, clientVars, idOf, saved>>

StopCore ==
    /\ app = "running"
    /\ app' = "stopping"
    /\ LET ended == SelectSeq(Order, LAMBDA s: s \in Early /\ monitoring[s])
       IN inbox' = inbox \o [i \in 1..Len(ended) |-> Stop(ended[i])] \o <<StopProcess>>
    /\ monitoring' = [s \in Streams |-> monitoring[s] /\ s \notin Early]
    /\ UNCHANGED <<silent, result, starts, switches, core, task, queue, clientVars, idOf, saved>>

CoreStopped ==
    /\ app = "stopping" /\ result
    /\ app' = "stopped"
    /\ result' = FALSE
    /\ Monitor(Streams, FALSE)
    /\ UNCHANGED <<silent, starts, switches, core, task, queue, clientVars, idOf, saved>>

\* The log level is set to silent or back, and saved.  The monitor follows when the core
\* has been told; the application may be stopping it when its answer comes.
Switch(s) ==
    /\ switches < MaxSwitches
    /\ switches' = switches + 1
    /\ silent' = IF s \in silent THEN silent \ {s} ELSE silent \cup {s}
    /\ IF app # "stopped" /\ core = "up"
       THEN Monitor({s}, s \in silent)
       ELSE UNCHANGED <<monitoring, inbox>>
    /\ UNCHANGED <<app, result, starts, core, task, queue, clientVars, idOf, saved>>

-----------------------------------------------------------------------------
(***************************************************************************)
(* The lock around the client, fair as tokio's RwLock.  A guard outlives   *)
(* an action only during a handshake.                                      *)
(***************************************************************************)
WaitFor(t, mode) ==
    /\ task' = [task EXCEPT ![t] = mode]
    /\ queue' = Append(queue, t)

\* A lock that is given for writing during a handshake.
MutantWriteDuringHandshake(t) ==
    /\ queue # <<>> /\ Head(queue) = t
    /\ task[t] = "write"

GrantedWrite(t) ==
    /\ queue # <<>> /\ Head(queue) = t
    /\ task[t] = "write"
    /\ Handshaking = {}

GrantedRead(t) ==
    /\ task[t] = "read"
    /\ \E i \in DOMAIN queue:
         /\ queue[i] = t
         /\ \A j \in 1..(i - 1): task[queue[j]] = "read"

Granted(t, next) ==
    /\ task' = [task EXCEPT ![t] = next]
    /\ queue' = Remove(queue, t)

\* A task that waits for its next signal is woken by it, and tasks run in the
\* order in which they were woken.
Taken(t) ==
    /\ task[t] = "signal"
    /\ \E i \in DOMAIN inbox:
         /\ inbox[i] = t
         /\ \A j \in 1..(i - 1): task[inbox[j]] # "signal"
         /\ inbox' = RemoveAt(inbox, i)

-----------------------------------------------------------------------------
(***************************************************************************)
(* Starting a stream.                                                      *)
(***************************************************************************)
TakeStart(s) ==
    /\ Taken(Start(s))
    /\ WaitFor(Start(s), "write")
    /\ UNCHANGED <<appVars, core, clientVars, idOf, saved>>

\* ensure_ws_client_initialized; the lock is given back and asked for again.
EnsureClient(s) ==
    /\ GrantedWrite(Start(s))
    /\ IF client = 0
       THEN client' = clients + 1 /\ clients' = clients + 1 /\ nextId' = 1
       ELSE UNCHANGED <<client, clients, nextId>>
    /\ task' = [task EXCEPT ![Start(s)] = "read"]
    /\ queue' = Append(Tail(queue), Start(s))
    /\ UNCHANGED <<appVars, core, inbox, idOf, saved, open>>

\* A client that is gone meanwhile ends the start without a word.
BeginHandshake(s) ==
    /\ GrantedRead(Start(s))
    /\ Granted(Start(s), IF client = 0 THEN "signal" ELSE "handshake")
    /\ idOf' = [idOf EXCEPT ![Start(s)] = IF client = 0 THEN 0 ELSE nextId]
    /\ nextId' = IF client = 0 THEN nextId ELSE nextId + 1
    /\ UNCHANGED <<appVars, core, inbox, client, clients, open, saved>>

HandshakeEnds(s) ==
    /\ task' = [task EXCEPT ![Start(s)] = "signal"]
    /\ idOf' = [idOf EXCEPT ![Start(s)] = 0]
    /\ UNCHANGED <<appVars, core, inbox, queue, client, clients, nextId>>

\* The receiving task is entered into the client's table, the id is saved.  The core
\* that has answered may be gone by now.
StreamOpens(s) ==
    /\ task[Start(s)] = "answered"
    /\ HandshakeEnds(s)
    /\ open' = open \cup {[client |-> client, id |-> idOf[Start(s)], stream |-> s]}
    /\ saved' = [saved EXCEPT ![s] = idOf[Start(s)]]

\* A handshake that is tried again until there is a core.
MutantTriesAgain(s) ==
    /\ task[Start(s)] = "handshake"
    /\ core = "up"
    /\ HandshakeEnds(s)
    /\ UNCHANGED <<open, saved>>

\* No pipe instance is free, the core refuses, or it is gone.
HandshakeFails(s) ==
    /\ task[Start(s)] = "handshake"
    /\ core # "hung"
    /\ HandshakeEnds(s)
    /\ UNCHANGED <<open, saved>>

-----------------------------------------------------------------------------
(***************************************************************************)
(* Stopping a stream, and stopping the core.                               *)
(***************************************************************************)
TakeStop(s) ==
    /\ Taken(Stop(s))
    /\ idOf' = [idOf EXCEPT ![Stop(s)] = saved[s]]
    /\ saved' = [saved EXCEPT ![s] = 0]
    /\ IF saved[s] = 0 THEN UNCHANGED <<task, queue>> ELSE WaitFor(Stop(s), "read")
    /\ UNCHANGED <<appVars, core, clientVars>>

\* An id the client does not know is only logged.
Disconnect(s) ==
    /\ GrantedRead(Stop(s))
    /\ Granted(Stop(s), "signal")
    /\ open' = {c \in open : ~(c.client = client /\ c.id = idOf[Stop(s)])}
    /\ idOf' = [idOf EXCEPT ![Stop(s)] = 0]
    /\ UNCHANGED <<appVars, core, inbox, client, clients, nextId, saved>>

TakeStopProcess ==
    /\ Taken(StopProcess)
    /\ WaitFor(StopProcess, "write")
    /\ UNCHANGED <<appVars, core, clientVars, idOf, saved>>

\* A cleanup that forgets the client and leaves its connections to themselves.
MutantConnectionsLeft ==
    /\ GrantedWrite(StopProcess)
    /\ Granted(StopProcess, "signal")
    /\ client' = 0
    /\ core' = "down"
    /\ result' = TRUE
    /\ UNCHANGED <<app, silent, monitoring, starts, switches, inbox, clients, nextId, idOf, saved, open>>

\* The client is taken out with its connections, then the process is stopped.
Cleanup ==
    /\ GrantedWrite(StopProcess)
    /\ Granted(StopProcess, "signal")
    /\ client' = 0
    /\ open' = {c \in open : c.client # client}
    /\ core' = "down"
    /\ result' = TRUE
    /\ UNCHANGED <<app, silent, monitoring, starts, switches, inbox, clients, nextId, idOf, saved>>

-----------------------------------------------------------------------------
(***************************************************************************)
(* The core.                                                               *)
(***************************************************************************)
CoreAnswers(s) ==
    /\ core = "up"
    /\ task[Start(s)] = "handshake"
    /\ task' = [task EXCEPT ![Start(s)] = "answered"]
    /\ UNCHANGED <<appVars, core, inbox, queue, clientVars, idOf, saved>>

CoreCrashes ==
    /\ core # "down"
    /\ core' = "down"
    /\ UNCHANGED <<appVars, inbox, task, queue, clientVars, idOf, saved>>

CoreHangs ==
    /\ CoreMayHang
    /\ core = "up"
    /\ core' = "hung"
    /\ UNCHANGED <<appVars, inbox, task, queue, clientVars, idOf, saved>>

\* The receiving task of a core that is gone ends and removes itself.
ConnectionEnds ==
    /\ core = "down"
    /\ \E c \in open: open' = open \ {c}
    /\ UNCHANGED <<appVars, core, inbox, task, queue, client, clients, nextId, idOf, saved>>

-----------------------------------------------------------------------------
HubStep(s) ==
    \/ TakeStart(s)
    \/ EnsureClient(s)
    \/ BeginHandshake(s)
    \/ StreamOpens(s)
    \/ HandshakeFails(s)
    \/ TakeStop(s)
    \/ Disconnect(s)

StopStep ==
    \/ TakeStopProcess
    \/ Cleanup
    \/ CoreStopped

StreamsNext ==
    \/ CoreStarted
    \/ StopCore
    \/ \E s \in Switchable: Switch(s)
    \/ \E s \in Streams: HubStep(s) \/ CoreAnswers(s)
    \/ StopStep
    \/ CoreCrashes
    \/ CoreHangs
    \/ ConnectionEnds

StreamsSpec == StreamsInit /\ [][StreamsNext]_vars

\* The hub's tasks go on, and the application takes its answers.  A handshake ends
\* if the core does not hang.
StreamsFairSpec ==
    /\ StreamsSpec
    /\ \A s \in Streams: WF_vars(HubStep(s))
    /\ WF_vars(StopStep)

-----------------------------------------------------------------------------
(***************************************************************************)
(* Safety.                                                                 *)
(***************************************************************************)

\* A connection never outlives its client: the cleanup waits for the handshakes
\* under way, so that none of them can enter a connection into a client that is
\* gone and that nobody could close any more.
ClientOwnsConnections ==
    \A c \in open: client # 0 /\ c.client = client

\* Handshakes may overlap, yet two connections of a client never share an id, so
\* that the table holds a handle for each.
IdsDiffer ==
    \A c, d \in open: c.client = d.client /\ c.id = d.id => c = d

(***************************************************************************)
(* Liveness.                                                               *)
(***************************************************************************)

\* A stop of the core ends, whatever starts, stops and handshakes are under way, unless
\* the core hangs (StopClashProcess, process_manager.rs:303, which begins with a cleanup
\* that waits for the handshakes).
StopEndsUnlessHung == app = "stopping" ~> app = "stopped" \/ core = "hung"

\* A stop that is handled during its own stream's handshake finds no id or an old one, and
\* leaves a stream open that nobody listens to, or closes another (handlers.rs:748, 775).
\* The stop of the core makes up for it: it leaves no stream of that core behind.
LeftOversEnd == app = "stopping" ~> open = {} \/ core = "hung"

=============================================================================
