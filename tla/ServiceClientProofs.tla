-------------------------- MODULE ServiceClientProofs --------------------------
(***************************************************************************)
(* Proofs about ServiceClient, for any set of calls, any number of         *)
(* retries and any bound.                                                  *)
(***************************************************************************)
EXTENDS ServiceClient, ServiceRunnerProofs

-----------------------------------------------------------------------------
(***************************************************************************)
(* The inductive invariant.                                                *)
(***************************************************************************)
\* A call that is still to send has a command the service knows.
ClientTypes ==
    /\ ClientTypeOK
    /\ \A c \in Clients : call[c].phase \in {"connect", "await"} => call[c].cmd \in Cmds

\* A task that is inside the lock is the writer or one of the readers.
Holders ==
    /\ \A i \in Conns : conn[i].st = "held" => writer = i \/ i \in readers
    /\ \A i \in readers : Reads(i)

\* Connections are opened one attempt after the other.
Unopened ==
    /\ \A c \in Clients : call[c].phase = "idle" => call[c].attempt = 0
    /\ \A c \in Clients : \A k \in Attempts :
          k > call[c].attempt \/ (k = call[c].attempt /\ call[c].phase \in {"idle", "connect"})
          => conn[<<c, k>>].st = "free"

\* What was over when a call began stays over.
PriorOver == \A c \in Clients : \A d \in call[c].prior : d # c /\ Over(d)

\* Once the command of a call is queued, what was sent before it is queued in front
\* of it; once it is inside the lock, nothing of that which writes is still to come.
InTurn(c, i) ==
    /\ conn[Socket(c)].st = "queued" =>
          conn[i].st # "inbox" /\ (conn[i].st = "queued" => i \in ahead[Socket(c)])
    /\ conn[Socket(c)].st \in {"held", "pid", "uptime", "done"} =>
          (conn[i].st \in {"inbox", "queued", "held"} => Reads(i))

Ordered ==
    \A c \in Clients :
       /\ call[c].phase \in {"await", "ok"} => \A i \in Before(c) : InTurn(c, i)
       /\ call[c].phase = "ok" => conn[Socket(c)].st = "done"

ClientInv ==
    /\ ClientTypes
    /\ Holders
    /\ Unopened
    /\ PriorOver
    /\ Ordered

-----------------------------------------------------------------------------
(***************************************************************************)
(* The service below the calls.                                            *)
(***************************************************************************)

\* A call's connection is one of the connections, and different from every
\* connection opened before it.
LEMMA Sockets ==
    ASSUME ClientTypes
    PROVE  /\ \A c \in Clients : Socket(c) \in Conns
           /\ \A c, d \in Clients : c # d => Socket(c) # Socket(d)
           /\ \A c \in Clients : call[c].attempt \in Nat /\ call[c].prior \subseteq Clients
           /\ Attempts \subseteq Nat /\ 0 \in Attempts
           /\ Conns = Clients \X Attempts
BY ClientAssumption DEF ClientAssumption, ClientTypes, ClientTypeOK, Socket, Attempts

\* At the start every call is idle.
LEMMA ClientTypesInit == ClientInit => ClientTypes
BY ClientAssumption
DEF ClientAssumption, ClientInit, ClientTypes, ClientTypeOK, CallPhases, AllCmds, Attempts

\* Every step leaves the calls well typed.
LEMMA ClientTypesStep == ClientTypes /\ [ClientNext]_clientVars => ClientTypes'
<1> SUFFICES ASSUME ClientTypes, [ClientNext]_clientVars
             PROVE  ClientTypes'
  OBVIOUS
<1> USE DEF ClientTypes, ClientTypeOK, CallPhases
<1>t. /\ Cmds \subseteq AllCmds
      /\ MaxRetries \in Nat
  BY RunnerAssumption, ClientAssumption DEF RunnerAssumption, ClientAssumption
<1>1. ASSUME NEW c \in Clients, NEW cmd \in Cmds, Begin(c, cmd)
      PROVE  ClientTypes'
  <2>1. {d \in Clients : Over(d)} \subseteq Clients /\ 0 \in Attempts /\ cmd \in AllCmds
    BY <1>t DEF Attempts
  <2> QED
    BY <1>1, <2>1 DEF Begin
<1>2. ASSUME NEW c \in Clients, GiveUp(c), call[c].phase \in {"connect", "await"}
      PROVE  ClientTypes'
  <2>1. call[c].attempt < MaxRetries => call[c].attempt + 1 \in Attempts
    BY <1>t DEF Attempts
  <2> QED
    BY <1>2, <2>1 DEF GiveUp
<1>3. ASSUME NEW c \in Clients, CallerStep(c)
      PROVE  ClientTypes'
  BY <1>2, <1>3 DEF CallerStep, Send, ConnectFails, AttemptFails, Receive
<1>4. CASE AppAborts
  BY <1>4 DEF AppAborts
<1>5. CASE UNCHANGED call
  BY <1>5
<1> QED
  BY <1>1, <1>3, <1>4, <1>5 DEF ClientNext, HandleInOrder, HandleAbandoned, clientVars

\* A step of the calls is a step of the service or leaves it alone.
LEMMA ServiceBelow == ClientTypes /\ [ClientNext]_clientVars => [Next]_vars
<1> SUFFICES ASSUME ClientTypes, [ClientNext]_clientVars
             PROVE  [Next]_vars
  OBVIOUS
<1>1. ASSUME NEW c \in Clients, NEW cmd \in Cmds, Begin(c, cmd)
      PROVE  [Next]_vars
  BY <1>1 DEF Begin
<1>2. ASSUME NEW c \in Clients, CallerStep(c)
      PROVE  [Next]_vars
  <2>1. ASSUME Send(c)
        PROVE  Next
    <3>1. Socket(c) \in Conns /\ call[c].cmd \in Cmds /\ Arrive(Socket(c), call[c].cmd)
      BY <2>1, Sockets DEF Send, ClientTypes
    <3> QED
      BY <3>1 DEF Next
  <2> QED
    BY <1>2, <2>1 DEF CallerStep, ConnectFails, AttemptFails, Receive
<1>3. ASSUME NEW c \in Clients, HandleInOrder(c)
      PROVE  Next
  <2>1. Socket(c) \in Conns /\ HandleCommand(Socket(c))
    BY <1>3, Sockets DEF HandleInOrder
  <2> QED
    BY <2>1 DEF Next
<1>4. ASSUME NEW i \in Conns, HandleAbandoned(i)
      PROVE  Next
  <2>1. HandleCommand(i)
    BY <1>4 DEF HandleAbandoned
  <2> QED
    BY <2>1 DEF Next
<1>5. CASE AppAborts \/ TaskStep \/ LifeStep \/ EnvStep \/ UNCHANGED vars
  BY <1>5 DEF AppAborts, Next
<1> QED
  BY <1>1, <1>2, <1>3, <1>4, <1>5 DEF ClientNext, clientVars

\* Whatever the calls do, retries and overlaps included, the service below them does
\* what ServiceRunner describes: all that is proved of it holds.
THEOREM ClientRefinesService == ClientSpec => Spec
<1>1. ClientInit => RunnerInit
  BY DEF ClientInit
<1> QED
  BY <1>1, ClientTypesInit, ClientTypesStep, ServiceBelow, PTL DEF ClientSpec, Spec

-----------------------------------------------------------------------------
(***************************************************************************)
(* How a task moves.                                                       *)
(***************************************************************************)

\* A task keeps its command; it stays where it is, is dropped, is granted the lock as
\* the first of its queue, or goes on inside the lock.
Moves(i) ==
    /\ conn'[i].cmd = conn[i].cmd
    /\ \/ conn'[i].st = conn[i].st
       \/ conn'[i].st = "dropped" /\ conn[i].st \notin {"free", "done", "dropped"}
       \/ conn[i].st = "queued" /\ conn'[i].st = "held" /\ First(i) /\ writer = NoTask
       \/ conn[i].st \in {"held", "pid", "uptime"} /\ conn'[i].st \in {"pid", "uptime", "done"}

\* The steps that neither bring a command nor queue it.
Inner == TaskStep \/ LifeStep \/ EnvStep \/ AppExits \/ UNCHANGED vars

\* An inner step moves each task as described.
LEMMA InnerMoves ==
    ASSUME RunnerTypeOK, LockDiscipline, Inner, NEW i \in Conns
    PROVE  Moves(i)
<1> USE DEF Moves
<1>t. /\ conn \in [Conns -> Connection]
      /\ NoTask \notin Conns
      /\ i \in Conns
  BY RunnerAssumption DEF RunnerAssumption, RunnerTypeOK
<1>1. ASSUME NEW t \in Tasks, AcquireWrite(t)
      PROVE  Moves(i)
  BY <1>t, <1>1 DEF AcquireWrite, ConnHeld, First, LockFree, LockDiscipline, Connection
<1>2. ASSUME NEW j \in Conns, AcquireRead(j)
      PROVE  Moves(i)
  BY <1>t, <1>2 DEF AcquireRead, ConnHeld, First, LockDiscipline, Connection
<1>3. ASSUME NEW j \in Conns, AnswerCall(j)
      PROVE  Moves(i)
  BY <1>t, <1>3 DEF AnswerCall, LockDiscipline, Connection
<1>4. ASSUME NEW j \in Conns, StatusStep(j)
      PROVE  Moves(i)
  BY <1>t, <1>4 DEF StatusStep, StatusNotRunning, StatusRunning, StatusPid, StatusUptime, Connection
<1>5. CASE DropRuntime \/ ServiceKilled \/ ProcessExits
  BY <1>t, <1>5 DEF DropRuntime, ServiceKilled, ProcessExits, ProcessGone, Unanswered, Connection
<1>6. CASE UNCHANGED conn
  BY <1>6
<1> QED
  BY <1>1, <1>2, <1>3, <1>4, <1>5, <1>6 DEF Inner, TaskStep, LifeStep, EnvStep, CallStep, MonitorCheck,
     MonitorSeesSuspend, MonitorContent, MonitorAlarmed, MonitorStopped, Boot, StopRequested,
     ShutdownStopped, ShutdownTimesOut, ManagerDropped, IpcServerFails, Heartbeat, Tick, Suspend,
     Advance, AppStarts, AppExits, CoreEnds, vars

\* An inner step lets nobody overtake: who is queued in front of a task stays there
\* while both are queued.
LEMMA InnerKeepsOrder ==
    ASSUME RunnerTypeOK, LockDiscipline, LockDiscipline', Inner, NEW s \in Conns, NEW i \in Conns,
           i \in ahead[s], conn'[s].st = "queued", conn'[i].st = "queued"
    PROVE  i \in ahead'[s]
<1>t. /\ ahead \in [Tasks -> SUBSET Tasks] /\ s \in Tasks /\ i \in Tasks
      /\ Monitor \notin Conns /\ Shutdown \notin Conns
      /\ s \in waiting' /\ i \in waiting'
  BY RunnerAssumption DEF RunnerAssumption, RunnerTypeOK, LockDiscipline, Tasks
<1>1. ASSUME NEW T, LeaveQueue(T)
      PROVE  i \in ahead'[s]
  BY <1>t, <1>1 DEF LeaveQueue
<1>2. ASSUME NEW t \in Tasks, t \notin Conns, Queue(t)
      PROVE  i \in ahead'[s]
  BY <1>t, <1>2 DEF Queue
<1>3. CASE UNCHANGED ahead
  BY <1>3
<1>4. Monitor \in Tasks /\ Shutdown \in Tasks
  BY DEF Tasks
<1>5. CASE TaskStep
  BY <1>t, <1>1, <1>2, <1>3, <1>4, <1>5 DEF TaskStep, AcquireWrite, AcquireRead, AnswerCall, Unlock,
     StatusStep, StatusNotRunning, StatusRunning, StatusPid, StatusUptime, CallStep, MonitorCheck,
     MonitorSeesSuspend, MonitorContent, MonitorAlarmed, MonitorStopped, lockVars, queueVars
<1>6. CASE LifeStep
  BY <1>t, <1>1, <1>2, <1>3, <1>4, <1>6 DEF LifeStep, Boot, StopRequested, ShutdownStopped,
     ShutdownTimesOut, DropRuntime, ManagerDropped, Unlock, ServiceKilled, ProcessExits, ProcessGone, IpcServerFails,
     lockVars, queueVars
<1>7. CASE EnvStep \/ AppExits \/ UNCHANGED vars
  BY <1>3, <1>7 DEF EnvStep, Heartbeat, Tick, Suspend, Advance, AppStarts, AppExits, CoreEnds, vars,
     lockVars, queueVars
<1> QED
  BY <1>5, <1>6, <1>7 DEF Inner

-----------------------------------------------------------------------------
(***************************************************************************)
(* The invariant is kept.                                                  *)
(***************************************************************************)

\* A task inside the lock holds it.
LEMMA HoldersStep ==
    ASSUME RunnerTypeOK, LockDiscipline, Holders, [Next]_vars
    PROVE  Holders'
<1> USE DEF Holders, LockDiscipline
<1>t. /\ conn \in [Conns -> Connection]
      /\ readers \subseteq Conns
      /\ NoTask \notin Conns /\ Monitor \notin Conns /\ Shutdown \notin Conns
  BY RunnerAssumption DEF RunnerAssumption, RunnerTypeOK
<1>1. ASSUME NEW t \in Tasks, AcquireWrite(t)
      PROVE  Holders'
  BY <1>t, <1>1 DEF AcquireWrite, ConnHeld, LockFree, Connection, Reads
<1>2. ASSUME NEW i \in Conns, AcquireRead(i)
      PROVE  Holders'
  BY <1>t, <1>2 DEF AcquireRead, ConnHeld, Connection, Reads
<1>3. ASSUME NEW i \in Conns, AnswerCall(i)
      PROVE  Holders'
  BY <1>t, <1>3 DEF AnswerCall, Unlock, Connection, Reads
<1>4. ASSUME NEW i \in Conns, StatusStep(i)
      PROVE  Holders'
  BY <1>t, <1>4 DEF StatusStep, StatusNotRunning, StatusRunning, StatusPid, StatusUptime, lockVars,
     Connection, Reads
<1>5. CASE DropRuntime \/ ServiceKilled \/ ProcessExits
  BY <1>t, <1>5 DEF DropRuntime, ServiceKilled, ProcessExits, ProcessGone, LockFree, Unanswered, Connection, Reads
<1>6. CASE MonitorStopped \/ ShutdownStopped \/ ManagerDropped
  BY <1>t, <1>6 DEF MonitorStopped, ShutdownStopped, ManagerDropped, Unlock, Reads
<1>7. CASE UNCHANGED <<conn, writer, readers>>
  BY <1>7 DEF Reads
<1>8. ASSUME NEW i \in Conns, NEW cmd \in Cmds, Arrive(i, cmd)
      PROVE  Holders'
  BY <1>t, <1>8 DEF Arrive, lockVars, Connection, Reads
<1>9. ASSUME NEW i \in Conns, HandleCommand(i)
      PROVE  Holders'
  BY <1>t, <1>9 DEF HandleCommand, Connection, Reads
<1> QED
  BY <1>1, <1>2, <1>3, <1>4, <1>5, <1>6, <1>7, <1>8, <1>9 DEF Next, TaskStep, LifeStep, EnvStep,
     CallStep, MonitorCheck, MonitorSeesSuspend, MonitorContent, MonitorAlarmed, Boot, StopRequested,
     ShutdownTimesOut, IpcServerFails, Heartbeat, Tick, Suspend, Advance, AppStarts, AppExits,
     CoreEnds, vars, lockVars

\* A step that only concerns the service leaves the connections that were not opened
\* as they are.
LEMMA FreeStays ==
    ASSUME RunnerTypeOK, LockDiscipline, NEW j \in Conns, conn[j].st = "free",
           \/ Inner
           \/ \E i \in Conns : HandleCommand(i)
           \/ \E i \in Conns \ {j} : \E cmd \in AllCmds : Arrive(i, cmd)
    PROVE  conn'[j].st = "free"
<1>t. conn \in [Conns -> Connection]
  BY DEF RunnerTypeOK
<1>1. CASE Inner
  BY <1>1, InnerMoves DEF Moves
<1>2. CASE \E i \in Conns : HandleCommand(i)
  BY <1>t, <1>2 DEF HandleCommand, Connection
<1>3. CASE \E i \in Conns \ {j} : \E cmd \in AllCmds : Arrive(i, cmd)
  BY <1>t, <1>3 DEF Arrive, Connection
<1> QED
  BY <1>1, <1>2, <1>3

\* Connections go on being opened one attempt after the other.
LEMMA UnopenedStep ==
    ASSUME RunnerTypeOK, LockDiscipline, ClientTypes, Unopened, [ClientNext]_clientVars
    PROVE  Unopened'
<1> USE DEF Unopened
<1>t. /\ call \in [Clients -> [phase: CallPhases, cmd: AllCmds, attempt: Attempts, prior: SUBSET Clients]]
      /\ Cmds \subseteq AllCmds
  BY RunnerAssumption DEF RunnerAssumption, ClientTypes, ClientTypeOK
<1>k. \A c \in Clients, k \in Attempts : <<c, k>> \in Conns /\ k \in Nat
  BY Sockets
<1>1. ASSUME NEW c \in Clients, NEW cmd \in Cmds, Begin(c, cmd)
      PROVE  Unopened'
  <2>1. conn' = conn
    BY <1>1 DEF Begin, vars
  <2> QED
    BY <1>t, <1>1, <2>1 DEF Begin
<1>2. ASSUME NEW c \in Clients, GiveUp(c), call[c].phase \in {"connect", "await"}, UNCHANGED vars
      PROVE  Unopened'
  <2>1. conn' = conn /\ call[c].attempt \in Nat
    BY <1>2, Sockets DEF vars
  <2>2. ASSUME NEW d \in Clients, NEW k \in Attempts,
               \/ k > call'[d].attempt
               \/ k = call'[d].attempt /\ call'[d].phase \in {"idle", "connect"}
        PROVE  conn'[<<d, k>>].st = "free"
    BY <1>t, <1>k, <1>2, <2>1, <2>2 DEF GiveUp
  <2>3. ASSUME NEW d \in Clients, call'[d].phase = "idle"
        PROVE  call'[d].attempt = 0
    BY <1>t, <1>2, <2>3 DEF GiveUp
  <2> QED
    BY <2>2, <2>3
<1>3. ASSUME NEW c \in Clients, Send(c)
      PROVE  Unopened'
  <2>1. /\ Arrive(Socket(c), call[c].cmd) /\ call[c].cmd \in AllCmds
        /\ Socket(c) = <<c, call[c].attempt>> /\ Socket(c) \in Conns
    BY <1>t, <1>3, Sockets DEF Send, Socket
  <2>2. ASSUME NEW d \in Clients, NEW k \in Attempts,
               \/ k > call'[d].attempt
               \/ k = call'[d].attempt /\ call'[d].phase \in {"idle", "connect"}
        PROVE  conn'[<<d, k>>].st = "free"
    <3>1. conn[<<d, k>>].st = "free" /\ <<d, k>> # Socket(c)
      BY <1>t, <1>k, <1>3, <2>1, <2>2, Sockets DEF Send
    <3> QED
      BY <1>k, <2>1, <3>1, FreeStays
  <2> QED
    BY <1>t, <1>3, <2>2 DEF Send
<1>4. ASSUME NEW c \in Clients, Receive(c)
      PROVE  Unopened'
  <2>1. conn' = conn
    BY <1>4 DEF Receive, vars
  <2> QED
    BY <1>t, <1>4, <2>1 DEF Receive
<1>5. CASE AppAborts
  <2>1. conn' = conn
    BY <1>5 DEF AppAborts, AppExits
  <2> QED
    BY <1>t, <1>5, <2>1 DEF AppAborts
<1>6. ASSUME UNCHANGED call, Inner \/ \E i \in Conns : HandleCommand(i)
      PROVE  Unopened'
  BY <1>k, <1>6, FreeStays
<1>7. ASSUME NEW c \in Clients, HandleInOrder(c)
      PROVE  \E i \in Conns : HandleCommand(i)
  BY <1>7, Sockets DEF HandleInOrder
<1> QED
  BY <1>1, <1>2, <1>3, <1>4, <1>5, <1>6, <1>7
  DEF ClientNext, CallerStep, ConnectFails, AttemptFails, HandleInOrder, HandleAbandoned, Inner, clientVars

\* What is over stays over.
LEMMA PriorOverStep ==
    ASSUME ClientTypes, PriorOver, [ClientNext]_clientVars
    PROVE  PriorOver'
<1> USE DEF PriorOver, Over
<1>t. /\ call \in [Clients -> [phase: CallPhases, cmd: AllCmds, attempt: Attempts, prior: SUBSET Clients]]
  BY DEF ClientTypes, ClientTypeOK
<1>1. ASSUME NEW c \in Clients, NEW cmd \in Cmds, Begin(c, cmd)
      PROVE  PriorOver'
  BY <1>t, <1>1 DEF Begin
<1>2. ASSUME NEW c \in Clients, CallerStep(c)
      PROVE  PriorOver'
  BY <1>t, <1>2 DEF CallerStep, Send, ConnectFails, AttemptFails, Receive, GiveUp
<1>3. CASE AppAborts
  BY <1>t, <1>3 DEF AppAborts
<1>4. CASE UNCHANGED call
  BY <1>4
<1> QED
  BY <1>1, <1>2, <1>3, <1>4 DEF ClientNext, HandleInOrder, HandleAbandoned, clientVars

\* What was sent before a call's current connection is another connection, and no
\* connection the call or an earlier one may still send on.
LEMMA Earlier ==
    ASSUME ClientTypes, PriorOver, NEW c \in Clients, NEW i \in Before(c)
    PROVE  /\ i \in Conns /\ i # Socket(c)
           /\ i[1] \in Clients /\ i[2] \in Attempts
           /\ i[2] < call[i[1]].attempt \/ Over(i[1])
           /\ \A d \in Clients : call[d].phase \in {"connect", "await"} /\ i = Socket(d) => FALSE
<1>t. /\ call[c].attempt \in Attempts /\ Attempts = 0..MaxRetries /\ MaxRetries \in Nat
      /\ call[c].prior \subseteq Clients
      /\ \A d \in Clients : call[d].attempt \in Nat
      /\ Conns = Clients \X Attempts
  BY ClientAssumption DEF ClientAssumption, ClientTypes, ClientTypeOK, Attempts
<1>1. CASE i \in {<<c, k>> : k \in 0..(call[c].attempt - 1)}
  <2>1. PICK k \in 0..(call[c].attempt - 1) : i = <<c, k>>
    BY <1>1
  <2>2. k \in Attempts /\ k < call[c].attempt
    BY <1>t, <2>1
  <2> QED
    BY <1>t, <2>1, <2>2 DEF Socket
<1>2. CASE i \in call[c].prior \X Attempts
  <2>1. PICK d \in call[c].prior, k \in Attempts : i = <<d, k>>
    BY <1>2
  <2>2. d # c /\ Over(d) /\ d \in Clients
    BY <1>t, <2>1 DEF PriorOver
  <2> QED
    BY <1>t, <2>1, <2>2 DEF Socket, Over
<1> QED
  BY <1>1, <1>2 DEF Before

\* A pair of tasks keeps its order in an inner step: the later one is not granted the
\* lock while the earlier one is on its way to it.
LEMMA PairStep ==
    ASSUME RunnerTypeOK, LockDiscipline, LockDiscipline', Holders, Inner,
           NEW c \in Clients, Socket(c) \in Conns, NEW i \in Conns, InTurn(c, i),
           Socket(c)' = Socket(c)
    PROVE  InTurn(c, i)'
<1> DEFINE s == Socket(c)
<1>m. Moves(s) /\ Moves(i)
  BY InnerMoves
<1>r. Reads(i) => Reads(i)'
  BY <1>m DEF Moves, Reads
<1>1. ASSUME conn'[s].st = "queued"
      PROVE  conn'[i].st # "inbox" /\ (conn'[i].st = "queued" => i \in ahead'[s])
  <2>1. conn[s].st = "queued"
    BY <1>1, <1>m DEF Moves
  <2>2. conn[i].st # "inbox" /\ (conn[i].st = "queued" => i \in ahead[s])
    BY <2>1 DEF InTurn
  <2>3. conn'[i].st # "inbox" /\ (conn'[i].st = "queued" => conn[i].st = "queued")
    BY <2>2, <1>m DEF Moves
  <2> QED
    BY <1>1, <2>2, <2>3, InnerKeepsOrder
<1>2. ASSUME conn'[s].st \in {"held", "pid", "uptime", "done"},
             conn'[i].st \in {"inbox", "queued", "held"}
      PROVE  Reads(i)
  <2>1. CASE conn[s].st \in {"held", "pid", "uptime", "done"}
    BY <1>2, <1>m, <2>1 DEF Moves, InTurn
  <2>2. CASE conn[s].st \notin {"held", "pid", "uptime", "done"}
    <3>1. conn[s].st = "queued" /\ ahead[s] = {} /\ writer = NoTask
      BY <1>2, <1>m, <2>2 DEF Moves, First
    <3>2. conn[i].st \notin {"inbox", "queued"}
      BY <3>1 DEF InTurn
    <3>3. conn[i].st = "held"
      BY <1>2, <1>m, <3>2 DEF Moves
    <3>4. writer # i
      BY <3>1, RunnerAssumption DEF RunnerAssumption
    <3> QED
      BY <3>3, <3>4 DEF Holders
  <2> QED
    BY <2>1, <2>2
<1>3. s = Socket(c) /\ Socket(c)' = s
  OBVIOUS
<1> QED
  BY <1>1, <1>2, <1>3, <1>r DEF InTurn

\* The order is kept by what the service does by itself.
LEMMA OrderedInner ==
    ASSUME RunnerTypeOK, LockDiscipline, LockDiscipline', Holders, ClientTypes, PriorOver,
           Ordered, Inner, UNCHANGED call
    PROVE  Ordered'
<1>1. ASSUME NEW c \in Clients
      PROVE  Socket(c)' = Socket(c) /\ Before(c)' = Before(c) /\ Socket(c) \in Conns
  BY Sockets DEF Socket, Before
<1>2. ASSUME NEW c \in Clients, call'[c].phase \in {"await", "ok"}, NEW i \in Before(c)'
      PROVE  InTurn(c, i)'
  <2>1. i \in Before(c) /\ InTurn(c, i) /\ i \in Conns
    BY <1>1, <1>2, Earlier DEF Ordered
  <2> QED
    BY <1>1, <2>1, PairStep
<1>3. ASSUME NEW c \in Clients, call'[c].phase = "ok"
      PROVE  conn'[Socket(c)'].st = "done"
  <2>1. conn[Socket(c)].st = "done"
    BY <1>3 DEF Ordered
  <2> QED
    BY <1>1, <2>1, InnerMoves DEF Moves
<1> QED
  BY <1>2, <1>3 DEF Ordered

\* The order is kept when a task joins the queue, if what was sent before it has
\* joined already.
LEMMA OrderedQueues ==
    ASSUME RunnerTypeOK, LockDiscipline, ClientTypes, PriorOver, Ordered, UNCHANGED call,
           NEW j \in Conns, HandleCommand(j),
           \A c \in Clients : call[c].phase = "await" /\ j = Socket(c) =>
              \A i \in Before(c) : conn[i].st # "inbox"
    PROVE  Ordered'
<1>t. /\ conn \in [Conns -> Connection] /\ ahead \in [Tasks -> SUBSET Tasks] /\ j \in Tasks
      /\ conn[j].st = "inbox"
      /\ conn' = [conn EXCEPT ![j].st = "queued"] /\ ahead' = [ahead EXCEPT ![j] = waiting]
  BY DEF RunnerTypeOK, HandleCommand, Queue, Tasks
<1>1. ASSUME NEW c \in Clients
      PROVE  Socket(c)' = Socket(c) /\ Before(c)' = Before(c) /\ Socket(c) \in Conns
  BY Sockets DEF Socket, Before
<1>2. ASSUME NEW i \in Conns
      PROVE  /\ Reads(i)' = Reads(i)
             /\ i # j => conn'[i].st = conn[i].st
             /\ conn'[j].st = "queued"
  BY <1>t DEF Connection, Reads
<1>3. ASSUME NEW c \in Clients, call'[c].phase = "ok"
      PROVE  conn'[Socket(c)'].st = "done"
  <2>1. conn[Socket(c)].st = "done"
    BY <1>3 DEF Ordered
  <2> QED
    BY <1>1, <1>2, <1>t, <2>1
<1>4. ASSUME NEW c \in Clients, call'[c].phase \in {"await", "ok"}, NEW i \in Before(c)'
      PROVE  InTurn(c, i)'
  <2> DEFINE s == Socket(c)
  <2>1. i \in Before(c) /\ InTurn(c, i) /\ i \in Conns /\ i # s /\ s \in Conns /\ s \in Tasks
    BY <1>1, <1>4, Earlier DEF Ordered, Tasks
  <2>2. CASE s = j
    <3>1. call[c].phase = "await"
      BY <1>t, <1>4, <2>2 DEF Ordered
    <3>2. conn[i].st # "inbox" /\ (conn[i].st = "queued" => i \in waiting)
      BY <2>1, <2>2, <3>1 DEF LockDiscipline
    <3>3. conn'[i].st = conn[i].st /\ conn'[s].st = "queued" /\ ahead'[s] = waiting
      BY <1>t, <1>2, <2>1, <2>2
    <3> QED
      BY <1>1, <3>2, <3>3 DEF InTurn
  <2>3. CASE s # j
    <3>1. conn'[s].st = conn[s].st /\ ahead'[s] = ahead[s]
      BY <1>t, <1>2, <2>1, <2>3
    <3>2. conn'[i].st = conn[i].st \/ (conn[i].st = "inbox" /\ conn'[i].st = "queued")
      BY <1>t, <1>2, <2>1
    <3> QED
      BY <1>1, <1>2, <2>1, <3>1, <3>2 DEF InTurn
  <2> QED
    BY <2>2, <2>3
<1> QED
  BY <1>3, <1>4 DEF Ordered

\* The order is kept by what the callers do.
LEMMA OrderedCalls ==
    ASSUME RunnerTypeOK, ClientTypes, PriorOver, Ordered,
           \/ \E c \in Clients : CallerStep(c) \/ \E cmd \in Cmds : Begin(c, cmd)
           \/ AppAborts
    PROVE  Ordered'
<1>t. /\ call \in [Clients -> [phase: CallPhases, cmd: AllCmds, attempt: Attempts, prior: SUBSET Clients]]
      /\ conn \in [Conns -> Connection]
  BY DEF ClientTypes, ClientTypeOK, RunnerTypeOK
\* A call that waits or has succeeded after the step did so before, on the same
\* connection.
<1>1. ASSUME UNCHANGED vars,
             \A d \in Clients :
                /\ call'[d].phase \in {"await", "ok"} =>
                     /\ call[d].phase \in {"await", "ok"}
                     /\ call'[d].attempt = call[d].attempt /\ call'[d].prior = call[d].prior
                /\ call'[d].phase = "ok" => conn[Socket(d)].st = "done"
      PROVE  Ordered'
  <2>1. conn' = conn /\ ahead' = ahead
    BY <1>1 DEF vars, lockVars, queueVars
  <2>2. ASSUME NEW d \in Clients, call'[d].phase \in {"await", "ok"}
        PROVE  Socket(d)' = Socket(d) /\ Before(d)' = Before(d)
    BY <1>1, <2>2 DEF Socket, Before
  <2>3. \A d \in Clients : \A i : Socket(d)' = Socket(d) => InTurn(d, i)' = InTurn(d, i)
    BY <2>1 DEF InTurn, Reads
  <2>4. ASSUME NEW d \in Clients, call'[d].phase \in {"await", "ok"}, NEW i \in Before(d)'
        PROVE  InTurn(d, i)'
    BY <1>1, <2>2, <2>3, <2>4 DEF Ordered
  <2>5. ASSUME NEW d \in Clients, call'[d].phase = "ok"
        PROVE  conn'[Socket(d)'].st = "done"
    BY <1>1, <2>1, <2>2, <2>5
  <2> QED
    BY <2>4, <2>5 DEF Ordered
<1>2. ASSUME NEW c \in Clients, NEW cmd \in Cmds, Begin(c, cmd)
      PROVE  Ordered'
  BY <1>t, <1>1, <1>2 DEF Begin, Ordered
<1>3. ASSUME NEW c \in Clients, ConnectFails(c) \/ AttemptFails(c)
      PROVE  Ordered'
  BY <1>t, <1>1, <1>3 DEF ConnectFails, AttemptFails, GiveUp, Ordered
<1>4. ASSUME NEW c \in Clients, Receive(c)
      PROVE  Ordered'
  BY <1>t, <1>1, <1>4 DEF Receive, Ordered
<1>5. CASE AppAborts
  <2>1. conn' = conn /\ ahead' = ahead
    BY <1>5 DEF AppAborts, AppExits, lockVars, queueVars
  <2>2. ASSUME NEW d \in Clients, call'[d].phase \in {"await", "ok"}
        PROVE  call'[d] = call[d]
    BY <1>t, <1>5, <2>2 DEF AppAborts
  <2> QED
    BY <2>1, <2>2 DEF Ordered, InTurn, Socket, Before, Reads
<1>6. ASSUME NEW c \in Clients, Send(c)
      PROVE  Ordered'
  <2>1. /\ Socket(c) \in Conns /\ call[c].phase = "connect"
        /\ conn' = [conn EXCEPT ![Socket(c)].cmd = call[c].cmd, ![Socket(c)].st = "inbox"]
        /\ ahead' = ahead
    BY <1>6, Sockets DEF Send, Arrive, lockVars, queueVars
  <2>2. \A d \in Clients : Socket(d)' = Socket(d) /\ Before(d)' = Before(d)
    BY <1>t, <1>6 DEF Send, Socket, Before
  <2>3. \A i \in Conns : i # Socket(c) => conn'[i] = conn[i]
    BY <1>t, <2>1
  <2>4. ASSUME NEW d \in Clients, d # c
        PROVE  /\ call'[d] = call[d] /\ Socket(d) # Socket(c) /\ Socket(d) \in Conns
               /\ \A i \in Before(d) : i \in Conns /\ i # Socket(c)
    BY <1>t, <1>6, <2>1, <2>4, Sockets, Earlier DEF Send
  <2>5. conn'[Socket(c)].st = "inbox" /\ call'[c].phase = "await"
    BY <1>t, <1>6, <2>1 DEF Send, Connection
  <2>6. ASSUME NEW d \in Clients, call'[d].phase \in {"await", "ok"}, NEW i \in Before(d)'
        PROVE  InTurn(d, i)'
    <3>1. CASE d = c
      BY <2>2, <2>5, <3>1 DEF InTurn
    <3>2. CASE d # c
      <4>1. InTurn(d, i) /\ conn'[i] = conn[i] /\ conn'[Socket(d)] = conn[Socket(d)]
        BY <2>2, <2>3, <2>4, <2>6, <3>2 DEF Ordered
      <4> QED
        BY <2>1, <2>2, <4>1 DEF InTurn, Reads
    <3> QED
      BY <3>1, <3>2
  <2>7. ASSUME NEW d \in Clients, call'[d].phase = "ok"
        PROVE  conn'[Socket(d)'].st = "done"
    <3>1. d # c
      BY <2>5, <2>7
    <3> QED
      BY <2>2, <2>3, <2>4, <2>7, <3>1 DEF Ordered
  <2> QED
    BY <2>6, <2>7 DEF Ordered
<1> QED
  BY <1>2, <1>3, <1>4, <1>5, <1>6 DEF CallerStep

\* The order is kept by every step.
LEMMA OrderedStep ==
    ASSUME RunnerTypeOK, LockDiscipline, LockDiscipline', ClientInv, [ClientNext]_clientVars
    PROVE  Ordered'
<1> USE DEF ClientInv
<1>1. ASSUME NEW c \in Clients, HandleInOrder(c)
      PROVE  Ordered'
  <2>1. Socket(c) \in Conns /\ \A d \in Clients : Socket(d) = Socket(c) => d = c
    BY Sockets
  <2> QED
    BY <1>1, <2>1, OrderedQueues DEF HandleInOrder
<1>2. ASSUME NEW i \in Conns, HandleAbandoned(i)
      PROVE  Ordered'
  <2>1. ASSUME NEW c \in Clients, call[c].phase = "await", i = Socket(c)
        PROVE  FALSE
    <3>1. i[1] = c /\ i[2] = call[c].attempt /\ call[c].attempt \in Nat
      BY <2>1, Sockets DEF Socket
    <3> QED
      BY <1>2, <2>1, <3>1 DEF HandleAbandoned, Over
  <2> QED
    BY <1>2, <2>1, OrderedQueues DEF HandleAbandoned
<1>3. CASE Inner /\ UNCHANGED call
  BY <1>3, OrderedInner
<1>4. CASE \/ \E c \in Clients : CallerStep(c) \/ \E cmd \in Cmds : Begin(c, cmd)
           \/ AppAborts
  BY <1>4, OrderedCalls
<1> QED
  BY <1>1, <1>2, <1>3, <1>4 DEF ClientNext, Inner, clientVars

-----------------------------------------------------------------------------
(***************************************************************************)
(* The theorems.                                                           *)
(***************************************************************************)

\* At the start no connection is open.
LEMMA ClientInvInit == ClientInit => ClientInv
<1> SUFFICES ASSUME ClientInit
             PROVE  ClientInv
  OBVIOUS
<1>1. ClientTypes
  BY ClientTypesInit
<1>2. /\ \A i \in Conns : conn[i] = NewConn
      /\ readers = {}
      /\ \A c \in Clients : call[c].phase = "idle" /\ call[c].attempt = 0 /\ call[c].prior = {}
  BY DEF ClientInit, RunnerInit
<1>3. \A c \in Clients, k \in Attempts : <<c, k>> \in Conns
  BY <1>1, Sockets
<1> QED
  BY <1>1, <1>2, <1>3 DEF ClientInv, Holders, Unopened, PriorOver, Ordered, NewConn

\* The invariant is kept by every step.
LEMMA ClientInvStep ==
    ASSUME IInv, IInv', ClientInv, [ClientNext]_clientVars
    PROVE  ClientInv'
<1>1. RunnerTypeOK /\ LockDiscipline /\ LockDiscipline' /\ ClientTypes /\ [Next]_vars
  BY ServiceBelow DEF IInv, ClientInv
<1>2. ClientTypes'
  BY <1>1, ClientTypesStep
<1>3. Holders'
  BY <1>1, HoldersStep DEF ClientInv
<1>4. Unopened'
  BY <1>1, UnopenedStep DEF ClientInv
<1>5. PriorOver'
  BY <1>1, PriorOverStep DEF ClientInv
<1>6. Ordered'
  BY <1>1, OrderedStep
<1> QED
  BY <1>2, <1>3, <1>4, <1>5, <1>6 DEF ClientInv

\* The calls, their connections and the queue of the lock keep to the invariant.
THEOREM ClientInductive == ClientSpec => []ClientInv
<1>1. IInv /\ IInv' /\ ClientInv /\ [ClientNext]_clientVars => ClientInv'
  BY ClientInvStep
<1> QED
  BY <1>1, ClientInvInit, ClientRefinesService, Inductive, PTL DEF ClientSpec

\* When a call has succeeded, no command of an earlier attempt or of an earlier call
\* is still going to start or stop a core (client.rs retries on a new connection while
\* the service goes on with the old one).
THEOREM AnswerAlwaysFinal == ClientSpec => []AnswerIsFinal
<1>1. ClientInv => AnswerIsFinal
  BY DEF ClientInv, Ordered, InTurn, AnswerIsFinal
<1> QED
  BY <1>1, ClientInductive, PTL

=============================================================================
