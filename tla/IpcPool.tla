------------------------------ MODULE IpcPool -------------------------------
(***************************************************************************)
(* The hub's requests to the core's interface                              *)
(* (native/hub/src/molecules/clash_network/handlers.rs, ipc_client.rs,     *)
(* connection.rs) and the delay tests' own client                          *)
(* (native/hub/src/atoms/ipc_client/client.rs).  Each request is a task    *)
(* with retries; connections are kept in two pools, one per client, and    *)
(* are taken from the front and given back to the end.  The hub has one    *)
(* thread and no pool operation awaits while it holds the lock, so that    *)
(* each of them is one step.                                               *)
(***************************************************************************)
EXTENDS Naturals, FiniteSets, SequencesExt

CONSTANTS
    Requests,      \* the ids of the requests of the application
    Updates,       \* those of them that are PUT requests
    Tests,         \* the delay tests, each of them repeated any number of times
    Conns,         \* names for the connections that are open at one time
    NoConn,
    MaxPool,       \* MAX_POOL_SIZE
    MaxConnecting, \* MAX_CONCURRENT_CONNECTIONS, of the requests
    MaxConnects,   \* MAX_CONNECT_RETRIES
    MaxRetries,    \* MAX_RETRIES
    Windows,
    CoreMayHang,
    MaxFaults      \* bound: how often the core ends, hangs or loses a connection

ASSUME PoolAssumption ==
    /\ Updates \subseteq Requests
    /\ Requests \cap Tests = {}
    /\ NoConn \notin Conns
    /\ MaxPool \in Nat /\ MaxRetries \in Nat /\ MaxFaults \in Nat
    /\ MaxConnecting \in Nat \ {0} /\ MaxConnects \in Nat \ {0}
    /\ Windows \in BOOLEAN /\ CoreMayHang \in BOOLEAN

Tasks == Requests \cup Tests

VARIABLES
    task,       \* per task: its phase, attempt, connection tries and connection
    updates,    \* CONFIG_UPDATE_SEMAPHORE: the PUTs that want it, the first has it
    connecting, \* CONNECTION_SEMAPHORE: those that want it, the first ones have it
    pool,       \* per client: the connections at rest, the oldest first
    wire,       \* per connection: what the core's end has got and said
    core,       \* the core's process
    faults,     \* how often something has happened to it
    executed,   \* per request: how often the core has executed it
    answer      \* per request: the IpcResponse signals sent, in order

hubVars == <<task, updates, connecting, pool>>
vars == <<hubVars, wire, core, faults, executed, answer>>

Phases == {"idle", "acquire", "connect", "write", "read", "spin", "retry", "ended"}

\* What an IpcResponse says: what the core answered to some request, or a failure.
Outcomes == [kind: {"answer", "notReady", "broken"}, of: Tasks]

PoolTypeOK ==
    /\ task \in [Tasks -> [phase: Phases, attempt: 0..MaxRetries,
                           tries: 0..(MaxConnects - 1), conn: Conns \cup {NoConn}]]
    /\ updates \in Seq(Updates)
    /\ connecting \in Seq(Requests)
    /\ pool \in [{"requests", "tests"} -> Seq(Conns)]
    /\ wire \in [Conns -> [open: BOOLEAN, asked: Seq(Tasks), said: Seq(Tasks),
                           part: BOOLEAN, old: BOOLEAN]]
    /\ core \in {"up", "hung", "down"}
    /\ faults \in 0..MaxFaults
    /\ executed \in [Requests -> Nat]
    /\ answer \in [Requests -> Seq(Outcomes)]

Resting == [phase |-> "idle", attempt |-> 0, tries |-> 0, conn |-> NoConn]
Closed == [open |-> FALSE, asked |-> <<>>, said |-> <<>>, part |-> FALSE, old |-> FALSE]

PoolInit ==
    /\ task = [r \in Tasks |-> Resting]
    /\ updates = <<>> /\ connecting = <<>>
    /\ pool = [p \in {"requests", "tests"} |-> <<>>]
    /\ wire = [c \in Conns |-> Closed]
    /\ core = "down" /\ faults = 0
    /\ executed = [r \in Requests |-> 0]
    /\ answer = [r \in Requests |-> <<>>]

\* The connections somebody holds; the names of the others are free.
Pooled == ToSet(pool["requests"]) \cup ToSet(pool["tests"])
Held == {task[r].conn: r \in Tasks} \ {NoConn}

Close(C) == [c \in Conns |-> IF c \in C THEN Closed ELSE wire[c]]

-----------------------------------------------------------------------------
(***************************************************************************)
(* The two semaphores hand their permits out in the order of the requests. *)
(***************************************************************************)
MayUpdate(r) == r \in Updates => updates # <<>> /\ Head(updates) = r

MayConnect(r) ==
    r \in Requests => \E i \in DOMAIN connecting: i <= MaxConnecting /\ connecting[i] = r

\* A PUT whose permit ends with its first attempt.
MutantPermitDropped(r, next) ==
    /\ task' = [task EXCEPT ![r] = next]
    /\ updates' = IF next.phase = "write" THEN Remove(updates, r) ELSE updates
    /\ connecting' = IF next.phase # "connect" THEN Remove(connecting, r) ELSE connecting

\* A permit that is never given back.
MutantPermitKept(r, next) ==
    /\ task' = [task EXCEPT ![r] = next]
    /\ UNCHANGED updates
    /\ connecting' = IF next.phase # "connect" THEN Remove(connecting, r) ELSE connecting

\* A permit for a new connection that outlives the attempt to open it.
MutantConnectKept(r, next) ==
    /\ task' = [task EXCEPT ![r] = next]
    /\ updates' = IF r \in Updates /\ next.phase = "ended" THEN Tail(updates) ELSE updates
    /\ UNCHANGED connecting

\* A task goes on; the permits it needed for what it did are given back.
Goes(r, next) ==
    /\ task' = [task EXCEPT ![r] = next]
    /\ updates' = IF r \in Updates /\ next.phase = "ended" THEN Tail(updates) ELSE updates
    /\ connecting' = IF next.phase # "connect" THEN Remove(connecting, r) ELSE connecting

\* A failure that is reported, and the request goes on.
MutantAnswersTwice(r, kind, of) ==
    /\ Goes(r, IF kind = "broken" /\ task[r].attempt < MaxRetries
               THEN [Resting EXCEPT !.phase = "acquire", !.attempt = task[r].attempt + 1]
               ELSE [Resting EXCEPT !.phase = "ended"])
    /\ answer' = [answer EXCEPT ![r] = Append(@, [kind |-> kind, of |-> of])]

\* The end of a request is its IpcResponse.
Finish(r, kind, of) ==
    /\ Goes(r, [Resting EXCEPT !.phase = "ended"])
    /\ answer' = [answer EXCEPT ![r] = Append(@, [kind |-> kind, of |-> of])]

-----------------------------------------------------------------------------
(***************************************************************************)
(* A request arrives and gets a connection.                                *)
(***************************************************************************)
Receive(r) ==
    /\ task[r].phase = "idle"
    /\ task' = [task EXCEPT ![r].phase = "acquire"]
    /\ updates' = IF r \in Updates THEN Append(updates, r) ELSE updates
    /\ UNCHANGED <<connecting, pool, wire, core, faults, executed, answer>>

\* is_valid and the idle timeout.  Unexpected data is taken for a sign of life by the
\* requests' client, and for dirt by the tests' client.
UsableByRequest(c) == wire[c].open /\ ~wire[c].old
UsableByTest(c) == wire[c].open /\ ~wire[c].old /\ wire[c].said = <<>>

\* Those before it are dropped, and it is left at the front of the pool.
MutantFrontOnly(p, G, r) ==
    \E i \in DOMAIN pool[p]:
      /\ pool[p][i] \in G
      /\ \A j \in 1..(i - 1): pool[p][j] \notin G
      /\ task' = [task EXCEPT ![r].phase = "write", ![r].conn = pool[p][i]]
      /\ pool' = [pool EXCEPT ![p] = SubSeq(@, i, Len(@))]
      /\ wire' = Close({pool[p][j]: j \in 1..(i - 1)})

\* The first connection of pool p that is in G; those before it are dropped.
TakeFirst(p, G, r) ==
    \E i \in DOMAIN pool[p]:
      /\ pool[p][i] \in G
      /\ \A j \in 1..(i - 1): pool[p][j] \notin G
      /\ task' = [task EXCEPT ![r].phase = "write", ![r].conn = pool[p][i]]
      /\ pool' = [pool EXCEPT ![p] = SubSeq(@, i + 1, Len(@))]
      /\ wire' = Close({pool[p][j]: j \in 1..(i - 1)})

\* None is usable, and all of them are dropped.
TakeNone(p, G, r) ==
    /\ ToSet(pool[p]) \cap G = {}
    /\ task' = [task EXCEPT ![r].phase = "connect"]
    /\ pool' = [pool EXCEPT ![p] = <<>>]
    /\ wire' = Close(ToSet(pool[p]))

\* An empty pool means a new connection, which needs a permit.
Acquire(r) ==
    LET good == {c \in Conns: UsableByRequest(c)}
    IN /\ r \in Requests
       /\ task[r].phase = "acquire"
       /\ MayUpdate(r)
       /\ \/ TakeFirst("requests", good, r) /\ UNCHANGED connecting
          \/ TakeNone("requests", good, r) /\ connecting' = Append(connecting, r)
       /\ UNCHANGED <<updates, core, faults, executed, answer>>

AcquireForTest(r) ==
    LET good == {c \in Conns: UsableByTest(c)}
    IN /\ r \in Tests
       /\ task[r].phase = "acquire"
       /\ TakeFirst("tests", good, r) \/ TakeNone("tests", good, r)
       /\ UNCHANGED <<updates, connecting, core, faults, executed, answer>>

\* A core that hangs still has connections made to it by the system.
Connect(r) ==
    /\ task[r].phase = "connect" /\ MayConnect(r)
    /\ core # "down"
    /\ LET free == Conns \ (Held \cup Pooled)
           c == CHOOSE c \in free: TRUE
       IN /\ free # {}
          /\ Goes(r, [task[r] EXCEPT !.phase = "write", !.tries = 0, !.conn = c])
          /\ wire' = [wire EXCEPT ![c] = [Closed EXCEPT !.open = TRUE]]
    /\ UNCHANGED <<pool, core, faults, executed, answer>>

\* A connection that fails for whatever reason means that the core is not ready.
MutantBusyIsNotReady(r) ==
    /\ r \in Requests
    /\ task[r].phase = "connect" /\ MayConnect(r)
    /\ core # "up" \/ Windows
    /\ IF task[r].tries + 1 < MaxConnects
       THEN Goes(r, [task[r] EXCEPT !.tries = @ + 1]) /\ UNCHANGED answer
       ELSE Finish(r, "notReady", r)
    /\ UNCHANGED <<pool, wire, core, faults, executed>>

\* There is no core, or every instance of its pipe is busy.  A request that gets no
\* connection after some tries fails.
ConnectFails(r) ==
    /\ r \in Requests
    /\ task[r].phase = "connect" /\ MayConnect(r)
    /\ core # "up" \/ Windows
    /\ IF task[r].tries + 1 < MaxConnects
       THEN Goes(r, [task[r] EXCEPT !.tries = @ + 1]) /\ UNCHANGED answer
       ELSE Finish(r, IF core = "down" THEN "notReady" ELSE "broken", r)
    /\ UNCHANGED <<pool, wire, core, faults, executed>>

\* The tests' client tries again as long as the pipe is busy.
TestConnectFails(r) ==
    /\ r \in Tests
    /\ task[r].phase = "connect"
    /\ core # "up" \/ Windows
    /\ Goes(r, Resting)
    /\ UNCHANGED <<pool, wire, core, faults, executed, answer>>

-----------------------------------------------------------------------------
(***************************************************************************)
(* The request on its connection.                                          *)
(***************************************************************************)
Write(r) ==
    LET c == task[r].conn
    IN /\ task[r].phase = "write"
       /\ wire[c].open
       /\ task' = [task EXCEPT ![r].phase = "read"]
       /\ wire' = [wire EXCEPT ![c].asked = Append(@, r)]
       /\ UNCHANGED <<updates, connecting, pool, core, faults, executed, answer>>

\* What a broken connection reports.  On Windows the errors of a closed pipe are 232 and
\* 233, in whose texts "os error 2" is found ("os2").  A read may also just see the end.
WriteErrors == IF Windows THEN {"os2"} ELSE {"os"}
ReadErrors == WriteErrors \cup {"os", "eof"}

\* can_retry_on_error: an "os error" that is not taken for a core that is not ready.
Retried(r, error) ==
    /\ error = "os"
    /\ task[r].attempt < MaxRetries

\* The connection is dropped; before a retry the whole pool is.
Breaks(r, error) ==
    LET c == task[r].conn
    IN /\ IF Retried(r, error)
          THEN /\ Goes(r, [task[r] EXCEPT !.phase = "retry", !.conn = NoConn, !.attempt = @ + 1])
               /\ pool' = [pool EXCEPT !["requests"] = <<>>]
               /\ wire' = Close({c} \cup ToSet(pool["requests"]))
               /\ UNCHANGED answer
          ELSE /\ Finish(r, IF error = "os2" THEN "notReady" ELSE "broken", r)
               /\ wire' = Close({c})
               /\ UNCHANGED pool
       /\ UNCHANGED <<core, faults, executed>>

WriteBreaks(r) ==
    /\ r \in Requests
    /\ task[r].phase = "write"
    /\ ~wire[task[r].conn].open
    /\ \E error \in WriteErrors: Breaks(r, error)

\* After the 200 ms.
Retry(r) ==
    /\ task[r].phase = "retry"
    /\ task' = [task EXCEPT ![r].phase = "acquire"]
    /\ UNCHANGED <<updates, connecting, pool, wire, core, faults, executed, answer>>

\* The first answer on the connection is complete.
Readable(c) ==
    /\ wire[c].said # <<>>
    /\ wire[c].part => Len(wire[c].said) > 1

\* It will never be.
Broken(c) == ~wire[c].open /\ ~Readable(c)

\* A connection that finds the pool full is dropped.
Release(p, c) ==
    IF Len(pool[p]) < MaxPool
    THEN /\ pool' = [pool EXCEPT ![p] = Append(@, c)]
         /\ wire' = [wire EXCEPT ![c].said = Tail(@)]
    ELSE wire' = Close({c}) /\ UNCHANGED pool

ReadAnswer(r) ==
    /\ r \in Requests
    /\ task[r].phase = "read"
    /\ Readable(task[r].conn)
    /\ Finish(r, "answer", Head(wire[task[r].conn].said))
    /\ Release("requests", task[r].conn)
    /\ UNCHANGED <<core, faults, executed>>

\* The connection ends before the answer does, with or without an error.
ReadBreaks(r) ==
    /\ r \in Requests
    /\ task[r].phase = "read"
    /\ Broken(task[r].conn)
    /\ \E error \in ReadErrors: Breaks(r, error)

\* It ends between two chunks: read_line returns an empty line, for ever.
Spin(r) ==
    /\ task[r].phase = "read"
    /\ Broken(task[r].conn) /\ wire[task[r].conn].part
    /\ task' = [task EXCEPT ![r].phase = "spin"]
    /\ UNCHANGED <<updates, connecting, pool, wire, core, faults, executed, answer>>

\* A test keeps its connection if it has got its answer.
TestEnds(r) ==
    LET c == task[r].conn
    IN /\ r \in Tests
       /\ \/ task[r].phase = "read" /\ Readable(c) /\ Release("tests", c)
          \/ /\ \/ task[r].phase = "read" /\ Broken(c)
                \/ task[r].phase = "write" /\ ~wire[c].open
             /\ wire' = Close({c}) /\ UNCHANGED pool
       /\ Goes(r, Resting)
       /\ UNCHANGED <<core, faults, executed, answer>>

\* A test that is given up, and its connection kept.
MutantTestReturnsIt(r) ==
    /\ r \in Tests
    /\ task[r].phase \in {"acquire", "connect", "write", "read", "spin"}
    /\ Goes(r, Resting)
    /\ IF task[r].conn # NoConn /\ Len(pool["tests"]) < MaxPool
       THEN pool' = [pool EXCEPT !["tests"] = Append(@, task[r].conn)] /\ UNCHANGED wire
       ELSE wire' = Close({task[r].conn}) /\ UNCHANGED pool
    /\ UNCHANGED <<core, faults, executed, answer>>

\* The timeout around a test drops the connection, whatever it waits for.
TestTimesOut(r) ==
    /\ r \in Tests
    /\ task[r].phase \in {"acquire", "connect", "write", "read", "spin"}
    /\ Goes(r, Resting)
    /\ wire' = Close({task[r].conn})
    /\ UNCHANGED <<pool, core, faults, executed, answer>>

-----------------------------------------------------------------------------
(***************************************************************************)
(* The pools at rest.                                                      *)
(***************************************************************************)
\* A pooled connection has not been used for IDLE_TIMEOUT_MS.
Ages(c) ==
    /\ c \in Pooled
    /\ wire' = [wire EXCEPT ![c].old = TRUE]
    /\ UNCHANGED <<hubVars, core, faults, executed, answer>>

\* The check of every 30 s, which knows the requests' pool only.  Those that are kept,
\* which are at these places, stay in their order.
HealthCheck ==
    LET rest == pool["requests"]
        kept == {i \in DOMAIN rest: UsableByRequest(rest[i])}
    IN \E n \in 0..(Len(rest) - 1): \E at \in [1..n -> kept]:
         /\ \A i, j \in 1..n: i < j => at[i] < at[j]
         /\ kept = {at[i]: i \in 1..n}
         /\ pool' = [pool EXCEPT !["requests"] = [i \in 1..n |-> rest[at[i]]]]
         /\ wire' = Close({rest[i]: i \in DOMAIN rest \ kept})
         /\ UNCHANGED <<task, updates, connecting, core, faults, executed, answer>>

\* cleanup_ipc_connection_pool, when the core is about to be stopped.
CleanupPool ==
    /\ pool["requests"] # <<>>
    /\ pool' = [pool EXCEPT !["requests"] = <<>>]
    /\ wire' = Close(ToSet(pool["requests"]))
    /\ UNCHANGED <<task, updates, connecting, core, faults, executed, answer>>

-----------------------------------------------------------------------------
(***************************************************************************)
(* The core answers the requests of a connection in their order, the long  *)
(* answers in parts.                                                       *)
(***************************************************************************)
CoreExecutes(c) ==
    /\ core = "up"
    /\ wire[c].open /\ wire[c].asked # <<>> /\ ~wire[c].part
    /\ LET r == Head(wire[c].asked)
       IN /\ \E part \in BOOLEAN:
               wire' = [wire EXCEPT ![c].asked = Tail(@), ![c].said = Append(@, r), ![c].part = part]
          /\ executed' = IF r \in Requests THEN [executed EXCEPT ![r] = @ + 1] ELSE executed
    /\ UNCHANGED <<hubVars, core, faults, answer>>

CoreCompletes(c) ==
    /\ core = "up"
    /\ wire[c].open /\ wire[c].part
    /\ wire' = [wire EXCEPT ![c].part = FALSE]
    /\ UNCHANGED <<hubVars, core, faults, executed, answer>>

CoreStarts ==
    /\ core = "down"
    /\ core' = "up"
    /\ UNCHANGED <<hubVars, wire, faults, executed, answer>>

Fault == faults < MaxFaults /\ faults' = faults + 1

\* It crashes or is stopped: every connection to it is closed.
CoreEnds ==
    /\ core # "down" /\ Fault
    /\ core' = "down"
    /\ wire' = [c \in Conns |-> [wire[c] EXCEPT !.open = FALSE]]
    /\ UNCHANGED <<hubVars, executed, answer>>

\* A connection breaks while the core lives, as the code expects after a suspend.
ConnectionBreaks(c) ==
    /\ wire[c].open /\ Fault
    /\ wire' = [wire EXCEPT ![c].open = FALSE]
    /\ UNCHANGED <<hubVars, core, executed, answer>>

CoreHangs ==
    /\ CoreMayHang /\ core = "up" /\ Fault
    /\ core' = "hung"
    /\ UNCHANGED <<hubVars, wire, executed, answer>>

-----------------------------------------------------------------------------
TaskStep(r) ==
    \/ Acquire(r)
    \/ AcquireForTest(r)
    \/ Connect(r)
    \/ ConnectFails(r)
    \/ TestConnectFails(r)
    \/ Write(r)
    \/ WriteBreaks(r)
    \/ Retry(r)
    \/ ReadAnswer(r)
    \/ ReadBreaks(r)
    \/ Spin(r)
    \/ TestEnds(r)

CoreStep(c) == CoreExecutes(c) \/ CoreCompletes(c)

EnvStep ==
    \/ \E r \in Tests: Receive(r) \/ TestTimesOut(r)
    \/ \E c \in Conns: Ages(c) \/ ConnectionBreaks(c)
    \/ HealthCheck
    \/ CleanupPool
    \/ CoreStarts
    \/ CoreEnds
    \/ CoreHangs

PoolNext ==
    \/ \E r \in Requests: Receive(r)
    \/ \E r \in Tasks: TaskStep(r)
    \/ \E c \in Conns: CoreStep(c)
    \/ EnvStep

PoolSpec == PoolInit /\ [][PoolNext]_vars

=============================================================================
