--------------------------- MODULE WsStreamsProofs ---------------------------
(***************************************************************************)
(* Proofs about WsStreams, for any number of streams, starts and switches. *)
(***************************************************************************)
EXTENDS WsStreams, TLAPS

\* What the arguments need of the types.
IdTypes ==
    /\ task \in [Tasks -> {"signal", "write", "read", "handshake", "answered"}]
    /\ client \in Nat /\ clients \in Nat /\ nextId \in Nat
    /\ idOf \in [Tasks -> Nat]
    /\ saved \in [Streams -> Nat]
    /\ open \subseteq Connection

Shakes(s) == task[Start(s)] \in {"handshake", "answered"}

\* Every id in use, of a connection or of a handshake, was given out by the client
\* there is, and none of them twice.
OwnedIds ==
    /\ \A c \in open : client # 0 /\ c.client = client /\ c.id < nextId
    /\ \A s \in Streams : Shakes(s) => client # 0 /\ idOf[Start(s)] < nextId
    /\ \A s, t \in Streams : Shakes(s) /\ Shakes(t) /\ idOf[Start(s)] = idOf[Start(t)] => s = t
    /\ \A s \in Streams : \A c \in open : Shakes(s) => c.id # idOf[Start(s)]
    /\ \A c, d \in open : c.id = d.id => c = d

IdsInv == IdTypes /\ OwnedIds

\* The names of the tasks.
LEMMA TaskNames ==
    /\ \A s \in Streams : Start(s) \in Tasks /\ Stop(s) \in Tasks
    /\ StopProcess \in Tasks
    /\ \A s, t \in Streams : Start(s) = Start(t) => s = t
    /\ \A s, t \in Streams : Start(s) # Stop(t)
    /\ \A s \in Streams : Start(s) # StopProcess
BY DEF Start, Stop, StopProcess, Tasks

\* A handshake keeps the lock from everyone who would write.
LEMMA NoHandshake ==
    ASSUME Handshaking = {}
    PROVE  \A s \in Streams : ~Shakes(s)
BY TaskNames DEF Handshaking, Shakes

\* Fewer connections and other tasks that move change nothing.
LEMMA FewerIds ==
    ASSUME IdsInv, IdTypes', open' \subseteq open, UNCHANGED <<client, nextId>>,
           \A s \in Streams : Shakes(s)' => Shakes(s) /\ idOf'[Start(s)] = idOf[Start(s)]
    PROVE  IdsInv'
BY DEF IdsInv, OwnedIds

\* The invariant holds at the beginning.
LEMMA IdsInit == StreamsInit => IdsInv
<1> SUFFICES ASSUME StreamsInit PROVE IdsInv
  OBVIOUS
<1>1. IdTypes
  BY DEF StreamsInit, IdTypes
<1>2. open = {} /\ \A s \in Streams : ~Shakes(s)
  BY TaskNames DEF StreamsInit, Shakes
<1> QED
  BY <1>1, <1>2 DEF IdsInv, OwnedIds

\* Every step keeps the invariant.
LEMMA IdsStep == IdsInv /\ [StreamsNext]_vars => IdsInv'
<1> SUFFICES ASSUME IdsInv, [StreamsNext]_vars PROVE IdsInv'
  OBVIOUS
<1> USE TaskNames
<1>1. CASE UNCHANGED <<task, clientVars, idOf, saved>>
  BY <1>1 DEF IdsInv, IdTypes, OwnedIds, Shakes, clientVars
<1>2. ASSUME NEW s \in Streams, TakeStart(s) PROVE IdsInv'
  <2>1. task[Start(s)] = "signal" /\ task' = [task EXCEPT ![Start(s)] = "write"] /\ UNCHANGED <<clientVars, idOf, saved>>
    BY <1>2 DEF TakeStart, Taken, WaitFor
  <2>2. IdTypes'
    BY <2>1 DEF IdsInv, IdTypes, clientVars
  <2> QED
    BY <2>1, <2>2, FewerIds DEF IdsInv, IdTypes, Shakes, clientVars
<1>3. ASSUME NEW s \in Streams, EnsureClient(s) PROVE IdsInv'
  <2>1. \A t \in Streams : ~Shakes(t)
    BY <1>3, NoHandshake DEF EnsureClient, GrantedWrite
  <2>2. task' = [task EXCEPT ![Start(s)] = "read"] /\ UNCHANGED <<idOf, saved, open>>
    BY <1>3 DEF EnsureClient
  <2>3. \A t \in Streams : ~Shakes(t)'
    BY <2>1, <2>2 DEF Shakes, IdsInv, IdTypes
  <2>4. CASE client = 0
    <3>1. open = {}
      BY <2>4 DEF IdsInv, OwnedIds
    <3>2. client' \in Nat /\ clients' \in Nat /\ nextId' \in Nat
      BY <1>3, <2>4 DEF EnsureClient, IdsInv, IdTypes
    <3> QED
      BY <2>2, <2>3, <3>1, <3>2 DEF IdsInv, IdTypes, OwnedIds
  <2>5. CASE client # 0
    <3>1. UNCHANGED <<client, clients, nextId>>
      BY <1>3, <2>5 DEF EnsureClient
    <3>2. IdTypes'
      BY <2>2, <3>1 DEF IdsInv, IdTypes
    <3> QED
      BY <2>2, <2>3, <3>1, <3>2, FewerIds
  <2> QED
    BY <2>4, <2>5
<1>4. ASSUME NEW s \in Streams, BeginHandshake(s) PROVE IdsInv'
  <2>1. ~Shakes(s)
    BY <1>4 DEF BeginHandshake, GrantedRead, Shakes
  <2>2. UNCHANGED <<client, clients, open, saved>>
    BY <1>4 DEF BeginHandshake
  <2>3. CASE client = 0
    <3>1. /\ task' = [task EXCEPT ![Start(s)] = "signal"] /\ idOf' = [idOf EXCEPT ![Start(s)] = 0]
          /\ UNCHANGED nextId
      BY <1>4, <2>3 DEF BeginHandshake, Granted
    <3>2. IdTypes'
      BY <2>2, <3>1 DEF IdsInv, IdTypes
    <3>3. \A t \in Streams : Shakes(t)' => Shakes(t) /\ idOf'[Start(t)] = idOf[Start(t)]
      BY <3>1 DEF IdsInv, IdTypes, Shakes
    <3> QED
      BY <2>2, <3>1, <3>2, <3>3, FewerIds
  <2>4. CASE client # 0
    <3>1. /\ task' = [task EXCEPT ![Start(s)] = "handshake"] /\ idOf' = [idOf EXCEPT ![Start(s)] = nextId]
          /\ nextId' = nextId + 1
      BY <1>4, <2>4 DEF BeginHandshake, Granted
    <3>2. IdTypes'
      BY <2>2, <3>1 DEF IdsInv, IdTypes
    <3>3. /\ idOf'[Start(s)] = nextId
          /\ \A t \in Streams : t # s => (Shakes(t)' <=> Shakes(t)) /\ idOf'[Start(t)] = idOf[Start(t)]
      BY <3>1 DEF IdsInv, IdTypes, Shakes
    <3>4. \A c \in open : c.id \in Nat
      BY DEF IdsInv, IdTypes, Connection
    <3>5. \A t \in Streams : idOf[Start(t)] \in Nat
      BY DEF IdsInv, IdTypes
    <3>6. nextId \in Nat
      BY DEF IdsInv, IdTypes
    <3> QED
      BY <2>2, <2>4, <3>1, <3>2, <3>3, <3>4, <3>5, <3>6 DEF IdsInv, OwnedIds
  <2> QED
    BY <2>3, <2>4
<1>5. ASSUME NEW s \in Streams, HandshakeFails(s) PROVE IdsInv'
  <2>1. /\ task' = [task EXCEPT ![Start(s)] = "signal"] /\ idOf' = [idOf EXCEPT ![Start(s)] = 0]
        /\ UNCHANGED <<client, clients, nextId, open, saved>>
    BY <1>5 DEF HandshakeFails, HandshakeEnds
  <2>2. IdTypes'
    BY <2>1 DEF IdsInv, IdTypes
  <2>3. \A t \in Streams : Shakes(t)' => Shakes(t) /\ idOf'[Start(t)] = idOf[Start(t)]
    BY <2>1 DEF IdsInv, IdTypes, Shakes
  <2> QED
    BY <2>1, <2>2, <2>3, FewerIds
<1>6. ASSUME NEW s \in Streams, StreamOpens(s) PROVE IdsInv'
  <2> DEFINE new == [client |-> client, id |-> idOf[Start(s)], stream |-> s]
  <2>1. /\ task' = [task EXCEPT ![Start(s)] = "signal"] /\ idOf' = [idOf EXCEPT ![Start(s)] = 0]
        /\ UNCHANGED <<client, clients, nextId>>
        /\ open' = open \cup {new} /\ saved' = [saved EXCEPT ![s] = idOf[Start(s)]]
        /\ Shakes(s)
    BY <1>6 DEF StreamOpens, HandshakeEnds, Shakes
  <2>2. new \in Connection /\ new.client = client /\ new.id = idOf[Start(s)]
    BY DEF IdsInv, IdTypes, Connection
  <2>3. IdTypes'
    BY <2>1, <2>2 DEF IdsInv, IdTypes
  <2>4. \A t \in Streams : Shakes(t)' => t # s /\ Shakes(t) /\ idOf'[Start(t)] = idOf[Start(t)]
    BY <2>1 DEF IdsInv, IdTypes, Shakes
  <2>5. client # 0 /\ new.id < nextId /\ \A c \in open : c.id # new.id
    BY <2>1, <2>2 DEF IdsInv, OwnedIds
  <2>6. \A t \in Streams : t # s /\ Shakes(t) => new.id # idOf[Start(t)]
    BY <2>1, <2>2 DEF IdsInv, OwnedIds
  <2> HIDE DEF new
  <2> QED
    BY <2>1, <2>2, <2>3, <2>4, <2>5, <2>6 DEF IdsInv, OwnedIds
<1>7. ASSUME NEW s \in Streams, TakeStop(s) PROVE IdsInv'
  <2>1. /\ task[Stop(s)] = "signal" /\ idOf' = [idOf EXCEPT ![Stop(s)] = saved[s]]
        /\ saved' = [saved EXCEPT ![s] = 0] /\ UNCHANGED clientVars
        /\ task' = task \/ task' = [task EXCEPT ![Stop(s)] = "read"]
    BY <1>7 DEF TakeStop, Taken, WaitFor
  <2>2. IdTypes'
    BY <2>1 DEF IdsInv, IdTypes, clientVars
  <2>3. \A t \in Streams : Shakes(t)' => Shakes(t) /\ idOf'[Start(t)] = idOf[Start(t)]
    BY <2>1 DEF IdsInv, IdTypes, Shakes
  <2> QED
    BY <2>1, <2>2, <2>3, FewerIds DEF clientVars
<1>8. ASSUME NEW s \in Streams, Disconnect(s) PROVE IdsInv'
  <2>1. /\ task' = [task EXCEPT ![Stop(s)] = "signal"] /\ idOf' = [idOf EXCEPT ![Stop(s)] = 0]
        /\ UNCHANGED <<client, clients, nextId, saved>> /\ open' \subseteq open
    BY <1>8 DEF Disconnect, Granted
  <2>2. IdTypes'
    BY <2>1 DEF IdsInv, IdTypes
  <2>3. \A t \in Streams : Shakes(t)' => Shakes(t) /\ idOf'[Start(t)] = idOf[Start(t)]
    BY <2>1 DEF IdsInv, IdTypes, Shakes
  <2> QED
    BY <2>1, <2>2, <2>3, FewerIds
<1>9. CASE TakeStopProcess
  <2>1. task' = [task EXCEPT ![StopProcess] = "write"] /\ UNCHANGED <<clientVars, idOf, saved>>
    BY <1>9 DEF TakeStopProcess, WaitFor
  <2>2. IdTypes'
    BY <2>1 DEF IdsInv, IdTypes, clientVars
  <2>3. \A t \in Streams : Shakes(t)' => Shakes(t)
    BY <2>1 DEF IdsInv, IdTypes, Shakes
  <2> QED
    BY <2>1, <2>2, <2>3, FewerIds DEF clientVars
<1>10. CASE Cleanup
  <2>1. \A t \in Streams : ~Shakes(t)
    BY <1>10, NoHandshake DEF Cleanup, GrantedWrite
  <2>2. /\ task' = [task EXCEPT ![StopProcess] = "signal"] /\ client' = 0
        /\ UNCHANGED <<clients, nextId, idOf, saved>>
        /\ open' = {c \in open : c.client # client}
    BY <1>10 DEF Cleanup, Granted
  <2>3. open' = {}
    BY <2>2 DEF IdsInv, OwnedIds
  <2>4. \A t \in Streams : ~Shakes(t)'
    BY <2>1, <2>2 DEF IdsInv, IdTypes, Shakes
  <2> QED
    BY <2>2, <2>3, <2>4 DEF IdsInv, IdTypes, OwnedIds
<1>11. ASSUME NEW s \in Streams, CoreAnswers(s) PROVE IdsInv'
  <2>1. task[Start(s)] = "handshake" /\ task' = [task EXCEPT ![Start(s)] = "answered"] /\ UNCHANGED <<clientVars, idOf, saved>>
    BY <1>11 DEF CoreAnswers
  <2>2. IdTypes'
    BY <2>1 DEF IdsInv, IdTypes, clientVars
  <2>3. \A t \in Streams : Shakes(t)' => Shakes(t)
    BY <2>1 DEF IdsInv, IdTypes, Shakes
  <2> QED
    BY <2>1, <2>2, <2>3, FewerIds DEF clientVars
<1>12. CASE ConnectionEnds
  <2>1. open' \subseteq open /\ UNCHANGED <<task, client, clients, nextId, idOf, saved>>
    BY <1>12 DEF ConnectionEnds
  <2>2. IdTypes'
    BY <2>1 DEF IdsInv, IdTypes
  <2> QED
    BY <2>1, <2>2, FewerIds DEF Shakes
<1>13. CASE CoreStarted \/ StopCore \/ CoreStopped \/ CoreCrashes \/ CoreHangs \/ UNCHANGED vars
  BY <1>1, <1>13 DEF CoreStarted, StopCore, CoreStopped, CoreCrashes, CoreHangs, vars
<1>14. ASSUME NEW s \in Switchable, Switch(s) PROVE IdsInv'
  BY <1>1, <1>14 DEF Switch
<1> QED
  BY <1>2, <1>3, <1>4, <1>5, <1>6, <1>7, <1>8, <1>9, <1>10, <1>11, <1>12, <1>13, <1>14
     DEF StreamsNext, HubStep, StopStep

\* The ids of a client are given out once, whatever handshakes overlap and whenever
\* they end.
THEOREM IdsInductive == StreamsSpec => []IdsInv
BY IdsInit, IdsStep, PTL DEF StreamsSpec

\* No connection outlives its client, for any number of streams.
THEOREM ConnectionsAlwaysOwned == StreamsSpec => []ClientOwnsConnections
<1>1. IdsInv => ClientOwnsConnections
  BY DEF IdsInv, OwnedIds, ClientOwnsConnections
<1> QED
  BY <1>1, IdsInductive, PTL

\* Two connections of a client never share an id, for any number of streams.
THEOREM IdsAlwaysDiffer == StreamsSpec => []IdsDiffer
<1>1. IdsInv => IdsDiffer
  BY DEF IdsInv, OwnedIds, IdsDiffer
<1> QED
  BY <1>1, IdsInductive, PTL
=============================================================================
