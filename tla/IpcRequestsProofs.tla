------------------------- MODULE IpcRequestsProofs --------------------------
(***************************************************************************)
(* Proofs about IpcRequests, for any number of calls, attempts, delay      *)
(* tests and connections, any limits, and a core that does anything.       *)
(***************************************************************************)
EXTENDS IpcRequests, TLAPS

-----------------------------------------------------------------------------
(***************************************************************************)
(* Sequences of connections.                                               *)
(***************************************************************************)

\* The end of a sequence holds what it holds, and is injective if the sequence is.
LEMMA RestOfSeq ==
    ASSUME NEW S, NEW s \in Seq(S), NEW i \in DOMAIN s
    PROVE  LET rest == SubSeq(s, i + 1, Len(s)) IN
           /\ rest \in Seq(S)
           /\ ToSet(rest) \subseteq ToSet(s)
           /\ IsInjective(s) => IsInjective(rest) /\ s[i] \notin ToSet(rest)
<1> DEFINE rest == SubSeq(s, i + 1, Len(s))
<1>1. i \in 1..Len(s) /\ Len(s) \in Nat
  OBVIOUS
<1>2. rest \in Seq(S) /\ Len(rest) = Len(s) - i
  BY <1>1
<1>3. DOMAIN rest = 1..(Len(s) - i) /\ DOMAIN s = 1..Len(s)
  BY <1>1, <1>2
<1>4. \A j \in DOMAIN rest : rest[j] = s[i + j] /\ i + j \in DOMAIN s
  BY <1>1, <1>3
<1> HIDE DEF rest
<1>5. ToSet(rest) \subseteq ToSet(s)
  BY <1>4 DEF ToSet
<1>6. ASSUME IsInjective(s) PROVE IsInjective(rest) /\ s[i] \notin ToSet(rest)
  <2>1. \A j \in DOMAIN rest : i + j # i
    BY <1>1, <1>3
  <2>2. \A j \in DOMAIN rest : rest[j] # s[i]
    BY <1>4, <1>6, <2>1 DEF IsInjective
  <2>3. ASSUME NEW j \in DOMAIN rest, NEW k \in DOMAIN rest, rest[j] = rest[k] PROVE j = k
    <3>1. i + j = i + k
      BY <1>4, <1>6, <2>3 DEF IsInjective
    <3> QED
      BY <3>1, <1>1, <1>3
  <2> QED
    BY <2>2, <2>3 DEF IsInjective, ToSet
<1> QED
  BY <1>2, <1>5, <1>6 DEF rest

\* What is put at the end of a sequence is added to it, once if it was not in it.
LEMMA AppendToSeq ==
    ASSUME NEW S, NEW s \in Seq(S), NEW x \in S
    PROVE  /\ Append(s, x) \in Seq(S)
           /\ ToSet(Append(s, x)) = ToSet(s) \cup {x}
           /\ IsInjective(s) /\ x \notin ToSet(s) => IsInjective(Append(s, x))
<1> DEFINE t == Append(s, x)
<1>1. Len(s) \in Nat /\ DOMAIN s = 1..Len(s) /\ DOMAIN t = 1..(Len(s) + 1)
  OBVIOUS
<1>2. t \in Seq(S) /\ (\A j \in DOMAIN s : t[j] = s[j]) /\ t[Len(s) + 1] = x
  OBVIOUS
<1> HIDE DEF t
<1>3. \A j \in DOMAIN t : j \in DOMAIN s \/ j = Len(s) + 1
  BY <1>1
<1>4. ToSet(t) = ToSet(s) \cup {x}
  <2>1. DOMAIN s \subseteq DOMAIN t /\ Len(s) + 1 \in DOMAIN t
    BY <1>1
  <2> QED
    BY <1>2, <1>3, <2>1 DEF ToSet
<1>5. IsInjective(s) /\ x \notin ToSet(s) => IsInjective(t)
  BY <1>2, <1>3 DEF IsInjective, ToSet
<1> QED
  BY <1>2, <1>4, <1>5 DEF t

\* t is what s has at some places, in their order.
Keeps(s, n, at, t) ==
    /\ n \in Nat /\ at \in [1..n -> DOMAIN s]
    /\ \A i, j \in 1..n : i < j => at[i] < at[j]
    /\ t = [i \in 1..n |-> s[at[i]]]

LEMMA KeptOfSeq ==
    ASSUME NEW S, NEW s \in Seq(S), NEW n, NEW at, NEW t, Keeps(s, n, at, t)
    PROVE  /\ t \in Seq(S)
           /\ ToSet(t) \subseteq ToSet(s)
           /\ IsInjective(s) => IsInjective(t)
<1> USE DEF Keeps
<1>1. \A i \in DOMAIN s : s[i] \in S
  OBVIOUS
<1>2. t \in [1..n -> S]
  BY <1>1
<1>3. t \in Seq(S)
  BY <1>2
<1>4. DOMAIN t = 1..n /\ \A i \in 1..n : t[i] = s[at[i]] /\ at[i] \in DOMAIN s
  OBVIOUS
<1>5. ToSet(t) \subseteq ToSet(s)
  BY <1>4 DEF ToSet
<1>6. ASSUME IsInjective(s), NEW i \in 1..n, NEW j \in 1..n, t[i] = t[j] PROVE i = j
  <2>1. at[i] = at[j]
    BY <1>4, <1>6 DEF IsInjective
  <2>2. at[i] \in Nat /\ at[j] \in Nat
    <3>1. DOMAIN s = 1..Len(s) /\ Len(s) \in Nat
      OBVIOUS
    <3> QED
      BY <1>4, <3>1
  <2> QED
    BY <2>1, <2>2
<1> QED
  BY <1>3, <1>4, <1>5, <1>6 DEF IsInjective

-----------------------------------------------------------------------------
(***************************************************************************)
(* The inductive invariant.                                                *)
(***************************************************************************)
Pools == {"requests", "tests"}
TaskRecord == [phase: Phases, attempt: 0..MaxRetries, tries: Nat, conn: Conns \cup {NoConn}]
Wire == [open: BOOLEAN, asked: Seq(Tasks), said: Seq(Tasks), part: BOOLEAN, old: BOOLEAN]

\* What PoolTypeOK says, but for the queue of the connection permits.
Types ==
    /\ task \in [Tasks -> TaskRecord]
    /\ updates \in Seq(Updates)
    /\ pool \in [Pools -> Seq(Conns)]
    /\ wire \in [Conns -> Wire]
    /\ executed \in [Requests -> Nat]
    /\ answer \in [Requests -> Seq(Outcomes)]

Connected == {"write", "read", "spin"}
Listening == {"read", "spin"}

\* A task in an exchange has a connection.
HasConnection == \A r \in Tasks : task[r].phase \in Connected => task[r].conn # NoConn

\* What is on a connection was asked by the task that has it and listens to it, and has
\* not been answered or has, once.
Blank(w) == w.asked = <<>> /\ w.said = <<>> /\ ~w.part
Awaits(w, r) == w.asked = <<r>> /\ w.said = <<>> /\ ~w.part
Answers(w, r) == w.asked = <<>> /\ w.said = <<r>>

Carries ==
    \A c \in Conns :
       \/ Blank(wire[c])
       \/ \E r \in Tasks :
            /\ task[r].conn = c /\ task[r].phase \in Listening
            /\ Awaits(wire[c], r) \/ Answers(wire[c], r)

\* A PUT that has taken a connection, or wants a new one, has the permit.
Permitted ==
    \A r \in Updates :
       task[r].phase \in {"connect"} \cup Connected => updates # <<>> /\ Head(updates) = r

\* Each attempt is executed at most once, and an answer is that of a request that was.
Counted ==
    \A r \in Requests :
       /\ task[r].phase \notin Listening \cup {"ended"} => executed[r] <= task[r].attempt
       /\ task[r].phase \in Listening =>
            IF wire[task[r].conn].said = <<>> THEN executed[r] <= task[r].attempt
            ELSE executed[r] \in 1..(task[r].attempt + 1)
       /\ executed[r] <= MaxRetries + 1

\* A request has its answer when it has ended, and the answer is its own.
OwnOutcome ==
    \A r \in Requests :
       /\ Len(answer[r]) = (IF task[r].phase = "ended" THEN 1 ELSE 0)
       /\ \A i \in DOMAIN answer[r] : answer[r][i].kind = "answer" => answer[r][i].of = r /\ executed[r] > 0

PoolInv ==
    /\ Types
    /\ HasConnection
    /\ OneOwner
    /\ Carries
    /\ Permitted
    /\ Counted
    /\ OwnOutcome

-----------------------------------------------------------------------------
(***************************************************************************)
(* Who has a connection.                                                   *)
(***************************************************************************)
\* A pool that may have lost connections.
Shrinks(p) == ToSet(pool'[p]) \subseteq ToSet(pool[p]) /\ IsInjective(pool'[p])

\* A task keeps or drops its connection, pools may drop theirs.
LEMMA OwnersDrop ==
    ASSUME Types, OneOwner,
           NEW r \in Tasks, NEW next \in TaskRecord, task' = [task EXCEPT ![r] = next],
           next.conn \in {NoConn, task[r].conn},
           Shrinks("requests"), Shrinks("tests")
    PROVE  OneOwner'
<1>1. \A s \in Tasks : task'[s].conn \in {NoConn, task[s].conn}
  BY DEF Types
<1>2. Held' \subseteq Held
  BY <1>1 DEF Held
<1>3. Pooled' \subseteq Pooled
  BY DEF Pooled, Shrinks
<1> QED
  BY <1>1, <1>2, <1>3 DEF OneOwner, Shrinks

\* A task takes a connection that no task has, and no pool has any more.
LEMMA OwnersTake ==
    ASSUME Types, OneOwner,
           NEW r \in Tasks, NEW next \in TaskRecord, task' = [task EXCEPT ![r] = next],
           next.conn \notin Held, next.conn # NoConn,
           next.conn \notin ToSet(pool'["requests"]) \cup ToSet(pool'["tests"]),
           Shrinks("requests"), Shrinks("tests")
    PROVE  OneOwner'
<1>1. \A s \in Tasks : task'[s].conn = IF s = r THEN next.conn ELSE task[s].conn
  BY DEF Types
<1>2. Held' \subseteq Held \cup {next.conn}
  BY <1>1 DEF Held
<1>3. Pooled' \subseteq Pooled /\ next.conn \notin Pooled'
  BY DEF Pooled, Shrinks
<1>4. \A s, t \in Tasks : task'[s].conn = task'[t].conn /\ s # t => task'[s].conn = NoConn
  <2>1. \A s \in Tasks : task[s].conn # next.conn
    BY DEF Held
  <2> QED
    BY <1>1, <2>1 DEF OneOwner
<1> QED
  BY <1>2, <1>3, <1>4 DEF OneOwner, Shrinks

\* A task gives its connection to a pool.
LEMMA OwnersRelease ==
    ASSUME Types, OneOwner,
           NEW r \in Tasks, NEW next \in TaskRecord, task' = [task EXCEPT ![r] = next],
           next.conn = NoConn, task[r].conn # NoConn,
           NEW p \in Pools, pool' = [pool EXCEPT ![p] = Append(@, task[r].conn)]
    PROVE  OneOwner'
<1> DEFINE c == task[r].conn
<1>1. \A s \in Tasks : task'[s].conn = IF s = r THEN NoConn ELSE task[s].conn
  BY DEF Types
<1>2. c \in Conns /\ c \in Held
  BY DEF Types, TaskRecord, Held
<1>3. c \notin Pooled
  BY <1>2 DEF OneOwner
<1>4. c \notin Held' /\ Held' \subseteq Held
  BY <1>1 DEF Held, OneOwner
<1>5. \A q \in Pools : pool[q] \in Seq(Conns) /\ IsInjective(pool[q])
  BY DEF Types, OneOwner, Pools
<1>6. /\ pool'[p] = Append(pool[p], c)
      /\ \A q \in Pools \ {p} : pool'[q] = pool[q]
  BY DEF Types
<1>7. c \notin ToSet(pool[p])
  BY <1>3 DEF Pooled, Pools
<1>8. ToSet(pool'[p]) = ToSet(pool[p]) \cup {c} /\ IsInjective(pool'[p])
  BY <1>2, <1>5, <1>6, <1>7, AppendToSeq
<1>9. \A q \in Pools : IsInjective(pool'[q]) /\ ToSet(pool'[q]) \subseteq ToSet(pool[q]) \cup {c}
  BY <1>5, <1>6, <1>8
<1>10. ToSet(pool'["requests"]) \cap ToSet(pool'["tests"]) = {}
  BY <1>3, <1>6, <1>8 DEF OneOwner, Pooled, Pools
<1>11. Held' \cap Pooled' = {}
  BY <1>4, <1>9 DEF OneOwner, Pooled, Pools
<1> QED
  BY <1>1, <1>9, <1>10, <1>11 DEF OneOwner, Pools

-----------------------------------------------------------------------------
(***************************************************************************)
(* The steps of the tasks that do not ask the core anything: what they do  *)
(* to the wires, the permits and the answers.                              *)
(***************************************************************************)
\* The connection of the task is cleared, if it listened; connections are left alone or
\* blank, those of the others that listen are left alone.
WiresCleared(r) ==
    /\ wire' \in [Conns -> Wire]
    /\ \A c \in Conns : wire'[c] = wire[c] \/ Blank(wire'[c])
    /\ \A s \in Tasks \ {r} : task[s].phase \in Listening => wire'[task[s].conn] = wire[task[s].conn]
    /\ task[r].phase \in Listening => Blank(wire'[task[r].conn])

HasPermit(r) == r \in Updates => updates # <<>> /\ Head(updates) = r

\* The task goes on, or waits for a permit.
StaysOpen(r, next) ==
    /\ next.phase # "ended"
    /\ r \in Requests => executed[r] <= next.attempt
    /\ next.phase \in {"connect"} \cup Connected => HasPermit(r)
    /\ updates' = updates \/ (r \in Updates /\ updates' = Append(updates, r))
    /\ task[r].phase # "ended"
    /\ answer' = answer

\* The request ends with an answer that is its own, or with a failure.
EndsWith(r, next, out) ==
    /\ r \in Requests
    /\ next.phase = "ended"
    /\ task[r].phase \in {"connect"} \cup Connected
    /\ updates' = IF r \in Updates THEN Tail(updates) ELSE updates
    /\ answer' = [answer EXCEPT ![r] = Append(@, out)]
    /\ out.kind = "answer" => out.of = r /\ executed[r] > 0

LEMMA UpdatesSplit == Updates \subseteq Requests /\ Requests \subseteq Tasks /\ Requests \cap Tests = {}
  BY PoolAssumption DEF Tasks

LEMMA MoveStep ==
    ASSUME PoolInv,
           NEW r \in Tasks, NEW next \in TaskRecord, task' = [task EXCEPT ![r] = next],
           next.phase \notin Listening,
           next.phase = "write" => next.conn # NoConn,
           NEW out \in Outcomes, StaysOpen(r, next) \/ EndsWith(r, next, out),
           WiresCleared(r),
           pool' \in [Pools -> Seq(Conns)], OneOwner',
           executed' = executed
    PROVE  PoolInv'
<1> USE UpdatesSplit
<1>1. \A s \in Tasks : task'[s] = IF s = r THEN next ELSE task[s]
  BY DEF PoolInv, Types
<1>2. Types'
  <2>1. task' \in [Tasks -> TaskRecord]
    BY DEF PoolInv, Types
  <2>2. updates' \in Seq(Updates)
    <3>1. CASE updates' = updates
      BY <3>1 DEF PoolInv, Types
    <3>2. CASE r \in Updates /\ updates' = Append(updates, r)
      BY <3>2 DEF PoolInv, Types
    <3>3. CASE EndsWith(r, next, out) /\ r \in Updates
      <4>1. updates # <<>> /\ updates' = Tail(updates)
        BY <3>3 DEF PoolInv, Permitted, EndsWith
      <4> QED
        BY <4>1 DEF PoolInv, Types
    <3> QED
      BY <3>1, <3>2, <3>3 DEF StaysOpen, EndsWith
  <2>3. answer' \in [Requests -> Seq(Outcomes)]
    <3>1. CASE StaysOpen(r, next)
      BY <3>1 DEF PoolInv, Types, StaysOpen
    <3>2. CASE EndsWith(r, next, out)
      <4>1. Append(answer[r], out) \in Seq(Outcomes)
        BY <3>2 DEF PoolInv, Types, EndsWith
      <4> QED
        BY <3>2, <4>1 DEF PoolInv, Types, EndsWith
    <3> QED
      BY <3>1, <3>2
  <2> QED
    BY <2>1, <2>2, <2>3 DEF PoolInv, Types, WiresCleared
<1>3. HasConnection'
  BY <1>1 DEF PoolInv, HasConnection, Connected, Listening
<1>4. Carries'
  <2> SUFFICES ASSUME NEW c \in Conns, ~Blank(wire'[c])
               PROVE  \E s \in Tasks :
                        /\ task'[s].conn = c /\ task'[s].phase \in Listening
                        /\ Awaits(wire'[c], s) \/ Answers(wire'[c], s)
    BY DEF Carries, Blank, Awaits, Answers
  <2>1. wire'[c] = wire[c]
    BY DEF WiresCleared
  <2>2. PICK s \in Tasks :
           /\ task[s].conn = c /\ task[s].phase \in Listening
           /\ Awaits(wire[c], s) \/ Answers(wire[c], s)
    BY <2>1 DEF PoolInv, Carries, Blank
  <2>3. s # r
    BY <2>2 DEF WiresCleared
  <2> QED
    BY <1>1, <2>1, <2>2, <2>3
<1>5. Permitted'
  <2> SUFFICES ASSUME NEW s \in Updates, task'[s].phase \in {"connect"} \cup Connected
               PROVE  updates' # <<>> /\ Head(updates') = s
    BY DEF Permitted, Connected
  <2>1. CASE StaysOpen(r, next)
    <3>1. updates # <<>> /\ Head(updates) = s
      BY <1>1, <2>1 DEF StaysOpen, HasPermit, PoolInv, Permitted
    <3>2. updates \in Seq(Updates)
      BY DEF PoolInv, Types
    <3>3. CASE r \in Updates /\ updates' = Append(updates, r)
      BY <3>1, <3>2, <3>3
    <3> QED
      BY <2>1, <3>1, <3>3 DEF StaysOpen
  <2>2. CASE EndsWith(r, next, out)
    <3>1. s # r /\ Head(updates) = s
      BY <1>1, <2>2 DEF EndsWith, PoolInv, Permitted, Connected
    <3>2. r \notin Updates
      BY <2>2, <3>1 DEF EndsWith, PoolInv, Permitted
    <3> QED
      BY <1>1, <2>2, <3>1, <3>2 DEF EndsWith, PoolInv, Permitted
  <2> QED
    BY <2>1, <2>2
<1>6. Counted'
  <2> SUFFICES ASSUME NEW s \in Requests
               PROVE  /\ task'[s].phase \notin Listening \cup {"ended"} => executed[s] <= task'[s].attempt
                      /\ task'[s].phase \in Listening =>
                           IF wire'[task'[s].conn].said = <<>> THEN executed[s] <= task'[s].attempt
                           ELSE executed[s] \in 1..(task'[s].attempt + 1)
                      /\ executed[s] <= MaxRetries + 1
    BY DEF Counted, Listening
  <2>1. CASE s = r
    BY <1>1, <2>1 DEF StaysOpen, EndsWith, PoolInv, Counted
  <2>2. CASE s # r
    <3>1. task'[s] = task[s]
      BY <1>1, <2>2
    <3>2. task[s].phase \in Listening => wire'[task[s].conn] = wire[task[s].conn]
      BY <2>2 DEF WiresCleared
    <3> QED
      BY <3>1, <3>2 DEF PoolInv, Counted
  <2> QED
    BY <2>1, <2>2
<1>7. OwnOutcome'
  <2> SUFFICES ASSUME NEW s \in Requests
               PROVE  /\ Len(answer'[s]) = (IF task'[s].phase = "ended" THEN 1 ELSE 0)
                      /\ \A i \in DOMAIN answer'[s] :
                            answer'[s][i].kind = "answer" => answer'[s][i].of = s /\ executed[s] > 0
    BY DEF OwnOutcome
  <2>1. CASE s # r \/ StaysOpen(r, next)
    <3>1. answer'[s] = answer[s]
      BY <2>1 DEF StaysOpen, EndsWith, PoolInv, Types
    <3>2. task'[s].phase = "ended" <=> task[s].phase = "ended"
      BY <1>1, <2>1 DEF StaysOpen
    <3> QED
      BY <3>1, <3>2 DEF PoolInv, OwnOutcome
  <2>2. CASE s = r /\ EndsWith(r, next, out)
    <3>1. answer[s] \in Seq(Outcomes) /\ Len(answer[s]) = 0
      BY <2>2 DEF EndsWith, PoolInv, Types, OwnOutcome, Connected
    <3>2. answer'[s] = Append(answer[s], out)
      BY <2>2 DEF EndsWith, PoolInv, Types
    <3>3. Len(answer'[s]) = 1 /\ DOMAIN answer'[s] = 1..1 /\ answer'[s][1] = out
      BY <3>1, <3>2
    <3>4. task'[s].phase = "ended" /\ s \in Tasks
      BY <1>1, <2>2 DEF EndsWith
    <3>5. \A i \in DOMAIN answer'[s] : answer'[s][i] = out
      BY <3>3
    <3> QED
      BY <2>2, <3>3, <3>4, <3>5 DEF EndsWith
  <2> QED
    BY <2>1, <2>2
<1> QED
  BY <1>2, <1>3, <1>4, <1>5, <1>6, <1>7 DEF PoolInv

LEMMA PoolsSame ==
    ASSUME PoolInv, pool' = pool
    PROVE  Shrinks("requests") /\ Shrinks("tests") /\ pool' \in [Pools -> Seq(Conns)]
  BY DEF PoolInv, OneOwner, Shrinks, Types

LEMMA WiresSame ==
    ASSUME PoolInv, NEW r \in Tasks, wire' = wire, task[r].phase \notin Listening
    PROVE  WiresCleared(r)
  BY DEF PoolInv, Types, WiresCleared

LEMMA WiresClosed ==
    ASSUME PoolInv, NEW r \in Tasks, NEW C, wire' = Close(C),
           task[r].phase \in Listening => task[r].conn \in C,
           \A s \in Tasks \ {r} : task[s].phase \in Listening => task[s].conn \notin C
    PROVE  WiresCleared(r)
<1>1. \A c \in Conns : wire'[c] = IF c \in C THEN Closed ELSE wire[c]
  BY DEF Close
<1>2. Closed \in Wire /\ Blank(Closed)
  BY DEF Closed, Wire, Blank
<1>3. wire' \in [Conns -> Wire]
  BY <1>2 DEF Close, PoolInv, Types
<1>4. \A s \in Tasks : task[s].phase \in Listening => task[s].conn \in Conns
  BY DEF PoolInv, HasConnection, Types, TaskRecord, Connected, Listening
<1>5. \A c \in Conns : wire'[c] = wire[c] \/ Blank(wire'[c])
  BY <1>1, <1>2
<1>6. \A s \in Tasks \ {r} : task[s].phase \in Listening => wire'[task[s].conn] = wire[task[s].conn]
  BY <1>1, <1>4
<1>7. task[r].phase \in Listening => Blank(wire'[task[r].conn])
  BY <1>1, <1>2, <1>4
<1> QED
  BY <1>3, <1>5, <1>6, <1>7 DEF WiresCleared

\* Closing what no other task has.
LEMMA WiresUnheld ==
    ASSUME PoolInv, NEW r \in Tasks, NEW C, wire' = Close(C),
           C \subseteq Pooled \cup {task[r].conn},
           task[r].phase \in Listening => task[r].conn \in C
    PROVE  WiresCleared(r)
<1>1. ASSUME NEW s \in Tasks \ {r}, task[s].phase \in Listening PROVE task[s].conn \notin C
  <2>1. task[s].conn \in Held /\ task[s].conn # task[r].conn
    BY <1>1 DEF PoolInv, HasConnection, OneOwner, Held, Connected, Listening
  <2> QED
    BY <2>1 DEF PoolInv, OneOwner
<1> QED
  BY <1>1, WiresClosed

\* A failure, to have one where none is reported.
LEMMA SomeOutcome == \A r \in Tasks : \E out \in Outcomes : out.kind = "broken" /\ out.of = r
<1>1. \A r \in Tasks : [kind |-> "broken", of |-> r] \in Outcomes
  BY DEF Outcomes
<1> QED
  BY <1>1

-----------------------------------------------------------------------------
(***************************************************************************)
(* Every action keeps the invariant.                                       *)
(***************************************************************************)
LEMMA ReceiveStep ==
    ASSUME PoolInv, NEW r \in Tasks, Receive(r)
    PROVE  PoolInv'
<1> DEFINE next == [task[r] EXCEPT !.phase = "acquire"]
<1>1. task[r] \in TaskRecord /\ next \in TaskRecord
  BY DEF PoolInv, Types, TaskRecord, Phases
<1>2. task' = [task EXCEPT ![r] = next]
  BY DEF Receive
<1>3. next.phase = "acquire" /\ next.conn = task[r].conn /\ next.attempt = task[r].attempt
  BY <1>1 DEF TaskRecord
<1>4. task[r].phase = "idle"
  BY DEF Receive
<1> HIDE DEF next
<1>5. OneOwner'
  BY <1>1, <1>2, <1>3, PoolsSame, OwnersDrop DEF PoolInv, Receive
<1>6. StaysOpen(r, next)
  BY <1>3, <1>4 DEF StaysOpen, Receive, PoolInv, Counted, Connected, Listening
<1>7. WiresCleared(r)
  BY <1>4, WiresSame DEF Receive, Listening
<1>8. PICK out \in Outcomes : TRUE
  BY SomeOutcome
<1> QED
  BY <1>1, <1>2, <1>3, <1>5, <1>6, <1>7, <1>8, PoolsSame, MoveStep DEF Receive, Listening

LEMMA TakeStep ==
    ASSUME PoolInv, NEW r \in Tasks, NEW p \in Pools, NEW G,
           task[r].phase = "acquire", HasPermit(r),
           TakeFirst(p, G, r) \/ TakeNone(p, G, r),
           UNCHANGED <<updates, executed, answer>>
    PROVE  PoolInv'
<1>1. task[r] \in TaskRecord /\ pool[p] \in Seq(Conns)
  BY DEF PoolInv, Types
<1>2. r \in Requests => executed[r] <= task[r].attempt
  BY DEF PoolInv, Counted, Listening
<1>3. PICK out \in Outcomes : TRUE
  BY SomeOutcome
<1>4. \A q \in Pools : IsInjective(pool[q])
  BY DEF PoolInv, OneOwner, Pools
<1>5. ToSet(pool[p]) \subseteq Pooled
  BY DEF Pooled, Pools
<1>6. CASE TakeFirst(p, G, r)
  <2>1. PICK i \in DOMAIN pool[p] :
           /\ task' = [task EXCEPT ![r].phase = "write", ![r].conn = pool[p][i]]
           /\ pool' = [pool EXCEPT ![p] = SubSeq(@, i + 1, Len(@))]
           /\ wire' = Close({pool[p][j]: j \in 1..(i - 1)})
    BY <1>6 DEF TakeFirst
  <2> DEFINE c == pool[p][i]
             next == [task[r] EXCEPT !.phase = "write", !.conn = c]
             rest == SubSeq(pool[p], i + 1, Len(pool[p]))
  <2>2. c \in Conns /\ c \in ToSet(pool[p])
    BY <1>1 DEF ToSet
  <2>3. next \in TaskRecord
    BY <1>1, <2>2 DEF TaskRecord, Phases
  <2>4. next.phase = "write" /\ next.conn = c /\ next.attempt = task[r].attempt
    BY <1>1 DEF TaskRecord
  <2>5. task' = [task EXCEPT ![r] = next]
    BY <2>1
  <2>6. pool' \in [Pools -> Seq(Conns)] /\ pool'[p] = rest /\ \A q \in Pools \ {p} : pool'[q] = pool[q]
    BY <1>1, <2>1, RestOfSeq DEF PoolInv, Types
  <2>7. ToSet(rest) \subseteq ToSet(pool[p]) /\ IsInjective(rest) /\ c \notin ToSet(rest)
    BY <1>1, <1>4, RestOfSeq
  <2> HIDE DEF next, rest, c
  <2>8. \A q \in Pools : ToSet(pool'[q]) \subseteq ToSet(pool[q]) /\ IsInjective(pool'[q])
    BY <1>4, <2>6, <2>7
  <2>9. \A q \in Pools : c \notin ToSet(pool'[q])
    <3>1. \A q \in Pools \ {p} : c \notin ToSet(pool[q])
      BY <2>2 DEF PoolInv, OneOwner, Pools
    <3> QED
      BY <2>6, <2>7, <3>1
  <2>10. c \notin Held /\ c # NoConn
    BY <1>5, <2>2, PoolAssumption DEF PoolInv, OneOwner
  <2>11. OneOwner'
    BY <2>3, <2>4, <2>5, <2>8, <2>9, <2>10, OwnersTake DEF PoolInv, Shrinks, Pools
  <2>12. WiresCleared(r)
    <3>1. {pool[p][j]: j \in 1..(i - 1)} \subseteq ToSet(pool[p])
      <4>1. \A j \in 1..(i - 1) : j \in DOMAIN pool[p]
        BY <1>1
      <4> QED
        BY <4>1 DEF ToSet
    <3> QED
      BY <1>5, <2>1, <3>1, WiresUnheld DEF Listening
  <2>13. StaysOpen(r, next)
    BY <1>2, <2>4 DEF StaysOpen
  <2> QED
    BY <1>3, <2>3, <2>4, <2>5, <2>6, <2>10, <2>11, <2>12, <2>13, MoveStep DEF Listening
<1>7. CASE TakeNone(p, G, r)
  <2> DEFINE next == [task[r] EXCEPT !.phase = "connect"]
  <2>1. next \in TaskRecord
    BY <1>1 DEF TaskRecord, Phases
  <2>2. next.phase = "connect" /\ next.conn = task[r].conn /\ next.attempt = task[r].attempt
    BY <1>1 DEF TaskRecord
  <2>3. task' = [task EXCEPT ![r] = next]
    BY <1>7 DEF TakeNone
  <2> HIDE DEF next
  <2>4. pool' \in [Pools -> Seq(Conns)] /\ pool'[p] = <<>> /\ \A q \in Pools \ {p} : pool'[q] = pool[q]
    BY <1>7 DEF TakeNone, PoolInv, Types
  <2>5. ToSet(<<>>) = {} /\ IsInjective(<<>>)
    BY DEF ToSet, IsInjective
  <2>6. \A q \in Pools : ToSet(pool'[q]) \subseteq ToSet(pool[q]) /\ IsInjective(pool'[q])
    BY <1>4, <2>4, <2>5
  <2>7. OneOwner'
    BY <2>1, <2>2, <2>3, <2>6, OwnersDrop DEF PoolInv, Shrinks, Pools
  <2>8. WiresCleared(r)
    BY <1>5, <1>7, WiresUnheld DEF TakeNone, Listening
  <2>9. StaysOpen(r, next)
    BY <1>2, <2>2 DEF StaysOpen
  <2> QED
    BY <1>3, <2>1, <2>2, <2>3, <2>4, <2>7, <2>8, <2>9, MoveStep DEF Listening
<1> QED
  BY <1>6, <1>7

LEMMA AcquireStep ==
    ASSUME PoolInv, NEW r \in Tasks, Acquire(r) \/ AcquireForTest(r)
    PROVE  PoolInv'
<1>1. CASE Acquire(r)
  <2>1. HasPermit(r)
    BY <1>1 DEF Acquire, MayUpdate, HasPermit
  <2> QED
    BY <1>1, <2>1, TakeStep DEF Acquire, Pools
<1>2. CASE AcquireForTest(r)
  <2>1. HasPermit(r)
    BY <1>2, UpdatesSplit DEF AcquireForTest, HasPermit
  <2> QED
    BY <1>2, <2>1, TakeStep DEF AcquireForTest, Pools
<1> QED
  BY <1>1, <1>2

LEMMA ConnectStep ==
    ASSUME PoolInv, NEW r \in Tasks, Connect(r)
    PROVE  PoolInv'
<1>1. PICK c \in Conns \ (Held \cup Pooled) :
         /\ Goes(r, [task[r] EXCEPT !.phase = "write", !.tries = 0, !.conn = c])
         /\ wire' = [wire EXCEPT ![c] = [Closed EXCEPT !.open = TRUE]]
  BY DEF Connect
<1> DEFINE next == [task[r] EXCEPT !.phase = "write", !.tries = 0, !.conn = c]
           new == [Closed EXCEPT !.open = TRUE]
<1>2. task[r] \in TaskRecord /\ task[r].phase = "connect"
  BY DEF PoolInv, Types, Connect
<1>3. next \in TaskRecord
  BY <1>2 DEF TaskRecord, Phases
<1>4. next.phase = "write" /\ next.conn = c /\ next.attempt = task[r].attempt
  BY <1>2 DEF TaskRecord
<1>5. new \in Wire /\ Blank(new)
  <2>1. Closed \in Wire /\ Blank(Closed)
    BY DEF Closed, Wire, Blank
  <2> QED
    BY <2>1 DEF Wire, Blank
<1>6. task' = [task EXCEPT ![r] = next]
  BY <1>1 DEF Goes
<1>7. wire' = [wire EXCEPT ![c] = new]
  BY <1>1
<1>8. updates' = updates
  BY <1>1, <1>4 DEF Goes
<1> HIDE DEF next, new
<1>9. WiresCleared(r)
  <2>1. wire' \in [Conns -> Wire] /\ \A d \in Conns : wire'[d] = IF d = c THEN new ELSE wire[d]
    BY <1>1, <1>5, <1>7 DEF PoolInv, Types
  <2>2. \A s \in Tasks : task[s].phase \in Listening => task[s].conn \in Conns \ {c}
    BY <1>1 DEF PoolInv, HasConnection, Types, TaskRecord, Connected, Listening, Held
  <2> QED
    BY <1>2, <1>5, <2>1, <2>2 DEF WiresCleared, Listening
<1>10. OneOwner'
  <2>1. c # NoConn /\ c \notin Held /\ c \notin ToSet(pool'["requests"]) \cup ToSet(pool'["tests"])
    BY <1>1, PoolAssumption DEF Connect, Pooled
  <2> QED
    BY <1>3, <1>4, <1>6, <2>1, PoolsSame, OwnersTake DEF PoolInv, Connect
<1>11. StaysOpen(r, next)
  <2>1. HasPermit(r)
    BY <1>2 DEF PoolInv, Permitted, HasPermit
  <2>2. r \in Requests => executed[r] <= task[r].attempt
    BY <1>2 DEF PoolInv, Counted, Listening
  <2> QED
    BY <1>2, <1>4, <1>8, <2>1, <2>2 DEF StaysOpen, Connect
<1>12. PICK out \in Outcomes : TRUE
  BY SomeOutcome
<1>13. c # NoConn
  BY <1>1, PoolAssumption
<1> QED
  BY <1>3, <1>4, <1>6, <1>9, <1>10, <1>11, <1>12, <1>13, PoolsSame, MoveStep DEF Connect, Listening

\* A task without a connection, or one that drops it, goes on or ends.
LEMMA DropStep ==
    ASSUME PoolInv, NEW r \in Tasks, NEW next \in TaskRecord, task' = [task EXCEPT ![r] = next],
           next.conn = NoConn, next.phase \notin Connected,
           NEW out \in Outcomes, StaysOpen(r, next) \/ EndsWith(r, next, out),
           WiresCleared(r),
           pool' = pool \/ pool' = [pool EXCEPT !["requests"] = <<>>],
           executed' = executed
    PROVE  PoolInv'
<1>1. pool' \in [Pools -> Seq(Conns)]
  <2>1. pool \in [Pools -> Seq(Conns)] /\ <<>> \in Seq(Conns)
    BY DEF PoolInv, Types
  <2>2. CASE pool' = [pool EXCEPT !["requests"] = <<>>]
    BY <2>1, <2>2
  <2> QED
    BY <2>1, <2>2
<1>2. Shrinks("requests") /\ Shrinks("tests")
  <2>1. CASE pool' = pool
    BY <2>1, PoolsSame
  <2>2. CASE pool' = [pool EXCEPT !["requests"] = <<>>]
    <3>1. pool'["requests"] = <<>> /\ pool'["tests"] = pool["tests"]
      BY <2>2 DEF PoolInv, Types, Pools
    <3>2. ToSet(<<>>) = {} /\ IsInjective(<<>>)
      BY DEF ToSet, IsInjective
    <3> QED
      BY <3>1, <3>2 DEF Shrinks, PoolInv, OneOwner
  <2> QED
    BY <2>1, <2>2
<1>3. OneOwner'
  BY <1>2, OwnersDrop DEF PoolInv
<1> QED
  BY <1>1, <1>3, MoveStep DEF Connected, Listening

LEMMA RestingRecord ==
    /\ Resting \in TaskRecord /\ Resting.conn = NoConn /\ Resting.phase = "idle"
    /\ LET ended == [Resting EXCEPT !.phase = "ended"] IN
       ended \in TaskRecord /\ ended.conn = NoConn /\ ended.phase = "ended"
  BY PoolAssumption DEF Resting, TaskRecord, Phases

\* A request that ends is dropped with what it reports.
LEMMA FinishStep ==
    ASSUME PoolInv, NEW r \in Requests, NEW kind \in {"answer", "notReady", "broken"}, NEW of \in Tasks,
           Finish(r, kind, of),
           kind = "answer" => of = r /\ executed[r] > 0,
           task[r].phase \in {"connect"} \cup Connected
    PROVE  LET ended == [Resting EXCEPT !.phase = "ended"]
               out == [kind |-> kind, of |-> of]
           IN  /\ out \in Outcomes
               /\ task' = [task EXCEPT ![r] = ended]
               /\ EndsWith(r, ended, out)
<1>1. [kind |-> kind, of |-> of] \in Outcomes
  BY DEF Outcomes
<1> QED
  BY <1>1, RestingRecord DEF Finish, Goes, EndsWith

LEMMA ConnectFailsStep ==
    ASSUME PoolInv, NEW r \in Tasks, ConnectFails(r) \/ TestConnectFails(r)
    PROVE  PoolInv'
<1>1. task[r] \in TaskRecord /\ task[r].phase = "connect"
  BY DEF PoolInv, Types, ConnectFails, TestConnectFails
<1>2. WiresCleared(r)
  BY <1>1, WiresSame DEF ConnectFails, TestConnectFails, Listening
<1>3. HasPermit(r) /\ (r \in Requests => executed[r] <= task[r].attempt)
  BY <1>1 DEF PoolInv, Permitted, HasPermit, Counted, Listening
<1>4. PICK some \in Outcomes : TRUE
  BY SomeOutcome
<1>5. CASE ConnectFails(r) /\ task[r].tries + 1 < MaxConnects
  <2> DEFINE next == [task[r] EXCEPT !.tries = @ + 1]
  <2>1. next \in TaskRecord /\ next.phase = "connect" /\ next.conn = task[r].conn /\ next.attempt = task[r].attempt
    BY <1>1 DEF TaskRecord
  <2>2. task' = [task EXCEPT ![r] = next] /\ updates' = updates /\ answer' = answer
    BY <1>5, <2>1 DEF ConnectFails, Goes
  <2> HIDE DEF next
  <2>3. pool' = pool /\ executed' = executed
    BY <1>5 DEF ConnectFails
  <2>4. OneOwner'
    BY <2>1, <2>2, <2>3, PoolsSame, OwnersDrop DEF PoolInv
  <2>5. StaysOpen(r, next)
    BY <1>1, <1>3, <2>1, <2>2 DEF StaysOpen
  <2> QED
    BY <1>2, <1>4, <2>1, <2>2, <2>3, <2>4, <2>5, PoolsSame, MoveStep DEF Listening
<1>6. CASE ConnectFails(r) /\ ~(task[r].tries + 1 < MaxConnects)
  <2>1. PICK kind \in {"notReady", "broken"} : Finish(r, kind, r)
    BY <1>6 DEF ConnectFails
  <2> QED
    BY <1>1, <1>2, <1>6, <2>1, RestingRecord, FinishStep, DropStep DEF ConnectFails, Connected
<1>7. CASE TestConnectFails(r)
  <2>1. task' = [task EXCEPT ![r] = Resting] /\ updates' = updates
    BY <1>7, RestingRecord DEF TestConnectFails, Goes
  <2>2. StaysOpen(r, Resting)
    BY <1>1, <1>7, <2>1, RestingRecord, UpdatesSplit DEF StaysOpen, TestConnectFails, Connected
  <2> QED
    BY <1>2, <1>4, <1>7, <2>1, <2>2, RestingRecord, DropStep DEF TestConnectFails, Connected
<1> QED
  BY <1>5, <1>6, <1>7

LEMMA BreaksStep ==
    ASSUME PoolInv, NEW r \in Tasks, WriteBreaks(r) \/ ReadBreaks(r)
    PROVE  PoolInv'
<1> DEFINE c == task[r].conn
<1>1. /\ task[r] \in TaskRecord /\ task[r].phase \in {"write", "read"}
      /\ r \in Requests
      /\ task[r].phase \in Connected
  BY DEF PoolInv, Types, WriteBreaks, ReadBreaks, Connected
<1>2. PICK error \in {"os", "os2", "eof"} : Breaks(r, error)
  <2>1. WriteErrors \subseteq {"os", "os2", "eof"} /\ ReadErrors \subseteq {"os", "os2", "eof"}
    BY DEF WriteErrors, ReadErrors
  <2> QED
    BY <2>1 DEF WriteBreaks, ReadBreaks
<1>3. executed[r] <= task[r].attempt + 1
  <2>1. executed[r] \in Nat /\ task[r].attempt \in Nat
    BY <1>1 DEF PoolInv, Types, TaskRecord
  <2> QED
    BY <1>1, <2>1 DEF PoolInv, Counted, Listening
<1>4. PICK some \in Outcomes : TRUE
  BY SomeOutcome
<1>5. CASE Retried(r, error)
  <2> DEFINE next == [task[r] EXCEPT !.phase = "retry", !.conn = NoConn, !.attempt = @ + 1]
  <2>1. next \in TaskRecord
    <3>1. task[r].attempt + 1 \in 0..MaxRetries
      BY <1>1, <1>5, PoolAssumption DEF Retried, TaskRecord
    <3> QED
      BY <1>1, <3>1 DEF TaskRecord, Phases
  <2>2. next.phase = "retry" /\ next.conn = NoConn /\ next.attempt = task[r].attempt + 1
    BY <1>1 DEF TaskRecord
  <2>3. task' = [task EXCEPT ![r] = next] /\ updates' = updates
    BY <1>2, <1>5, <2>2 DEF Breaks, Goes
  <2> HIDE DEF next
  <2>4. StaysOpen(r, next)
    BY <1>1, <1>2, <1>3, <1>5, <2>2, <2>3 DEF StaysOpen, Breaks, Connected
  <2>5. WiresCleared(r)
    <3>1. wire' = Close({c} \cup ToSet(pool["requests"]))
      BY <1>2, <1>5 DEF Breaks
    <3> QED
      BY <3>1, WiresUnheld DEF Pooled
  <2> QED
    BY <1>2, <1>4, <1>5, <2>1, <2>2, <2>3, <2>4, <2>5, DropStep DEF Breaks, Connected
<1>6. CASE ~Retried(r, error)
  <2>1. PICK kind \in {"notReady", "broken"} : Finish(r, kind, r)
    BY <1>2, <1>6 DEF Breaks
  <2>2. wire' = Close({c}) /\ pool' = pool /\ executed' = executed
    BY <1>2, <1>6 DEF Breaks
  <2>3. WiresCleared(r)
    BY <2>2, WiresUnheld
  <2> QED
    BY <1>1, <2>1, <2>2, <2>3, RestingRecord, FinishStep, DropStep DEF Connected
<1> QED
  BY <1>5, <1>6

LEMMA RetryStep ==
    ASSUME PoolInv, NEW r \in Tasks, Retry(r)
    PROVE  PoolInv'
<1> DEFINE next == [task[r] EXCEPT !.phase = "acquire"]
<1>1. task[r] \in TaskRecord /\ task[r].phase = "retry"
  BY DEF PoolInv, Types, Retry
<1>2. next \in TaskRecord /\ next.phase = "acquire" /\ next.conn = task[r].conn /\ next.attempt = task[r].attempt
  BY <1>1 DEF TaskRecord, Phases
<1>3. task' = [task EXCEPT ![r] = next]
  BY DEF Retry
<1> HIDE DEF next
<1>4. OneOwner'
  BY <1>2, <1>3, PoolsSame, OwnersDrop DEF PoolInv, Retry
<1>5. StaysOpen(r, next)
  BY <1>1, <1>2 DEF StaysOpen, Retry, PoolInv, Counted, Connected, Listening
<1>6. WiresCleared(r)
  BY <1>1, WiresSame DEF Retry, Listening
<1>7. PICK out \in Outcomes : TRUE
  BY SomeOutcome
<1> QED
  BY <1>2, <1>3, <1>4, <1>5, <1>6, <1>7, PoolsSame, MoveStep DEF Retry, Listening

\* The answer that a task can read is its own, and all there is on its connection.
LEMMA OwnAnswerOnly ==
    ASSUME PoolInv, NEW r \in Tasks, task[r].phase = "read", Readable(task[r].conn)
    PROVE  /\ task[r].conn \in Conns
           /\ Answers(wire[task[r].conn], r) /\ ~wire[task[r].conn].part
           /\ r \in Requests => executed[r] > 0
<1> DEFINE c == task[r].conn
<1>1. c \in Conns
  BY DEF PoolInv, HasConnection, Types, TaskRecord, Connected
<1>2. wire[c].said # <<>>
  BY DEF Readable
<1>3. PICK s \in Tasks : task[s].conn = c /\ Answers(wire[c], s)
  BY <1>1, <1>2 DEF PoolInv, Carries, Blank, Awaits
<1>4. s = r
  BY <1>1, <1>3, PoolAssumption DEF PoolInv, OneOwner
<1>5. Len(<<r>>) = 1
  OBVIOUS
<1>6. ~wire[c].part
  BY <1>3, <1>4, <1>5 DEF Readable, Answers
<1>7. r \in Requests => executed[r] > 0
  BY <1>2 DEF PoolInv, Counted, Listening
<1> QED
  BY <1>1, <1>3, <1>4, <1>6, <1>7

\* A task that has read its answer drops its connection or gives it to a pool.
LEMMA ReleaseStep ==
    ASSUME PoolInv, NEW r \in Tasks, task[r].phase = "read", Readable(task[r].conn),
           NEW next \in TaskRecord, task' = [task EXCEPT ![r] = next],
           next.conn = NoConn, next.phase \notin Connected,
           NEW out \in Outcomes, StaysOpen(r, next) \/ EndsWith(r, next, out),
           NEW p \in Pools, Release(p, task[r].conn),
           executed' = executed
    PROVE  PoolInv'
<1> DEFINE c == task[r].conn
<1>1. c \in Conns /\ Answers(wire[c], r) /\ ~wire[c].part
  BY OwnAnswerOnly
<1>2. CASE Len(pool[p]) < MaxPool
  <2>1. pool' = [pool EXCEPT ![p] = Append(@, c)] /\ wire' = [wire EXCEPT ![c].said = Tail(@)]
    BY <1>2 DEF Release
  <2>2. pool' \in [Pools -> Seq(Conns)]
    <3>1. pool \in [Pools -> Seq(Conns)] /\ pool[p] \in Seq(Conns)
      BY DEF PoolInv, Types
    <3>2. Append(pool[p], c) \in Seq(Conns)
      BY <1>1, <3>1
    <3> QED
      BY <2>1, <3>1, <3>2
  <2>3. OneOwner'
    BY <1>1, <2>1, PoolAssumption, OwnersRelease DEF PoolInv
  <2> DEFINE new == [wire[c] EXCEPT !.said = Tail(@)]
  <2>4. wire[c] \in Wire /\ wire[c].said = <<r>> /\ Tail(<<r>>) = <<>>
    BY <1>1 DEF PoolInv, Types, Answers
  <2>5. new \in Wire /\ Blank(new)
    <3>1. <<>> \in Seq(Tasks)
      OBVIOUS
    <3> QED
      BY <1>1, <2>4, <3>1 DEF Wire, Blank, Answers
  <2> HIDE DEF new
  <2>6. wire' = [wire EXCEPT ![c] = new]
    BY <2>1 DEF new
  <2>7. WiresCleared(r)
    <3>1. wire' \in [Conns -> Wire] /\ \A d \in Conns : wire'[d] = IF d = c THEN new ELSE wire[d]
      BY <1>1, <2>5, <2>6 DEF PoolInv, Types
    <3>2. \A s \in Tasks \ {r} : task[s].phase \in Listening => task[s].conn \in Conns \ {c}
      BY <1>1, PoolAssumption DEF PoolInv, HasConnection, OneOwner, Types, TaskRecord, Connected, Listening
    <3> QED
      BY <1>1, <2>5, <3>1, <3>2 DEF WiresCleared
  <2> QED
    BY <2>2, <2>3, <2>7, MoveStep DEF Connected, Listening
<1>3. CASE ~(Len(pool[p]) < MaxPool)
  <2>1. wire' = Close({c}) /\ pool' = pool
    BY <1>3 DEF Release
  <2>2. WiresCleared(r)
    BY <2>1, WiresUnheld
  <2> QED
    BY <2>1, <2>2, DropStep
<1> QED
  BY <1>2, <1>3

LEMMA ReadAnswerStep ==
    ASSUME PoolInv, NEW r \in Tasks, ReadAnswer(r)
    PROVE  PoolInv'
<1>1. r \in Requests /\ task[r].phase = "read" /\ Readable(task[r].conn)
  BY DEF ReadAnswer
<1>2. Head(wire[task[r].conn].said) = r /\ executed[r] > 0
  BY <1>1, OwnAnswerOnly DEF Answers
<1>3. Finish(r, "answer", r)
  BY <1>2 DEF ReadAnswer
<1> QED
  BY <1>1, <1>2, <1>3, RestingRecord, FinishStep, ReleaseStep DEF ReadAnswer, Connected, Pools

LEMMA TestStep ==
    ASSUME PoolInv, NEW r \in Tasks, TestEnds(r) \/ TestTimesOut(r)
    PROVE  PoolInv'
<1>1. /\ r \in Tests
      /\ task[r].phase \in {"acquire", "connect", "write", "read", "spin"}
      /\ Goes(r, Resting)
      /\ executed' = executed /\ answer' = answer
  BY DEF TestEnds, TestTimesOut
<1>2. task' = [task EXCEPT ![r] = Resting] /\ updates' = updates
  BY <1>1, RestingRecord DEF Goes
<1>3. PICK some \in Outcomes : TRUE
  BY SomeOutcome
<1>4. StaysOpen(r, Resting)
  BY <1>1, <1>2, RestingRecord, UpdatesSplit DEF StaysOpen, Connected
<1>5. CASE wire' = Close({task[r].conn}) /\ pool' = pool
  <2>1. WiresCleared(r)
    BY <1>5, WiresUnheld
  <2> QED
    BY <1>1, <1>2, <1>3, <1>4, <1>5, <2>1, RestingRecord, DropStep DEF Connected
<1>6. CASE task[r].phase = "read" /\ Readable(task[r].conn) /\ Release("tests", task[r].conn)
  BY <1>1, <1>2, <1>3, <1>4, <1>6, RestingRecord, ReleaseStep DEF Connected, Pools
<1> QED
  BY <1>5, <1>6 DEF TestEnds, TestTimesOut

\* The wires other than one keep what they carry, and nobody takes or drops one.
LEMMA WriteStep ==
    ASSUME PoolInv, NEW r \in Tasks, Write(r)
    PROVE  PoolInv'
<1> DEFINE c == task[r].conn
           next == [task[r] EXCEPT !.phase = "read"]
           new == [wire[c] EXCEPT !.asked = Append(@, r)]
<1>1. task[r] \in TaskRecord /\ task[r].phase = "write" /\ c \in Conns
  BY DEF PoolInv, Types, HasConnection, TaskRecord, Connected, Write
<1>2. next \in TaskRecord /\ next.phase = "read" /\ next.conn = c /\ next.attempt = task[r].attempt
  BY <1>1 DEF TaskRecord, Phases
<1>3. task' = [task EXCEPT ![r] = next] /\ wire' = [wire EXCEPT ![c] = new]
  BY DEF Write
<1>4. \A s \in Tasks \ {r} : task[s].conn # c
  BY <1>1, PoolAssumption DEF PoolInv, OneOwner
<1>5. wire[c] \in Wire /\ Blank(wire[c])
  BY <1>1, <1>4 DEF PoolInv, Types, Carries, Listening
<1>6. new \in Wire /\ Awaits(new, r)
  <2>1. Append(<<>>, r) = <<r>> /\ <<r>> \in Seq(Tasks)
    OBVIOUS
  <2> QED
    BY <1>5, <2>1 DEF Wire, Blank, Awaits
<1> HIDE DEF next, new
<1>7. \A s \in Tasks : task'[s] = IF s = r THEN next ELSE task[s]
  BY <1>3 DEF PoolInv, Types
<1>8. \A d \in Conns : wire'[d] = IF d = c THEN new ELSE wire[d]
  BY <1>3 DEF PoolInv, Types
<1>9. UNCHANGED <<updates, pool, executed, answer>>
  BY DEF Write
<1>10. Types'
  BY <1>2, <1>3, <1>6, <1>9 DEF PoolInv, Types
<1>11. HasConnection'
  BY <1>1, <1>2, <1>7, PoolAssumption DEF PoolInv, HasConnection
<1>12. OneOwner'
  BY <1>2, <1>3, <1>9, PoolsSame, OwnersDrop DEF PoolInv
<1>13. Carries'
  <2> SUFFICES ASSUME NEW d \in Conns, ~Blank(wire'[d])
               PROVE  \E s \in Tasks :
                        /\ task'[s].conn = d /\ task'[s].phase \in Listening
                        /\ Awaits(wire'[d], s) \/ Answers(wire'[d], s)
    BY DEF Carries, Blank, Awaits, Answers
  <2>1. CASE d = c
    BY <1>2, <1>6, <1>7, <1>8, <2>1 DEF Listening
  <2>2. CASE d # c
    <3>1. wire'[d] = wire[d]
      BY <1>8, <2>2
    <3>2. PICK s \in Tasks :
             /\ task[s].conn = d /\ task[s].phase \in Listening
             /\ Awaits(wire[d], s) \/ Answers(wire[d], s)
      BY <3>1 DEF PoolInv, Carries, Blank
    <3>3. s # r
      BY <2>2, <3>2
    <3> QED
      BY <1>7, <3>1, <3>2, <3>3
  <2> QED
    BY <2>1, <2>2
<1>14. Permitted'
  BY <1>1, <1>2, <1>7, <1>9, UpdatesSplit DEF PoolInv, Permitted, Connected
<1>15. Counted'
  <2> SUFFICES ASSUME NEW s \in Requests
               PROVE  /\ task'[s].phase \notin Listening \cup {"ended"} => executed[s] <= task'[s].attempt
                      /\ task'[s].phase \in Listening =>
                           IF wire'[task'[s].conn].said = <<>> THEN executed[s] <= task'[s].attempt
                           ELSE executed[s] \in 1..(task'[s].attempt + 1)
                      /\ executed[s] <= MaxRetries + 1
    BY <1>9 DEF Counted, Listening
  <2>1. CASE s = r
    BY <1>1, <1>2, <1>6, <1>7, <1>8, <2>1, UpdatesSplit DEF PoolInv, Counted, Listening, Awaits
  <2>2. CASE s # r
    <3>1. task'[s] = task[s]
      BY <1>7, <2>2, UpdatesSplit
    <3>2. task[s].phase \in Listening => task[s].conn \in Conns \ {c}
      BY <1>4, <2>2, UpdatesSplit DEF PoolInv, HasConnection, Types, TaskRecord, Connected, Listening
    <3> QED
      BY <1>8, <3>1, <3>2 DEF PoolInv, Counted
  <2> QED
    BY <2>1, <2>2
<1>16. OwnOutcome'
  <2>1. \A s \in Requests : task'[s].phase = "ended" <=> task[s].phase = "ended"
    BY <1>1, <1>2, <1>7, UpdatesSplit
  <2> QED
    BY <1>9, <2>1 DEF PoolInv, OwnOutcome
<1> QED
  BY <1>10, <1>11, <1>12, <1>13, <1>14, <1>15, <1>16 DEF PoolInv

LEMMA SpinStep ==
    ASSUME PoolInv, NEW r \in Tasks, Spin(r)
    PROVE  PoolInv'
<1> DEFINE next == [task[r] EXCEPT !.phase = "spin"]
<1>1. task[r] \in TaskRecord /\ task[r].phase = "read"
  BY DEF PoolInv, Types, Spin
<1>2. next \in TaskRecord /\ next.phase = "spin" /\ next.conn = task[r].conn /\ next.attempt = task[r].attempt
  BY <1>1 DEF TaskRecord, Phases
<1>3. task' = [task EXCEPT ![r] = next]
  BY DEF Spin
<1> HIDE DEF next
<1>4. UNCHANGED <<updates, pool, wire, executed, answer>>
  BY DEF Spin
<1>5. \A s \in Tasks :
        /\ task'[s].conn = task[s].conn /\ task'[s].attempt = task[s].attempt
        /\ task'[s].phase = IF s = r THEN "spin" ELSE task[s].phase
  BY <1>2, <1>3 DEF PoolInv, Types
<1>6. Types'
  BY <1>2, <1>3, <1>4 DEF PoolInv, Types
<1>7. OneOwner'
  BY <1>2, <1>3, <1>4, PoolsSame, OwnersDrop DEF PoolInv
<1>8. HasConnection'
  BY <1>1, <1>5 DEF PoolInv, HasConnection, Connected
<1>9. Carries'
  BY <1>4, <1>5 DEF PoolInv, Carries, Listening, Blank, Awaits, Answers
<1>10. Permitted'
  BY <1>1, <1>4, <1>5, UpdatesSplit DEF PoolInv, Permitted, Connected
<1>11. Counted'
  BY <1>1, <1>4, <1>5, UpdatesSplit DEF PoolInv, Counted, Listening
<1>12. OwnOutcome'
  BY <1>1, <1>4, <1>5, UpdatesSplit DEF PoolInv, OwnOutcome
<1> QED
  BY <1>6, <1>7, <1>8, <1>9, <1>10, <1>11, <1>12 DEF PoolInv

\* What happens to the connections themselves: they end, age, or have an answer completed.
LEMMA WireStep ==
    ASSUME PoolInv, UNCHANGED <<task, updates, pool, executed, answer>>,
           wire' \in [Conns -> Wire],
           \A c \in Conns : /\ wire'[c].asked = wire[c].asked /\ wire'[c].said = wire[c].said
                            /\ wire'[c].part => wire[c].part
    PROVE  PoolInv'
<1>1. Types' /\ HasConnection' /\ Permitted' /\ OwnOutcome'
  BY DEF PoolInv, Types, HasConnection, Permitted, OwnOutcome
<1>2. OneOwner'
  BY DEF PoolInv, OneOwner, Held, Pooled
<1>3. Carries'
  BY DEF PoolInv, Carries, Blank, Awaits, Answers
<1>4. \A s \in Tasks : task[s].phase \in Listening => task[s].conn \in Conns
  BY DEF PoolInv, HasConnection, Types, TaskRecord, Connected, Listening
<1>5. Counted'
  BY <1>4, UpdatesSplit DEF PoolInv, Counted
<1> QED
  BY <1>1, <1>2, <1>3, <1>5 DEF PoolInv

LEMMA WiresStep ==
    ASSUME PoolInv,
           \/ \E c \in Conns : Ages(c) \/ ConnectionBreaks(c) \/ CoreCompletes(c)
           \/ CoreStarts \/ CoreEnds \/ CoreHangs
    PROVE  PoolInv'
<1> USE DEF hubVars
<1>1. ASSUME NEW c \in Conns, Ages(c) \/ ConnectionBreaks(c) \/ CoreCompletes(c) PROVE PoolInv'
  <2>1. wire[c] \in Wire /\ wire \in [Conns -> Wire]
    BY DEF PoolInv, Types
  <2>2. CASE Ages(c)
    BY <2>1, <2>2, WireStep DEF Ages, Wire
  <2>3. CASE ConnectionBreaks(c)
    BY <2>1, <2>3, WireStep DEF ConnectionBreaks, Wire, Fault
  <2>4. CASE CoreCompletes(c)
    BY <2>1, <2>4, WireStep DEF CoreCompletes, Wire
  <2> QED
    BY <1>1, <2>2, <2>3, <2>4
<1>2. CASE CoreStarts \/ CoreHangs
  BY <1>2, WireStep DEF CoreStarts, CoreHangs, PoolInv, Types
<1>3. CASE CoreEnds
  <2>1. wire' = [c \in Conns |-> [wire[c] EXCEPT !.open = FALSE]]
    BY <1>3 DEF CoreEnds
  <2>2. \A c \in Conns : wire[c] \in Wire
    BY DEF PoolInv, Types
  <2>3. wire' \in [Conns -> Wire]
    BY <2>1, <2>2 DEF Wire
  <2>4. \A c \in Conns : /\ wire'[c].asked = wire[c].asked /\ wire'[c].said = wire[c].said
                         /\ wire'[c].part => wire[c].part
    BY <2>1, <2>2 DEF Wire
  <2> QED
    BY <1>3, <2>3, <2>4, WireStep DEF CoreEnds
<1> QED
  BY <1>1, <1>2, <1>3

\* Connections at rest are dropped.
LEMMA PoolStep ==
    ASSUME PoolInv, UNCHANGED <<task, updates, executed, answer>>,
           pool' \in [Pools -> Seq(Conns)], Shrinks("requests"), Shrinks("tests"),
           NEW C \in SUBSET Pooled, wire' = Close(C)
    PROVE  PoolInv'
<1>1. \A s \in Tasks : task[s].phase \in Listening => task[s].conn \in Conns \ C
  BY DEF PoolInv, HasConnection, OneOwner, Types, TaskRecord, Connected, Listening, Held
<1>2. \A c \in Conns : wire'[c] = IF c \in C THEN Closed ELSE wire[c]
  BY DEF Close
<1>3. Closed \in Wire /\ Blank(Closed)
  BY DEF Closed, Wire, Blank
<1>4. wire' \in [Conns -> Wire]
  BY <1>3 DEF Close, PoolInv, Types
<1>5. Types' /\ HasConnection' /\ Permitted' /\ OwnOutcome'
  BY <1>4 DEF PoolInv, Types, HasConnection, Permitted, OwnOutcome
<1>6. OneOwner'
  <2>1. Held' = Held /\ Pooled' \subseteq Pooled
    BY DEF Held, Pooled, Shrinks
  <2> QED
    BY <2>1 DEF PoolInv, OneOwner, Shrinks
<1>7. Carries'
  <2> SUFFICES ASSUME NEW c \in Conns, ~Blank(wire'[c])
               PROVE  \E s \in Tasks :
                        /\ task[s].conn = c /\ task[s].phase \in Listening
                        /\ Awaits(wire'[c], s) \/ Answers(wire'[c], s)
    BY DEF Carries, Blank, Awaits, Answers
  <2>1. wire'[c] = wire[c]
    BY <1>2, <1>3
  <2> QED
    BY <2>1 DEF PoolInv, Carries, Blank
<1>8. Counted'
  BY <1>1, <1>2, UpdatesSplit DEF PoolInv, Counted
<1> QED
  BY <1>5, <1>6, <1>7, <1>8 DEF PoolInv

LEMMA RestStep ==
    ASSUME PoolInv, HealthCheck \/ CleanupPool
    PROVE  PoolInv'
<1>1. pool["requests"] \in Seq(Conns) /\ IsInjective(pool["requests"]) /\ IsInjective(pool["tests"])
  BY DEF PoolInv, Types, Pools, OneOwner
<1>2. ToSet(pool["requests"]) \subseteq Pooled
  BY DEF Pooled
<1>3. ASSUME NEW s \in Seq(Conns), pool' = [pool EXCEPT !["requests"] = s],
             ToSet(s) \subseteq ToSet(pool["requests"]), IsInjective(s)
      PROVE  pool' \in [Pools -> Seq(Conns)] /\ Shrinks("requests") /\ Shrinks("tests")
  <2>1. pool' \in [Pools -> Seq(Conns)] /\ pool'["requests"] = s /\ pool'["tests"] = pool["tests"]
    BY <1>3 DEF PoolInv, Types, Pools
  <2> QED
    BY <1>1, <1>3, <2>1 DEF Shrinks
<1>4. CASE HealthCheck
  <2> DEFINE rest == pool["requests"]
             kept == {i \in DOMAIN rest : UsableByRequest(rest[i])}
  <2>a. PICK n \in 0..(Len(rest) - 1) : \E at \in [1..n -> kept] :
           /\ \A i, j \in 1..n : i < j => at[i] < at[j]
           /\ pool' = [pool EXCEPT !["requests"] = [i \in 1..n |-> rest[at[i]]]]
           /\ wire' = Close({rest[i] : i \in DOMAIN rest \ kept})
    BY <1>4, Zenon DEF HealthCheck
  <2>1. PICK at \in [1..n -> kept] :
           /\ \A i, j \in 1..n : i < j => at[i] < at[j]
           /\ pool' = [pool EXCEPT !["requests"] = [i \in 1..n |-> rest[at[i]]]]
           /\ wire' = Close({rest[i] : i \in DOMAIN rest \ kept})
    BY <2>a, Zenon
  <2>2. n \in Nat /\ at \in [1..n -> DOMAIN rest]
    BY <1>1, <2>1
  <2> DEFINE s == [i \in 1..n |-> rest[at[i]]]
             C == {rest[i] : i \in DOMAIN rest \ kept}
  <2>3. s \in Seq(Conns) /\ ToSet(s) \subseteq ToSet(rest) /\ IsInjective(s)
    <3>1. Keeps(rest, n, at, s)
      BY <2>1, <2>2 DEF Keeps
    <3> HIDE DEF s, kept
    <3> QED
      BY <1>1, <3>1, KeptOfSeq
  <2>4. C \subseteq Pooled
    BY <1>2 DEF ToSet
  <2>5. pool' = [pool EXCEPT !["requests"] = s] /\ wire' = Close(C)
    BY <2>1
  <2>6. UNCHANGED <<task, updates, executed, answer>>
    BY <1>4 DEF HealthCheck
  <2> HIDE DEF s, C, kept
  <2> QED
    BY <1>3, <2>3, <2>4, <2>5, <2>6, PoolStep
<1>5. CASE CleanupPool
  <2>1. <<>> \in Seq(Conns) /\ ToSet(<<>>) = {} /\ IsInjective(<<>>)
    BY DEF ToSet, IsInjective
  <2>2. pool' = [pool EXCEPT !["requests"] = <<>>] /\ wire' = Close(ToSet(pool["requests"]))
    BY <1>5 DEF CleanupPool
  <2>3. UNCHANGED <<task, updates, executed, answer>>
    BY <1>5 DEF CleanupPool
  <2> QED
    BY <1>2, <1>3, <2>1, <2>2, <2>3, PoolStep
<1> QED
  BY <1>4, <1>5

LEMMA ExecuteStep ==
    ASSUME PoolInv, NEW c \in Conns, CoreExecutes(c)
    PROVE  PoolInv'
<1>1. wire[c] \in Wire /\ wire[c].asked # <<>>
  BY DEF PoolInv, Types, CoreExecutes
<1>2. PICK r \in Tasks : task[r].conn = c /\ task[r].phase \in Listening /\ Awaits(wire[c], r)
  BY <1>1 DEF PoolInv, Carries, Blank, Answers
<1>3. \A s \in Tasks \ {r} : task[s].conn # c
  BY <1>2, PoolAssumption DEF PoolInv, OneOwner
<1>4. Head(wire[c].asked) = r /\ Tail(wire[c].asked) = <<>> /\ Append(wire[c].said, r) = <<r>>
  BY <1>2 DEF Awaits
<1>5. PICK part \in BOOLEAN :
         wire' = [wire EXCEPT ![c].asked = Tail(@), ![c].said = Append(@, r), ![c].part = part]
  BY <1>4 DEF CoreExecutes
<1> DEFINE new == [[[wire[c] EXCEPT !.asked = <<>>] EXCEPT !.said = <<r>>] EXCEPT !.part = part]
<1>6. new \in Wire /\ Answers(new, r)
  <2>1. <<>> \in Seq(Tasks) /\ <<r>> \in Seq(Tasks)
    OBVIOUS
  <2> QED
    BY <1>1, <2>1 DEF Wire, Answers
<1>7. wire' = [wire EXCEPT ![c] = new]
  BY <1>1, <1>4, <1>5 DEF PoolInv, Types
<1> HIDE DEF new
<1>8. wire' \in [Conns -> Wire] /\ \A d \in Conns : wire'[d] = IF d = c THEN new ELSE wire[d]
  BY <1>6, <1>7 DEF PoolInv, Types
<1>9. executed' = IF r \in Requests THEN [executed EXCEPT ![r] = @ + 1] ELSE executed
  BY <1>4 DEF CoreExecutes
<1>10. UNCHANGED <<task, updates, pool, answer>>
  BY DEF CoreExecutes, hubVars
<1>11. /\ executed' \in [Requests -> Nat]
       /\ \A s \in Requests : executed'[s] = IF s = r THEN executed[s] + 1 ELSE executed[s]
       /\ \A s \in Requests : executed[s] \in Nat
  BY <1>9 DEF PoolInv, Types
<1>12. Types' /\ HasConnection' /\ Permitted'
  BY <1>8, <1>10, <1>11 DEF PoolInv, Types, HasConnection, Permitted
<1>13. OneOwner'
  BY <1>10 DEF PoolInv, OneOwner, Held, Pooled
<1>14. Carries'
  <2> SUFFICES ASSUME NEW d \in Conns, ~Blank(wire'[d])
               PROVE  \E s \in Tasks :
                        /\ task[s].conn = d /\ task[s].phase \in Listening
                        /\ Awaits(wire'[d], s) \/ Answers(wire'[d], s)
    BY <1>10 DEF Carries, Blank, Awaits, Answers
  <2>1. CASE d = c
    BY <1>2, <1>6, <1>8, <2>1
  <2>2. CASE d # c
    BY <1>8, <2>2 DEF PoolInv, Carries, Blank
  <2> QED
    BY <2>1, <2>2
<1>15. Counted'
  <2> SUFFICES ASSUME NEW s \in Requests
               PROVE  /\ task[s].phase \notin Listening \cup {"ended"} => executed'[s] <= task[s].attempt
                      /\ task[s].phase \in Listening =>
                           IF wire'[task[s].conn].said = <<>> THEN executed'[s] <= task[s].attempt
                           ELSE executed'[s] \in 1..(task[s].attempt + 1)
                      /\ executed'[s] <= MaxRetries + 1
    BY <1>10 DEF Counted, Listening
  <2>1. CASE s = r
    <3>1. wire[c].said = <<>> /\ wire'[c].said # <<>>
      <4>1. wire'[c].said = <<r>> /\ <<r>> # <<>>
        BY <1>6, <1>8 DEF Answers
      <4> QED
        BY <1>2, <4>1 DEF Awaits
    <3>2. task[r].attempt \in Nat /\ task[r].attempt <= MaxRetries
      BY PoolAssumption DEF PoolInv, Types, TaskRecord
    <3>3. executed[r] <= task[r].attempt
      BY <1>2, <2>1, <3>1 DEF PoolInv, Counted
    <3>4. task[r].phase \in Listening /\ task[r].phase # "ended" /\ task[r].conn = c
      BY <1>2 DEF Listening
    <3>5. executed'[r] = executed[r] + 1 /\ executed[r] \in Nat
      BY <1>11, <2>1
    <3>6. executed'[r] \in 1..(task[r].attempt + 1) /\ executed'[r] <= MaxRetries + 1
      BY <3>2, <3>3, <3>5, PoolAssumption
    <3> QED
      BY <2>1, <3>1, <3>4, <3>6
  <2>2. CASE s # r
    <3>1. task[s].phase \in Listening => task[s].conn \in Conns \ {c}
      BY <1>3, <2>2, UpdatesSplit DEF PoolInv, HasConnection, Types, TaskRecord, Connected, Listening
    <3> QED
      BY <1>8, <1>11, <2>2, <3>1 DEF PoolInv, Counted
  <2> QED
    BY <2>1, <2>2
<1>16. OwnOutcome'
  BY <1>10, <1>11 DEF PoolInv, OwnOutcome
<1> QED
  BY <1>12, <1>13, <1>14, <1>15, <1>16 DEF PoolInv

\* The hub, the core and the world, whatever they do.
HubNext ==
    \/ \E r \in Tasks : TaskStep(r)
    \/ \E c \in Conns : CoreStep(c)
    \/ EnvStep

LEMMA HubNextStep ==
    ASSUME PoolInv, HubNext
    PROVE  PoolInv' /\ \A r \in Requests : executed[r] > 0 => executed'[r] > 0
<1>1. ASSUME NEW r \in Tasks, TaskStep(r)
      PROVE  PoolInv' /\ executed' = executed
  <2>1. CASE Acquire(r) \/ AcquireForTest(r)
    BY <2>1, AcquireStep DEF Acquire, AcquireForTest
  <2>2. CASE Connect(r)
    BY <2>2, ConnectStep DEF Connect
  <2>3. CASE ConnectFails(r) \/ TestConnectFails(r)
    BY <2>3, ConnectFailsStep DEF ConnectFails, TestConnectFails
  <2>4. CASE Write(r)
    BY <2>4, WriteStep DEF Write
  <2>5. CASE WriteBreaks(r) \/ ReadBreaks(r)
    BY <2>5, BreaksStep DEF WriteBreaks, ReadBreaks, Breaks
  <2>6. CASE Retry(r)
    BY <2>6, RetryStep DEF Retry
  <2>7. CASE ReadAnswer(r)
    BY <2>7, ReadAnswerStep DEF ReadAnswer
  <2>8. CASE Spin(r)
    BY <2>8, SpinStep DEF Spin
  <2>9. CASE TestEnds(r)
    BY <2>9, TestStep DEF TestEnds
  <2> QED
    BY <1>1, <2>1, <2>2, <2>3, <2>4, <2>5, <2>6, <2>7, <2>8, <2>9 DEF TaskStep
<1>2. ASSUME NEW c \in Conns, CoreStep(c)
      PROVE  PoolInv' /\ \A r \in Requests : executed[r] > 0 => executed'[r] > 0
  <2>1. CASE CoreExecutes(c)
    <3>1. executed \in [Requests -> Nat]
      BY DEF PoolInv, Types
    <3>2. \A r \in Requests : executed'[r] \in {executed[r], executed[r] + 1}
      BY <2>1, <3>1 DEF CoreExecutes
    <3> QED
      BY <2>1, <3>1, <3>2, ExecuteStep
  <2>2. CASE CoreCompletes(c)
    BY <2>2, WiresStep DEF CoreCompletes
  <2> QED
    BY <1>2, <2>1, <2>2 DEF CoreStep
<1>3. CASE EnvStep
  <2>1. ASSUME NEW r \in Tests, Receive(r) \/ TestTimesOut(r) PROVE PoolInv' /\ executed' = executed
    BY <2>1, ReceiveStep, TestStep DEF Tasks, Receive, TestTimesOut
  <2>2. ASSUME NEW c \in Conns, Ages(c) \/ ConnectionBreaks(c) PROVE PoolInv' /\ executed' = executed
    BY <2>2, WiresStep DEF Ages, ConnectionBreaks
  <2>3. ASSUME HealthCheck \/ CleanupPool PROVE PoolInv' /\ executed' = executed
    BY <2>3, RestStep DEF HealthCheck, CleanupPool
  <2>4. ASSUME CoreStarts \/ CoreEnds \/ CoreHangs PROVE PoolInv' /\ executed' = executed
    BY <2>4, WiresStep DEF CoreStarts, CoreEnds, CoreHangs
  <2> QED
    BY <1>3, <2>1, <2>2, <2>3, <2>4 DEF EnvStep
<1> QED
  BY <1>1, <1>2, <1>3 DEF HubNext

LEMMA PoolInvInit == PoolInit => PoolInv
<1> SUFFICES ASSUME PoolInit PROVE PoolInv
  OBVIOUS
<1> USE DEF PoolInit
<1>1. \A r \in Tasks : task[r] = Resting
  OBVIOUS
<1>2. \A c \in Conns : wire[c] = Closed
  OBVIOUS
<1>3. pool["requests"] = <<>> /\ pool["tests"] = <<>> /\ ToSet(<<>>) = {} /\ IsInjective(<<>>)
  BY DEF ToSet, IsInjective
<1>4. Types
  <2>1. Resting \in TaskRecord
    BY RestingRecord
  <2>2. <<>> \in Seq(Updates) /\ <<>> \in Seq(Conns) /\ <<>> \in Seq(Outcomes) /\ <<>> \in Seq(Tasks)
    OBVIOUS
  <2>3. Closed \in Wire
    BY <2>2 DEF Closed, Wire
  <2> QED
    BY <2>1, <2>2, <2>3 DEF Types, Pools
<1>5. HasConnection /\ Permitted
  BY <1>1, RestingRecord, UpdatesSplit DEF HasConnection, Permitted, Connected
<1>6. OneOwner
  BY <1>1, <1>3, RestingRecord DEF OneOwner, Held, Pooled
<1>7. Carries
  BY <1>2 DEF Carries, Blank, Closed
<1>8. Counted
  BY <1>1, RestingRecord, UpdatesSplit, PoolAssumption DEF Counted, Listening, Resting
<1>9. OwnOutcome
  <2>1. Len(<<>>) = 0 /\ DOMAIN <<>> = {}
    OBVIOUS
  <2> QED
    BY <1>1, <2>1, RestingRecord, UpdatesSplit DEF OwnOutcome
<1> QED
  BY <1>4, <1>5, <1>6, <1>7, <1>8, <1>9 DEF PoolInv

LEMMA PoolInvStays == PoolInv /\ UNCHANGED vars => PoolInv'
<1> SUFFICES ASSUME PoolInv, UNCHANGED vars PROVE PoolInv'
  OBVIOUS
<1>1. UNCHANGED <<task, updates, pool, wire, executed, answer>>
  BY DEF vars, hubVars
<1> QED
  BY <1>1, WireStep DEF PoolInv, Types

-----------------------------------------------------------------------------
(***************************************************************************)
(* The calls.                                                              *)
(***************************************************************************)
CallRecord == [phase: {"idle", "waiting", "pause", "ok", "failed"}, attempt: Nat \ {0}, got: SUBSET Tasks]

\* A completer belongs to the attempt its call waits for; a call that will try again may.
CallsInv ==
    /\ PoolInv
    /\ call \in [Calls -> CallRecord]
    /\ pending \subseteq Requests
    /\ heard \in [Requests -> Nat]
    /\ \A r \in pending : r = Id(r[1]) /\ call[r[1]].phase = "waiting"
    /\ \A k \in Calls : call[k].phase = "pause" => call[k].attempt < Attempts[k]
    /\ \A k \in Calls : call[k].attempt <= Attempts[k]
    /\ OwnAnswer

LEMMA RequestIds ==
    /\ \A r \in Requests : r[1] \in Calls /\ r[2] \in 1..Attempts[r[1]] /\ r = <<r[1], r[2]>>
    /\ \A k \in Calls : \A n \in 1..Attempts[k] : <<k, n>> \in Requests
    /\ \A k \in Calls : Attempts[k] \in Nat \ {0}
  BY CallAssumption

LEMMA CallsInvInit == CallsInit => CallsInv
<1> SUFFICES ASSUME CallsInit PROVE CallsInv
  OBVIOUS
<1>1. PoolInv
  BY PoolInvInit DEF CallsInit
<1>2. \A k \in Calls : 1 <= Attempts[k]
  BY RequestIds
<1> QED
  BY <1>1, <1>2 DEF CallsInit, CallsInv, CallRecord, OwnAnswer

LEMMA SendStep ==
    ASSUME CallsInv, NEW k \in Calls, Send(k)
    PROVE  CallsInv'
<1> DEFINE n == IF call[k].phase = "idle" THEN 1 ELSE call[k].attempt + 1
           r == <<k, n>>
<1>1. call[k] \in CallRecord /\ call[k].phase \in {"idle", "pause"}
  BY DEF CallsInv, Send
<1>2. n \in 1..Attempts[k]
  BY <1>1, RequestIds DEF CallsInv, CallRecord
<1>3. /\ call' = [call EXCEPT ![k].phase = "waiting", ![k].attempt = n]
      /\ pending' = pending \cup {r}
      /\ Receive(r)
      /\ heard' = heard
  BY DEF Send
<1>4. r \in Requests /\ r[1] = k
  BY <1>2, RequestIds
<1>5. PoolInv' /\ executed' = executed
  BY <1>3, <1>4, ReceiveStep, UpdatesSplit DEF CallsInv, Receive
<1> HIDE DEF n
<1>6. /\ call' \in [Calls -> CallRecord]
      /\ \A j \in Calls \ {k} : call'[j] = call[j]
      /\ call'[k].phase = "waiting" /\ call'[k].attempt = n
  <2> DEFINE next == [call[k] EXCEPT !.phase = "waiting", !.attempt = n]
  <2>1. n \in Nat \ {0}
    BY <1>2, RequestIds
  <2>2. next \in CallRecord /\ next.phase = "waiting" /\ next.attempt = n
    BY <1>1, <2>1 DEF CallRecord
  <2>3. call' = [call EXCEPT ![k] = next]
    BY <1>3
  <2> HIDE DEF next
  <2> QED
    BY <2>2, <2>3 DEF CallsInv
<1>7. ASSUME NEW s \in pending' PROVE s = Id(s[1])' /\ call'[s[1]].phase = "waiting"
  <2>1. CASE s = r
    BY <1>4, <1>6, <2>1 DEF Id
  <2>2. CASE s \in pending
    <3>1. s[1] \in Calls \ {k}
      BY <1>1, <2>2, RequestIds DEF CallsInv
    <3> QED
      BY <1>6, <2>2, <3>1 DEF CallsInv, Id
  <2> QED
    BY <1>3, <1>7, <2>1, <2>2
<1>8. OwnAnswer'
  <2> SUFFICES ASSUME NEW j \in Calls, call'[j].phase = "ok"
               PROVE  call'[j].got = {<<j, call'[j].attempt>>} /\ executed'[<<j, call'[j].attempt>>] > 0
    BY DEF OwnAnswer, Id
  <2>1. j # k
    BY <1>6
  <2> QED
    BY <1>5, <1>6, <2>1 DEF CallsInv, OwnAnswer, Id
<1>9. \A j \in Calls : call'[j].attempt <= Attempts[j]
  BY <1>2, <1>6, RequestIds DEF CallsInv
<1> QED
  BY <1>3, <1>4, <1>5, <1>6, <1>7, <1>8, <1>9 DEF CallsInv

LEMMA ResponseStep ==
    ASSUME CallsInv, NEW r \in Requests, HandleResponse(r)
    PROVE  CallsInv'
<1> DEFINE said == answer[r][heard[r] + 1]
           k == r[1]
<1>1. UNCHANGED vars /\ heard[r] < Len(answer[r]) /\ heard' = [heard EXCEPT ![r] = @ + 1]
  BY DEF HandleResponse
<1>2. PoolInv' /\ executed' = executed
  BY <1>1, PoolInvStays DEF CallsInv, vars
<1>3. heard[r] \in Nat /\ heard' \in [Requests -> Nat]
  BY <1>1 DEF CallsInv
<1>4. heard[r] + 1 \in DOMAIN answer[r] /\ said \in Outcomes
  <2>1. answer[r] \in Seq(Outcomes)
    BY DEF CallsInv, PoolInv, Types
  <2>2. heard[r] + 1 \in DOMAIN answer[r]
    BY <1>1, <1>3, <2>1
  <2> QED
    BY <2>1, <2>2
<1>5. said.of \in Tasks /\ (said.kind = "answer" => said.of = r /\ executed[r] > 0)
  BY <1>4 DEF Outcomes, CallsInv, PoolInv, OwnOutcome
<1>6. k \in Calls /\ r[2] \in 1..Attempts[k] /\ r = <<k, r[2]>>
  BY RequestIds
<1>7. CASE r \notin pending
  <2>1. call' = call /\ pending' = pending
    BY <1>7 DEF HandleResponse
  <2> QED
    BY <1>2, <1>3, <2>1 DEF CallsInv, Id, OwnAnswer
<1>8. CASE r \in pending
  <2>0. PICK decoded \in BOOLEAN :
           /\ pending' = pending \ {r}
           /\ call' = [call EXCEPT ![k].phase =
                         CASE said.kind = "answer" /\ decoded -> "ok"
                           [] said.kind # "notReady" /\ r[2] < Attempts[k] -> "pause"
                           [] OTHER -> "failed",
                       ![k].got = {said.of}]
    BY <1>8 DEF HandleResponse
  <2> DEFINE phase == CASE said.kind = "answer" /\ decoded -> "ok"
                        [] said.kind # "notReady" /\ r[2] < Attempts[k] -> "pause"
                        [] OTHER -> "failed"
             next == [call[k] EXCEPT !.phase = phase, !.got = {said.of}]
  <2>1. pending' = pending \ {r} /\ call' = [call EXCEPT ![k] = next]
    <3>1. call \in [Calls -> CallRecord]
      BY DEF CallsInv
    <3>2. call' = [call EXCEPT ![k].phase = phase, ![k].got = {said.of}]
      BY <2>0
    <3> HIDE DEF phase, said
    <3> QED
      BY <1>6, <2>0, <3>1, <3>2
  <2>2. call[k] \in CallRecord /\ r = <<k, call[k].attempt>>
    BY <1>6, <1>8 DEF CallsInv, Id
  <2>3. /\ phase \in {"ok", "pause", "failed"}
        /\ phase = "ok" => said.kind = "answer"
        /\ phase = "pause" => r[2] < Attempts[k]
    OBVIOUS
  <2> HIDE DEF phase
  <2>4. /\ next \in CallRecord /\ next.phase = phase /\ next.got = {said.of}
        /\ next.attempt = call[k].attempt
    BY <1>5, <2>2, <2>3 DEF CallRecord
  <2> HIDE DEF next, said
  <2>5. call' \in [Calls -> CallRecord] /\ \A j \in Calls : call'[j] = IF j = k THEN next ELSE call[j]
    BY <1>6, <2>1, <2>4 DEF CallsInv
  <2>6. ASSUME NEW s \in pending' PROVE s = Id(s[1])' /\ call'[s[1]].phase = "waiting"
    <3>1. s \in pending /\ s # r /\ s[1] \in Calls
      BY <2>1, <2>6, RequestIds DEF CallsInv
    <3>2. s = <<s[1], call[s[1]].attempt>>
      BY <3>1 DEF CallsInv, Id
    <3>3. s[1] # k
      BY <2>2, <3>1, <3>2
    <3> QED
      BY <2>5, <3>1, <3>3 DEF CallsInv, Id
  <2>7. \A j \in Calls : call'[j].phase = "pause" => call'[j].attempt < Attempts[j]
    <3>1. phase = "pause" => call[k].attempt < Attempts[k]
      <4>1. r[2] = call[k].attempt
        BY <2>2
      <4> QED
        BY <2>3, <4>1
    <3> QED
      BY <2>4, <2>5, <3>1 DEF CallsInv
  <2>8. OwnAnswer'
    <3> SUFFICES ASSUME NEW j \in Calls, call'[j].phase = "ok"
                 PROVE  call'[j].got = {<<j, call'[j].attempt>>} /\ executed'[<<j, call'[j].attempt>>] > 0
      BY DEF OwnAnswer, Id
    <3>1. CASE j = k
      BY <1>2, <1>5, <2>2, <2>3, <2>4, <2>5, <3>1
    <3>2. CASE j # k
      BY <1>2, <2>5, <3>2 DEF CallsInv, OwnAnswer, Id
    <3> QED
      BY <3>1, <3>2
  <2> QED
    BY <1>2, <1>3, <2>1, <2>4, <2>5, <2>6, <2>7, <2>8 DEF CallsInv
<1> QED
  BY <1>7, <1>8

LEMMA TimesOutStep ==
    ASSUME CallsInv, NEW k \in Calls, TimesOut(k)
    PROVE  CallsInv'
<1> DEFINE next == [call[k] EXCEPT !.phase = "failed"]
<1>1. UNCHANGED vars /\ heard' = heard /\ pending' = pending \ {Id(k)} /\ call' = [call EXCEPT ![k] = next]
  BY DEF TimesOut
<1>2. PoolInv' /\ executed' = executed
  BY <1>1, PoolInvStays DEF CallsInv, vars
<1>3. call[k] \in CallRecord
  BY DEF CallsInv
<1>4. next \in CallRecord /\ next.phase = "failed" /\ next.attempt = call[k].attempt
  BY <1>3 DEF CallRecord
<1> HIDE DEF next
<1>5. call' \in [Calls -> CallRecord] /\ \A j \in Calls : call'[j] = IF j = k THEN next ELSE call[j]
  BY <1>1, <1>4 DEF CallsInv
<1>6. ASSUME NEW s \in pending' PROVE s = Id(s[1])' /\ call'[s[1]].phase = "waiting"
  <2>1. s \in pending /\ s # Id(k) /\ s[1] \in Calls
    BY <1>1, <1>6, RequestIds DEF CallsInv
  <2>2. s[1] # k
    BY <2>1 DEF CallsInv
  <2> QED
    BY <1>5, <2>1, <2>2 DEF CallsInv, Id
<1>7. \A j \in Calls : call'[j].phase = "pause" => call'[j].attempt < Attempts[j]
  BY <1>4, <1>5 DEF CallsInv
<1>8. OwnAnswer'
  BY <1>2, <1>4, <1>5 DEF CallsInv, OwnAnswer, Id
<1> QED
  BY <1>1, <1>2, <1>4, <1>5, <1>6, <1>7, <1>8 DEF CallsInv

LEMMA CallsInvStep == CallsInv /\ [CallsNext]_allVars => CallsInv'
<1> SUFFICES ASSUME CallsInv, [CallsNext]_allVars PROVE CallsInv'
  OBVIOUS
<1>1. ASSUME NEW k \in Calls, Send(k) \/ TimesOut(k) PROVE CallsInv'
  BY <1>1, SendStep, TimesOutStep
<1>2. ASSUME NEW r \in Requests, HandleResponse(r) PROVE CallsInv'
  BY <1>2, ResponseStep
<1>3. CASE HubNext /\ UNCHANGED callVars
  <2>1. PoolInv' /\ \A r \in Requests : executed[r] > 0 => executed'[r] > 0
    BY <1>3, HubNextStep DEF CallsInv
  <2>2. UNCHANGED <<call, pending, heard>>
    BY <1>3 DEF callVars
  <2>3. ASSUME NEW k \in Calls PROVE Id(k) \in Requests
    <3>1. call[k].attempt \in 1..Attempts[k]
      <4>1. call[k] \in CallRecord /\ call[k].attempt <= Attempts[k]
        BY DEF CallsInv
      <4> QED
        BY <4>1, RequestIds DEF CallRecord
    <3> QED
      BY <3>1, RequestIds DEF Id
  <2> QED
    BY <2>1, <2>2, <2>3 DEF CallsInv, OwnAnswer, Id
<1>4. CASE UNCHANGED allVars
  <2>1. UNCHANGED vars /\ UNCHANGED <<call, pending, heard, executed>>
    BY <1>4 DEF allVars, callVars, vars
  <2> QED
    BY <2>1, PoolInvStays DEF CallsInv, OwnAnswer, Id
<1> QED
  BY <1>1, <1>2, <1>3, <1>4 DEF CallsNext, HubNext

-----------------------------------------------------------------------------
(***************************************************************************)
(* The theorems.                                                           *)
(***************************************************************************)

\* The inductive invariant holds throughout every behaviour of the requests.
THEOREM CallsInductive == CallsSpec => []CallsInv
<1>1. CallsInit => CallsInv
  BY CallsInvInit
<1>2. CallsInv /\ [CallsNext]_allVars => CallsInv'
  BY CallsInvStep
<1> QED
  BY <1>1, <1>2, PTL DEF CallsSpec

\* No connection has two owners: two tasks never read from one connection, and none
\* reads from a connection that lies in a pool (handlers.rs, connection.rs).
THEOREM OneOwnerAlways == CallsSpec => []OneOwner
<1>1. CallsInv => OneOwner
  BY DEF CallsInv, PoolInv
<1> QED
  BY <1>1, CallsInductive, PTL

\* A connection in a pool owes nobody an answer, however requests break, are retried or
\* are given up: the next task that takes it reads its own answer.
THEOREM NothingOwedAlways == CallsSpec => []NothingOwed
<1>1. CallsInv => NothingOwed
  <2> SUFFICES ASSUME CallsInv, NEW c \in Pooled PROVE Blank(wire[c])
    BY DEF NothingOwed, Blank
  <2>1. c \in Conns
    <3>1. PICK q \in Pools : c \in ToSet(pool[q])
      BY DEF Pooled, Pools
    <3> QED
      BY <3>1 DEF CallsInv, PoolInv, Types, ToSet
  <2>2. c \notin Held
    BY DEF CallsInv, PoolInv, OneOwner
  <2>3. \A r \in Tasks : task[r].conn # c
    BY <2>1, <2>2, PoolAssumption DEF Held
  <2> QED
    BY <2>1, <2>3 DEF CallsInv, PoolInv, Carries
<1> QED
  BY <1>1, CallsInductive, PTL

\* The core never has two updates of the configuration to do or to answer
\* (CONFIG_UPDATE_SEMAPHORE), through retries and connections that break.
THEOREM OneUpdateAlways == CallsSpec => []OneUpdate
<1>1. CallsInv => OneUpdate
  <2> SUFFICES ASSUME CallsInv, NEW c \in Conns, NEW r \in Updates, r \in ToSet(wire[c].asked)
               PROVE  r = Head(updates)
    BY DEF OneUpdate
  <2>1. wire[c].asked # <<>>
    BY DEF ToSet
  <2>2. PICK s \in Tasks : task[s].phase \in Listening /\ wire[c].asked = <<s>>
    BY <2>1 DEF CallsInv, PoolInv, Carries, Blank, Awaits, Answers
  <2>3. r = s
    BY <2>2 DEF ToSet
  <2> QED
    BY <2>2, <2>3 DEF CallsInv, PoolInv, Permitted, Connected, Listening
<1> QED
  BY <1>1, CallsInductive, PTL

\* A call that succeeds has the answer to its own last request, and the core has
\* executed it, however late the answers of earlier attempts come in.
THEOREM OwnAnswerAlways == CallsSpec => []OwnAnswer
<1>1. CallsInv => OwnAnswer
  BY DEF CallsInv
<1> QED
  BY <1>1, CallsInductive, PTL

\* The hub answers a request once, when its task ends, and the core executes it at most
\* once for every time the hub may send it.
THEOREM AnsweredOnceAlways == CallsSpec => []AnsweredOnce
<1>1. CallsInv => AnsweredOnce
  BY DEF CallsInv, PoolInv, OwnOutcome, Counted, AnsweredOnce
<1> QED
  BY <1>1, CallsInductive, PTL

=============================================================================
