--------------------------- MODULE LifecycleProofs ---------------------------
(***************************************************************************)
(* Proofs about Lifecycle, for any number of calls and failures.           *)
(***************************************************************************)
EXTENDS Lifecycle, SequenceTheorems, TLAPS

-----------------------------------------------------------------------------
(***************************************************************************)
(* Type correctness.                                                       *)
(***************************************************************************)

\* A sequence without one of its elements is over the same set.
LEMMA RemoveAtType ==
    ASSUME NEW S, NEW s \in Seq(S), NEW i \in DOMAIN s
    PROVE  RemoveAt(s, i) \in Seq(S)
<1>1. SubSeq(s, 1, i - 1) \in Seq(S)
  OBVIOUS
<1>2. SubSeq(s, i + 1, Len(s)) \in Seq(S)
  OBVIOUS
<1> QED
  BY <1>1, <1>2 DEF RemoveAt

\* Disowned requests and results are requests and results.
LEMMA DisownType ==
    ASSUME NEW C \in SUBSET Calls
    PROVE  /\ \A s \in Seq(Request) : Disown(C, s) \in Seq(Request)
           /\ \A s \in Seq(Result) : Disown(C, s) \in Seq(Result)
<1>1. ASSUME NEW s \in Seq(Request) PROVE Disown(C, s) \in Seq(Request)
  <2>1. \A j \in 1..Len(s) : s[j] \in Request
    OBVIOUS
  <2>2. DOMAIN s = 1..Len(s) /\ Len(s) \in Nat
    OBVIOUS
  <2>3. Disown(C, s) \in [1..Len(s) -> Request]
    BY <2>1, <2>2 DEF Disown, Request
  <2> QED
    BY <2>2, <2>3
<1>2. ASSUME NEW s \in Seq(Result) PROVE Disown(C, s) \in Seq(Result)
  <2>1. \A j \in 1..Len(s) : s[j] \in Result
    OBVIOUS
  <2>2. DOMAIN s = 1..Len(s) /\ Len(s) \in Nat
    OBVIOUS
  <2>3. Disown(C, s) \in [1..Len(s) -> Result]
    BY <2>1, <2>2 DEF Disown, Result
  <2> QED
    BY <2>2, <2>3
<1> QED
  BY <1>1, <1>2

\* What the hub, the service and the core do keeps the types.
LEMMA HubType ==
    ASSUME ProcessesTypeOK, HubStep \/ ((CoreDies \/ Hangs \/ UninstallTells) /\ Fault)
    PROVE  ProcessesTypeOK'
<1> USE DEF ProcessesTypeOK
<1>1. ASSUME NEW i \in DOMAIN requests, NEW ok \in BOOLEAN, Answer(i, ok)
      PROVE  requests' \in Seq(Request) /\ mail' \in Seq(Result)
  <2>1. requests[i] \in Request
    OBVIOUS
  <2>2. [by |-> requests[i].by, ok |-> ok] \in Result
    BY <2>1 DEF Request, Result
  <2> QED
    BY <1>1, <2>2, RemoveAtType DEF Answer
<1>2. ASSUME NEW i \in DOMAIN requests, NEW p \in {"cleans", "runs", "done", "failed"},
             requests' = [requests EXCEPT ![i].phase = p]
      PROVE  requests' \in Seq(Request)
  <2>1. \A j \in 1..Len(requests) : requests[j] \in Request
    OBVIOUS
  <2>2. DOMAIN requests = 1..Len(requests) /\ Len(requests) \in Nat
    OBVIOUS
  <2>3. requests' \in [1..Len(requests) -> Request]
    BY <1>2, <2>1, <2>2 DEF Request
  <2> QED
    BY <2>2, <2>3
<1>3. Fault => faults' \in 0..MaxFaults
  BY ProcessesAssumption DEF Fault, ProcessesAssumption
<1>4. CASE CoreDies /\ Fault
  BY <1>3, <1>4 DEF CoreDies, Events
<1>9. CASE Hangs /\ Fault
  BY <1>3, <1>9 DEF Hangs
<1>10. CASE UninstallTells /\ Fault
  <2>1. [by |-> NoCall, ok |-> TRUE] \in Result
    BY DEF Result
  <2>2. mail' \in Seq(Result)
    BY <1>10, <2>1 DEF UninstallTells
  <2>3. served' \in BOOLEAN /\ hung' \in BOOLEAN
    BY <1>10 DEF UninstallTells
  <2>4. seen' \subseteq Events /\ UNCHANGED <<requests, child>>
    BY <1>10 DEF UninstallTells, Events
  <2> QED
    BY <1>3, <1>10, <2>2, <2>3, <2>4
<1>5. ASSUME NEW i \in DOMAIN requests, Refuse(i) \/ Spawn(i) \/ NothingRuns(i) \/ Reaped(i), UNCHANGED faults
      PROVE  ProcessesTypeOK'
  BY <1>1, <1>5 DEF Refuse, Spawn, NothingRuns, Reaped
<1>6. ASSUME NEW i \in DOMAIN requests, Cleans(i) \/ Signal(i) \/ Executes(i), UNCHANGED faults
      PROVE  ProcessesTypeOK'
  BY <1>2, <1>6 DEF Cleans, Signal, Executes
<1>7. ASSUME NEW i \in DOMAIN requests, Reports(i), UNCHANGED faults
      PROVE  ProcessesTypeOK'
  BY <1>1, <1>7 DEF Reports
<1>8. ASSUME NEW i \in DOMAIN requests, SpawnFails(i) \/ Fails(i), Fault
      PROVE  ProcessesTypeOK'
  BY <1>1, <1>2, <1>3, <1>8 DEF SpawnFails, Fails
<1> QED
  BY <1>4, <1>5, <1>6, <1>7, <1>8, <1>9, <1>10 DEF HubStep

\* The records the calls go on with.
LEMMA RecordTypes ==
    ASSUME NEW r \in CallRecord, NEW ok \in BOOLEAN, NEW at \in Places
    PROVE  /\ Over(r, ok) \in CallRecord
           /\ Left(r, ok) \in CallRecord
           /\ [r EXCEPT !.at = at] \in CallRecord
           /\ [r EXCEPT !.at = at, !.answer = "none", !.api = "none", !.ok = FALSE] \in CallRecord
<1>1. "ended" \in Places /\ "returned" \in Places
  BY DEF Places
<1>2. \A place \in Places, answer \in {"none", "ok", "bad", "late"}, api \in {"none", "ok", "bad"}, good \in BOOLEAN :
         [r EXCEPT !.at = place, !.answer = answer, !.api = api, !.ok = good] \in CallRecord
  BY Zenon DEF CallRecord
<1>3. Over(r, ok) \in CallRecord
  BY <1>1, Zenon DEF CallRecord, Over
<1>4. [r EXCEPT !.at = "returned", !.ok = ok] \in CallRecord
  BY <1>1, Zenon DEF CallRecord
<1>5. Left(r, ok) \in CallRecord
  BY <1>3, <1>4 DEF Left
<1>6. [r EXCEPT !.at = at] \in CallRecord
  BY Zenon DEF CallRecord
<1> QED
  BY <1>2, <1>3, <1>5, <1>6

\* The record a call goes on with is one.
LEMMA GoesType ==
    ASSUME LifecycleTypeOK, NEW c \in Calls, NEW at \in Places
    PROVE  Goes(c, at) \in CallRecord
<1>1. call[c] \in CallRecord
  BY DEF LifecycleTypeOK
<1> QED
  BY <1>1, RecordTypes DEF Goes

\* Everything but the processes and the count of failures.
StateType ==
    /\ coreState \in {"stopped", "starting", "running", "stopping"}
    /\ startMode \in {"none", "service", "sidecar"}
    /\ fallbackRetry \in BOOLEAN
    /\ heartbeat \in BOOLEAN
    /\ call \in [Calls -> CallRecord]

\* The processes but for the count of failures.
ProcessesStay ==
    /\ requests \in Seq(Request) /\ mail \in Seq(Result)
    /\ child \in {"none", "alive", "dead", "leaving"} /\ served \in BOOLEAN /\ hung \in BOOLEAN
    /\ seen \subseteq Events

\* A request that is sent.
LEMMA SendType ==
    ASSUME LifecycleTypeOK, NEW c \in Calls, NEW kind \in ToHub \cup ToService, Send(c, kind)
    PROVE  ProcessesStay'
<1>1. [by |-> c, kind |-> kind, phase |-> "sent"] \in Request
  BY DEF Request
<1> QED
  BY <1>1 DEF ProcessesStay, Send, LifecycleTypeOK, ProcessesTypeOK

\* A stop that begins keeps the types.
LEMMA BeginStopType ==
    ASSUME LifecycleTypeOK, NEW c \in Calls, NEW r \in CallRecord, BeginStop(c, r), fallbackRetry' \in BOOLEAN
    PROVE  StateType' /\ ProcessesStay'
<1>1. [r EXCEPT !.at = "stopService"] \in CallRecord /\ [r EXCEPT !.at = "stopSidecar"] \in CallRecord
  BY RecordTypes DEF Places, Waiting, Limited
<1>2. StateType'
  BY <1>1 DEF BeginStop, Becomes, LifecycleTypeOK, StateType
<1>3. ProcessesStay'
  BY SendType DEF BeginStop, ToHub, ToService
<1> QED
  BY <1>2, <1>3

\* startCore keeps the types up to its first await.
LEMMA EnterType ==
    ASSUME LifecycleTypeOK, NEW c \in Calls, NEW r \in CallRecord, Enter(c, r)
    PROVE  StateType' /\ ProcessesStay'
<1>1. Left(r, coreState = "running") \in CallRecord /\ [r EXCEPT !.at = "configure"] \in CallRecord
  <2>1. (coreState = "running") \in BOOLEAN
    OBVIOUS
  <2>2. "configure" \in Places
    BY DEF Places
  <2> QED
    BY <2>1, <2>2, RecordTypes
<1> QED
  BY <1>1 DEF Enter, Becomes, LifecycleTypeOK, ProcessesTypeOK, StateType, ProcessesStay, processVars

\* A fallback keeps the types.
LEMMA FallBackType ==
    ASSUME LifecycleTypeOK, NEW c \in Calls, NEW attempt \in {"plain", "default"}, FallBack(c, attempt)
    PROVE  StateType' /\ ProcessesStay'
<1> DEFINE r == [Goes(c, "pause") EXCEPT !.attempt = attempt, !.overrides = FALSE,
                                         !.config = call[c].config /\ attempt = "plain"]
<1>1. Goes(c, "pause") \in CallRecord /\ call[c] \in CallRecord
  BY GoesType DEF Places, LifecycleTypeOK
<1>2. r \in CallRecord
  BY <1>1 DEF CallRecord
<1>3. CASE coreState = "running"
  BY <1>2, <1>3, BeginStopType DEF FallBack
<1>4. CASE coreState # "running"
  BY <1>2, <1>4 DEF FallBack, Becomes, LifecycleTypeOK, ProcessesTypeOK, StateType, ProcessesStay, processVars
<1> QED
  BY <1>3, <1>4

\* The way out of an attempt keeps the types.
LEMMA GivesBackType ==
    ASSUME LifecycleTypeOK, NEW c \in Calls, NEW ok \in BOOLEAN, GivesBack(c, ok), fallbackRetry' \in BOOLEAN
    PROVE  StateType' /\ ProcessesStay'
<1>1. Goes(c, "returned") \in CallRecord
  BY GoesType DEF Places
<1>2. Left(Goes(c, "returned"), ok) \in CallRecord
  BY <1>1, RecordTypes DEF Places
<1> QED
  BY <1>2 DEF GivesBack, Becomes, LifecycleTypeOK, ProcessesTypeOK, StateType, ProcessesStay, processVars

\* The end of an attempt keeps the types.
LEMMA DecideType ==
    ASSUME LifecycleTypeOK, NEW c \in Calls, NEW ok \in BOOLEAN, Decide(c, ok)
    PROVE  StateType' /\ ProcessesStay'
BY FallBackType, GivesBackType DEF Decide, LifecycleTypeOK

\* Every step keeps the types.
LEMMA TypeStep ==
    ASSUME LifecycleTypeOK, [LifecycleNext]_lifecycleVars
    PROVE  LifecycleTypeOK'
<1>1. Fault => faults' \in 0..MaxFaults
  BY ProcessesAssumption DEF Fault, ProcessesAssumption, LifecycleTypeOK, ProcessesTypeOK
<1>2. ASSUME StateType', ProcessesStay', faults' \in 0..MaxFaults, UNCHANGED installed PROVE LifecycleTypeOK'
  BY <1>2 DEF StateType, ProcessesStay, LifecycleTypeOK, ProcessesTypeOK
<1>3. ASSUME NEW c \in Calls, Continues(c) PROVE LifecycleTypeOK'
  <2>1. faults' \in 0..MaxFaults /\ UNCHANGED installed
    BY <1>1, <1>3 DEF Continues, LifecycleTypeOK, ProcessesTypeOK
  <2>2. call[c] \in CallRecord
    BY DEF LifecycleTypeOK
  <2>3. \A at \in Places : Goes(c, at) \in CallRecord
    BY GoesType
  <2>4. ASSUME NEW kind \in ToHub \cup ToService, Send(c, kind), StateType' PROVE LifecycleTypeOK'
    BY <1>2, <2>1, <2>4, SendType
  <2>5. CASE Configured(c)
    <3>1. StateType'
      BY <2>3, <2>5 DEF Configured, Becomes, StateType, stateVars, Places, Waiting, Limited, LifecycleTypeOK
    <3> QED
      BY <2>4, <2>5, <3>1 DEF Configured, ToHub, ToService
  <2> USE DEF Becomes, StateType, ProcessesStay, processVars, stateVars, Places, Waiting, Limited
  <2>6. CASE ConfigureFails(c)
    <3>1. Left(Goes(c, "returned"), FALSE) \in CallRecord
      BY <2>3, RecordTypes
    <3>2. CASE FallBack(c, "default")
      BY <3>2, FallBackType, <2>1, <1>2
    <3>3. CASE ~(MayFallBack(c) /\ call[c].config)
      BY <2>6, <3>1, <3>3, <2>1, <1>2 DEF ConfigureFails, LifecycleTypeOK, ProcessesTypeOK
    <3> QED
      BY <2>6, <3>2, <3>3 DEF ConfigureFails
  <2>7. CASE LimitPasses(c)
    <3>1. [call[c] EXCEPT !.answer = "late"] \in CallRecord
      BY <2>2 DEF CallRecord
    <3> QED
      BY <2>7, <3>1, <2>1, <1>2, DisownType DEF LimitPasses, LifecycleTypeOK, ProcessesTypeOK, Events
  <2>8. CASE ServiceAnswered(c)
    <3>1. CASE call[c].answer = "ok"
      BY <2>8, <3>1, <2>3, <2>1, <1>2 DEF ServiceAnswered, LifecycleTypeOK, ProcessesTypeOK
    <3>2. CASE Decide(c, FALSE)
      BY <3>2, DecideType, <2>1, <1>2
    <3> QED
      BY <2>8, <3>1, <3>2 DEF ServiceAnswered
  <2>9. CASE Ready(c)
    BY <2>9, <2>3, <2>1, <1>2 DEF Ready, LifecycleTypeOK, ProcessesTypeOK
  <2>10. CASE NotReady(c) \/ Undone(c) \/ Validated(c) \/ NotValid(c)
    BY <2>10, DecideType, <2>1, <1>2 DEF NotReady, Undone, Validated, NotValid
  <2>11. ASSUME NEW api \in {"ok", "bad"}, Polled(c, api) PROVE LifecycleTypeOK'
    <3>1. [call[c] EXCEPT !.api = api] \in CallRecord
      BY <2>2 DEF CallRecord
    <3> QED
      BY <2>11, <3>1, <2>1, <1>2 DEF Polled, LifecycleTypeOK, ProcessesTypeOK
  <2>12. CASE Launched(c)
    <3>1. CASE call[c].answer = "ok" /\ call[c].api = "ok"
      BY <2>12, <3>1, <2>3, <2>1, <1>2 DEF Launched, LifecycleTypeOK, ProcessesTypeOK
    <3>2. CASE ~(call[c].answer = "ok" /\ call[c].api = "ok")
      <4>1. StateType'
        BY <2>3, <2>12, <3>2 DEF Launched, LifecycleTypeOK
      <4> QED
        BY <2>4, <2>12, <3>2, <4>1 DEF Launched, ToHub, ToService
    <3> QED
      BY <3>1, <3>2
  <2>13. CASE Initialised(c)
    BY <2>13, <2>3, <2>1, <1>2 DEF Initialised, LifecycleTypeOK, ProcessesTypeOK
  <2>14. CASE StopLate(c)
    <3>1. StateType'
      BY <2>3, <2>14 DEF StopLate, LifecycleTypeOK
    <3> QED
      BY <2>4, <2>14, <3>1 DEF StopLate, ToHub, ToService
  <2>15. CASE StopOver(c)
    <3>1. Over(Goes(c, "ended"), TRUE) \in CallRecord
      <4>1. Goes(c, "ended") \in CallRecord
        BY <2>3
      <4> QED
        BY <4>1, RecordTypes
    <3> QED
      BY <2>15, <3>1, <2>3, <2>1, <1>2 DEF StopOver, LifecycleTypeOK, ProcessesTypeOK
  <2>16. CASE PauseOver(c)
    <3>1. CASE Enter(c, Goes(c, "configure"))
      BY <3>1, <2>3, EnterType, <2>1, <1>2
    <3>2. CASE call[c].attempt = "plain"
      BY <2>16, <3>2, <2>3, <2>1, <1>2 DEF PauseOver, LifecycleTypeOK, ProcessesTypeOK
    <3> QED
      BY <2>16, <3>1, <3>2 DEF PauseOver
  <2>17. CASE Returned(c)
    <3>1. Over(Goes(c, "ended"), call[c].ok) \in CallRecord
      <4>1. Goes(c, "ended") \in CallRecord
        BY <2>3
      <4>2. call[c].ok \in BOOLEAN
        BY <2>2 DEF CallRecord
      <4> QED
        BY <4>1, <4>2, RecordTypes
    <3>2. CASE FallBack(c, "default")
      BY <3>2, FallBackType, <2>1, <1>2
    <3>3. CASE ~FallBack(c, "default")
      BY <2>17, <3>1, <3>3, <2>1, <1>2 DEF Returned, LifecycleTypeOK, ProcessesTypeOK
    <3> QED
      BY <3>2, <3>3
  <2> QED
    BY <1>3, <2>5, <2>6, <2>7, <2>8, <2>9, <2>10, <2>11, <2>12, <2>13, <2>14, <2>15, <2>16, <2>17
       DEF Continues, GoesOn
<1>4. ASSUME NEW c \in Calls, BeginStart(c) \/ BeginStopCore(c), UNCHANGED <<faults, installed>>
      PROVE  LifecycleTypeOK'
  <2>1. Goes(c, "idle") \in CallRecord
    BY GoesType DEF Places
  <2>2. Begun(c, "stop") \in CallRecord
    BY <2>1 DEF Begun, CallRecord
  <2>3. Over(Begun(c, "stop"), coreState # "stopping") \in CallRecord
    BY <2>2, RecordTypes DEF Places
  <2>4. faults' \in 0..MaxFaults
    BY <1>4 DEF LifecycleTypeOK, ProcessesTypeOK
  <2>5. CASE BeginStart(c)
    <3>1. PICK overrides \in BOOLEAN, config \in BOOLEAN :
             Enter(c, [Begun(c, "start") EXCEPT !.attempt = "first", !.overrides = overrides, !.config = config])
      BY <2>5 DEF BeginStart
    <3>2. [Begun(c, "start") EXCEPT !.attempt = "first", !.overrides = overrides, !.config = config] \in CallRecord
      BY <2>1 DEF Begun, CallRecord
    <3> QED
      BY <1>2, <1>4, <2>4, <3>1, <3>2, EnterType
  <2>6. CASE BeginStopCore(c) /\ coreState = "running"
    BY <1>2, <1>4, <2>2, <2>4, <2>6, BeginStopType DEF BeginStopCore, LifecycleTypeOK
  <2>7. CASE BeginStopCore(c) /\ coreState # "running"
    BY <1>2, <1>4, <2>3, <2>4, <2>7
       DEF BeginStopCore, Becomes, LifecycleTypeOK, ProcessesTypeOK, StateType, ProcessesStay, processVars
  <2> QED
    BY <1>4, <2>5, <2>6, <2>7
<1>5. CASE Delivers
  <2>1. \A c \in Calls : call'[c] \in CallRecord
    <3> TAKE c \in Calls
    <3>1. call[c] \in CallRecord
      BY DEF LifecycleTypeOK
    <3>2. [call[c] EXCEPT !.answer = IF Head(mail).ok THEN "ok" ELSE "bad"] \in CallRecord
      BY <3>1 DEF CallRecord
    <3> QED
      BY <1>5, <3>1, <3>2 DEF Delivers, Deliver
  <2>2. call' \in [Calls -> CallRecord]
    BY <1>5, <2>1 DEF Delivers, Deliver
  <2>3. Tail(mail) \in Seq(Result)
    BY <1>5 DEF Delivers, Deliver, LifecycleTypeOK, ProcessesTypeOK
  <2>4. PICK C \in SUBSET Calls : requests' = Disown(C, requests) /\ mail' = Disown(C, Tail(mail))
    BY <1>5 DEF Delivers, Deliver
  <2>5. requests' \in Seq(Request) /\ mail' \in Seq(Result)
    BY <2>3, <2>4, DisownType DEF LifecycleTypeOK, ProcessesTypeOK
  <2>6. seen' \subseteq Events
    BY <1>5 DEF Delivers, Deliver, LifecycleTypeOK, ProcessesTypeOK, Events
  <2> QED
    BY <1>5, <2>2, <2>5, <2>6 DEF Delivers, Deliver, stateVars, LifecycleTypeOK, ProcessesTypeOK
<1>6. CASE Hub
  BY <1>6, HubType DEF Hub, stateVars, LifecycleTypeOK
<1>7. CASE UNCHANGED lifecycleVars
  BY <1>7 DEF lifecycleVars, processVars, stateVars, LifecycleTypeOK, ProcessesTypeOK
<1> QED
  BY <1>3, <1>4, <1>5, <1>6, <1>7 DEF LifecycleNext

\* The types at the beginning.
LEMMA TypeInit == LifecycleInit => LifecycleTypeOK
<1>1. SUFFICES ASSUME LifecycleInit PROVE LifecycleTypeOK
  OBVIOUS
<1>2. ProcessesTypeOK
  <2>1. requests \in Seq(Request) /\ mail \in Seq(Result) /\ seen \subseteq Events
    BY <1>1 DEF LifecycleInit
  <2>2. faults \in 0..MaxFaults
    BY <1>1, ProcessesAssumption DEF LifecycleInit, ProcessesAssumption
  <2>3. child \in {"none", "alive", "dead", "leaving"}
    BY <1>1 DEF LifecycleInit
  <2>4. served \in BOOLEAN /\ hung \in BOOLEAN
    BY <1>1, Zenon DEF LifecycleInit
  <2> QED
    BY <2>1, <2>2, <2>3, <2>4 DEF ProcessesTypeOK
<1>3. [kind |-> "start", at |-> "idle", attempt |-> "none", overrides |-> FALSE, config |-> FALSE,
       answer |-> "none", api |-> "none", ok |-> FALSE, alone |-> TRUE] \in CallRecord
  BY DEF CallRecord, Places
<1> QED
  BY <1>1, <1>2, <1>3 DEF LifecycleInit, LifecycleTypeOK

\* The variables keep their types, for any number of calls and failures.
THEOREM LifecycleTypeCorrect == LifecycleSpec => []LifecycleTypeOK
BY TypeInit, TypeStep, PTL DEF LifecycleSpec

-----------------------------------------------------------------------------
(***************************************************************************)
(* What a step does to the call that takes it.                             *)
(***************************************************************************)
Starts(r) == r.at \notin {"idle", "ended"} /\ r.attempt # "none"
Stops(r) == r.at \in {"stopService", "stopSidecar"}
Retries(r) == r.at \notin {"idle", "ended"} /\ r.attempt \in {"plain", "default"}

\* A call that has not begun is as new, and a stop never is in a startCore.
Shape(r) ==
    /\ r.at = "idle" => r.attempt = "none" /\ r.alone
    /\ r.kind = "stop" => r.attempt = "none" /\ r.at \in {"idle", "ended", "stopService", "stopSidecar"}
    /\ r.kind = "start" /\ r.at \notin {"idle", "ended"} => r.attempt # "none"

\* The state of the core that belongs to where the only call is.
Fits(r, state) ==
    /\ r.at \in {"configure", "service", "ready", "launch", "undo", "init"} => state = "starting"
    /\ r.at = "validate" => state = "running"
    /\ Stops(r) => state = "stopping"
    /\ r.at = "pause" => state \in {"starting", "stopped"} /\ (r.attempt = "default" => state = "stopped")
    /\ r.at = "returned" => state = IF r.ok THEN "running" ELSE "stopped"
    /\ r.at = "ended" /\ r.kind = "start" => state = IF r.ok THEN "running" ELSE "stopped"
    /\ r.at = "ended" /\ r.kind = "stop" => r.ok /\ state = "stopped"

Beats == heartbeat <=> coreState = "running" /\ startMode = "service"

\* A transient state is left to the step's own call, or was another call's before.
Hands(r, q) ==
    /\ coreState' = "starting" => Starts(q) \/ (coreState = "starting" /\ ~Starts(r))
    /\ coreState' = "stopping" => Stops(q) \/ (coreState = "stopping" /\ ~Stops(r))
    /\ fallbackRetry' => Retries(q) \/ (fallbackRetry /\ ~Retries(r))

Moves(c, q) ==
    /\ call' = [call EXCEPT ![c] = q]
    /\ Shape(q) /\ q.at # "idle"
    /\ Hands(call[c], q)

\* The same of a call under way, which keeps what it is.
GoesWell(c) ==
    \E q \in CallRecord :
       /\ Moves(c, q)
       /\ q.kind = call[c].kind /\ q.alone = call[c].alone
       /\ Fits(call[c], coreState) /\ Beats => Fits(q, coreState') /\ Beats'
\* The fields of the records the calls go on with.
LEMMA RecordFields ==
    ASSUME NEW r \in CallRecord, NEW ok \in BOOLEAN, NEW at \in Places
    PROVE  /\ [r EXCEPT !.at = at].at = at
           /\ [r EXCEPT !.at = at].kind = r.kind /\ [r EXCEPT !.at = at].alone = r.alone
           /\ [r EXCEPT !.at = at].attempt = r.attempt /\ [r EXCEPT !.at = at].ok = r.ok
           /\ Over(r, ok).at = "ended" /\ Over(r, ok).ok = ok /\ Over(r, ok).attempt = "none"
           /\ Over(r, ok).kind = r.kind /\ Over(r, ok).alone = r.alone
           /\ r.attempt # "first" =>
                 /\ Left(r, ok).at = "returned" /\ Left(r, ok).ok = ok /\ Left(r, ok).attempt = r.attempt
                 /\ Left(r, ok).kind = r.kind /\ Left(r, ok).alone = r.alone
           /\ r.attempt = "first" => Left(r, ok) = Over(r, ok)
BY DEF CallRecord, Over, Left

\* The record of a startCore that has returned.
LEMMA LeftFields ==
    ASSUME NEW r \in CallRecord, NEW ok \in BOOLEAN
    PROVE  /\ Left(r, ok) \in CallRecord /\ Left(r, ok).kind = r.kind /\ Left(r, ok).alone = r.alone
           /\ Left(r, ok).ok = ok
           /\ \/ Left(r, ok).at = "returned" /\ Left(r, ok).attempt = r.attempt /\ r.attempt # "first"
              \/ Left(r, ok).at = "ended" /\ Left(r, ok).attempt = "none" /\ r.attempt = "first"
<1>1. "idle" \in Places
  BY DEF Places
<1>2. Left(r, ok) \in CallRecord
  BY <1>1, RecordTypes
<1>3. Left(r, ok).kind = r.kind
  BY <1>1, RecordFields
<1>4. Left(r, ok).alone = r.alone
  BY <1>1, RecordFields
<1>5. Left(r, ok).ok = ok
  BY <1>1, RecordFields
<1>6. \/ Left(r, ok).at = "returned" /\ Left(r, ok).attempt = r.attempt /\ r.attempt # "first"
      \/ Left(r, ok).at = "ended" /\ Left(r, ok).attempt = "none" /\ r.attempt = "first"
  BY <1>1, RecordFields
<1> QED
  BY <1>2, <1>3, <1>4, <1>5, <1>6

\* The record of a call that is over.
LEMMA OverFields ==
    ASSUME NEW r \in CallRecord, NEW ok \in BOOLEAN
    PROVE  /\ Over(r, ok) \in CallRecord /\ Over(r, ok).kind = r.kind /\ Over(r, ok).alone = r.alone
           /\ Over(r, ok).at = "ended" /\ Over(r, ok).ok = ok /\ Over(r, ok).attempt = "none"
<1>1. "idle" \in Places
  BY DEF Places
<1>2. Over(r, ok) \in CallRecord
  BY <1>1, RecordTypes
<1>3. Over(r, ok).kind = r.kind /\ Over(r, ok).alone = r.alone /\ Over(r, ok).at = "ended"
  BY <1>1, RecordFields
<1>4. Over(r, ok).ok = ok /\ Over(r, ok).attempt = "none"
  BY <1>1, RecordFields
<1> QED
  BY <1>2, <1>3, <1>4

\* The record of a call that is elsewhere.
LEMMA AtFields ==
    ASSUME NEW r \in CallRecord, NEW at \in Places
    PROVE  LET q == [r EXCEPT !.at = at] IN
           /\ q \in CallRecord /\ q.at = at
           /\ q.kind = r.kind /\ q.alone = r.alone /\ q.attempt = r.attempt /\ q.ok = r.ok
<1>1. [r EXCEPT !.at = at] \in CallRecord
  BY Zenon DEF CallRecord
<1> QED
  BY <1>1 DEF CallRecord

\* What a call keeps when it goes on.
LEMMA GoesFields ==
    ASSUME LifecycleTypeOK, NEW c \in Calls, NEW at \in Places
    PROVE  /\ Goes(c, at) \in CallRecord
           /\ Goes(c, at).at = at
           /\ Goes(c, at).kind = call[c].kind /\ Goes(c, at).alone = call[c].alone
           /\ Goes(c, at).attempt = call[c].attempt
<1>1. call[c] \in CallRecord
  BY DEF LifecycleTypeOK
<1> QED
  BY <1>1, GoesType DEF Goes, CallRecord

\* The ways out of an attempt.
LEMMA GivesBackGoesWell ==
    ASSUME LifecycleTypeOK, NEW c \in Calls, NEW ok \in BOOLEAN, Shape(call[c]), call[c].kind = "start",
           call[c].at \in {"configure", "service", "ready", "launch", "undo", "init", "validate"},
           coreState' = IF coreState = "starting" THEN "stopped" ELSE coreState,
           Becomes(c, Left(Goes(c, "returned"), ok)), UNCHANGED <<startMode, heartbeat, fallbackRetry>>,
           Fits(call[c], coreState) => (ok <=> coreState = "running")
    PROVE  GoesWell(c)
<1> DEFINE q == Left(Goes(c, "returned"), ok)
<1>1. /\ Goes(c, "returned") \in CallRecord
      /\ Goes(c, "returned").kind = call[c].kind /\ Goes(c, "returned").alone = call[c].alone
      /\ Goes(c, "returned").attempt = call[c].attempt
  BY GoesFields DEF Places
<1>2. q \in CallRecord /\ q.kind = call[c].kind /\ q.alone = call[c].alone
  BY <1>1, LeftFields
<1>3. \/ q.at = "returned" /\ q.ok = ok /\ q.attempt = call[c].attempt /\ call[c].attempt # "first"
      \/ q.at = "ended" /\ q.ok = ok /\ q.attempt = "none" /\ call[c].attempt = "first"
  BY <1>1, RecordFields DEF Places
<1>4. call' = [call EXCEPT ![c] = q]
  BY DEF Becomes
<1>5. Shape(q) /\ q.at # "idle"
  BY <1>2, <1>3 DEF Shape
<1>6. Hands(call[c], q)
  BY <1>3 DEF Hands, Starts, Stops, Retries, LifecycleTypeOK
<1>7. Fits(call[c], coreState) /\ Beats => Fits(q, coreState') /\ Beats'
  BY <1>2, <1>3 DEF Fits, Stops, Beats, LifecycleTypeOK
<1> QED
  BY <1>2, <1>4, <1>5, <1>6, <1>7 DEF GoesWell, Moves

\* A fallback hands the state over to the stop or the pause it begins.
LEMMA FallBackGoesWell ==
    ASSUME LifecycleTypeOK, NEW c \in Calls, Shape(call[c]), call[c].kind = "start",
           call[c].at \in {"configure", "service", "ready", "launch", "undo", "init", "validate", "returned"},
           NEW attempt \in {"plain", "default"}, FallBack(c, attempt)
    PROVE  GoesWell(c)
<1> DEFINE r == [Goes(c, "pause") EXCEPT !.attempt = attempt, !.overrides = FALSE,
                                         !.config = call[c].config /\ attempt = "plain"]
<1>1. /\ Goes(c, "pause") \in CallRecord /\ call[c] \in CallRecord
      /\ Goes(c, "pause").at = "pause"
      /\ Goes(c, "pause").kind = call[c].kind /\ Goes(c, "pause").alone = call[c].alone
  BY GoesFields DEF Places, LifecycleTypeOK
<1>2. r \in CallRecord
  BY <1>1 DEF CallRecord
<1>3. r.at = "pause" /\ r.attempt = attempt /\ r.kind = "start" /\ r.alone = call[c].alone
  BY <1>1 DEF CallRecord
<1>4. CASE coreState = "running"
  <2>1. PICK at \in {"stopService", "stopSidecar"} :
           /\ call' = [call EXCEPT ![c] = [r EXCEPT !.at = at]]
           /\ coreState' = "stopping"
           /\ IF startMode = "service" THEN heartbeat' = FALSE ELSE UNCHANGED heartbeat
    BY <1>4 DEF FallBack, BeginStop, Becomes
  <2> DEFINE q == [r EXCEPT !.at = at]
  <2>2. at \in Places
    BY DEF Places, Waiting, Limited
  <2>3. q \in CallRecord /\ q.at = at /\ q.attempt = attempt /\ q.kind = "start" /\ q.alone = call[c].alone
    <3> HIDE DEF r
    <3> QED
      BY <1>2, <1>3, <2>2, RecordTypes, RecordFields
  <2>4. Hands(call[c], q) /\ Shape(q)
    BY <2>1, <2>3 DEF Hands, Starts, Stops, Retries, Shape
  <2>5. Fits(call[c], coreState) /\ Beats => Fits(q, coreState') /\ Beats'
    BY <1>4, <2>1, <2>3 DEF Fits, Stops, Beats, LifecycleTypeOK
  <2> QED
    BY <2>1, <2>3, <2>4, <2>5 DEF GoesWell, Moves
<1>5. CASE coreState # "running"
  <2>1. /\ call' = [call EXCEPT ![c] = r] /\ UNCHANGED <<startMode, heartbeat>>
        /\ coreState' = IF attempt = "default" THEN "stopped" ELSE coreState
    BY <1>5 DEF FallBack, Becomes
  <2>2. Hands(call[c], r) /\ Shape(r)
    BY <2>1, <1>3 DEF Hands, Starts, Stops, Retries, Shape
  <2>3. Fits(call[c], coreState) /\ Beats => Fits(r, coreState') /\ Beats'
    BY <1>3, <1>5, <2>1 DEF Fits, Stops, Beats, LifecycleTypeOK
  <2> QED
    BY <1>2, <1>3, <2>1, <2>2, <2>3 DEF GoesWell, Moves
<1> QED
  BY <1>4, <1>5

\* An attempt ends in the state its result says.
LEMMA DecideGoesWell ==
    ASSUME LifecycleTypeOK, NEW c \in Calls, NEW ok \in BOOLEAN, Shape(call[c]), Decide(c, ok),
           call[c].at \in {"service", "ready", "undo", "validate"},
           call[c].at = "validate" => ok \/ (MayFallBack(c) /\ call[c].overrides),
           ok => call[c].at = "validate"
    PROVE  GoesWell(c)
<1>1. call[c].kind = "start"
  <2>1. call[c] \in CallRecord
    BY DEF LifecycleTypeOK
  <2> QED
    BY <2>1 DEF Shape, CallRecord
<1>2. CASE \E attempt \in {"plain", "default"} : FallBack(c, attempt)
  BY <1>1, <1>2, FallBackGoesWell
<1>3. CASE /\ ok \/ ~MayFallBack(c) \/ ~(call[c].overrides \/ call[c].config)
           /\ GivesBack(c, ok) /\ UNCHANGED fallbackRetry
  <2>1. Fits(call[c], coreState) => (ok <=> coreState = "running")
    BY <1>3 DEF Fits
  <2> QED
    BY <1>1, <1>3, <2>1, GivesBackGoesWell DEF GivesBack
<1> QED
  BY <1>2, <1>3 DEF Decide

\* A call that waits for something else, and nothing else changes.
LEMMA StepGoesWell ==
    ASSUME LifecycleTypeOK, NEW c \in Calls, NEW q \in CallRecord, call' = [call EXCEPT ![c] = q],
           q.kind = call[c].kind, q.alone = call[c].alone, q.attempt = call[c].attempt,
           call[c].at \notin {"idle", "ended"}, q.at \notin {"idle", "ended"},
           call[c].kind = "stop" => Stops(q), Shape(call[c]),
           UNCHANGED fallbackRetry,
           coreState' = coreState \/ (coreState' = "starting" /\ q.attempt # "none")
              \/ coreState' \in {"running", "stopped"},
           coreState' = "stopping" => Stops(q) \/ ~Stops(call[c]),
           Fits(call[c], coreState) /\ Beats => Fits(q, coreState') /\ Beats'
    PROVE  GoesWell(c)
<1>1. Hands(call[c], q)
  BY DEF Hands, Starts, Stops, Retries
<1>2. q.kind \in {"start", "stop"}
  BY DEF CallRecord
<1>3. Shape(q)
  BY <1>2 DEF Shape, Stops
<1> QED
  BY <1>1, <1>3 DEF GoesWell, Moves

\* Whatever a call under way does, it does well.
LEMMA ContinuesGoesWell ==
    ASSUME LifecycleTypeOK, NEW c \in Calls, Shape(call[c]), Continues(c)
    PROVE  GoesWell(c)
<1>1. call[c] \in CallRecord
  BY DEF LifecycleTypeOK
<1>2. call[c].kind \in {"start", "stop"}
  BY <1>1 DEF CallRecord
<1>3. \A at \in Places : /\ Goes(c, at) \in CallRecord
                         /\ Goes(c, at).at = at
                         /\ Goes(c, at).kind = call[c].kind /\ Goes(c, at).alone = call[c].alone
                         /\ Goes(c, at).attempt = call[c].attempt
  BY GoesFields
<1>4. {"service", "launch", "init", "ready", "undo", "validate", "stopSidecar", "pause", "configure", "ended"} \subseteq Places
  BY DEF Places, Waiting, Limited
<1>5. CASE Configured(c)
  <2>1. PICK at \in {"service", "launch"} : call' = [call EXCEPT ![c] = Goes(c, at)] /\ call[c].at = "configure"
    BY <1>5 DEF Configured, Becomes
  <2>2. UNCHANGED stateVars
    BY <1>5 DEF Configured
  <2>3. Fits(call[c], coreState) /\ Beats => Fits(Goes(c, at), coreState') /\ Beats'
    BY <1>3, <1>4, <2>1, <2>2 DEF Fits, Stops, Beats, stateVars
  <2>4. call[c].kind = "start"
    BY <1>2, <2>1 DEF Shape
  <2> QED
    BY <1>3, <1>4, <2>1, <2>2, <2>3, <2>4, StepGoesWell DEF stateVars, Stops
<1>6. CASE ConfigureFails(c)
  <2>1. call[c].at = "configure" /\ call[c].kind = "start"
    BY <1>2, <1>6 DEF ConfigureFails, Shape
  <2>2. CASE FallBack(c, "default")
    BY <2>1, <2>2, FallBackGoesWell
  <2>3. CASE ~(MayFallBack(c) /\ call[c].config)
    <3>b. PICK no \in BOOLEAN : ~no
      OBVIOUS
    <3> DEFINE q == Left(Goes(c, "returned"), no)
    <3>1. /\ coreState' = "stopped" /\ call' = [call EXCEPT ![c] = q]
          /\ UNCHANGED <<startMode, heartbeat, fallbackRetry>>
      BY <1>6, <2>3, <3>b DEF ConfigureFails, Becomes
    <3>2. "returned" \in Places
      BY DEF Places
    <3>a. /\ Goes(c, "returned") \in CallRecord /\ Goes(c, "returned").attempt = call[c].attempt
          /\ Goes(c, "returned").kind = call[c].kind /\ Goes(c, "returned").alone = call[c].alone
      BY <1>3, <3>2
    <3>3. q \in CallRecord /\ q.kind = "start" /\ q.alone = call[c].alone
      BY <2>1, <3>a, LeftFields
    <3>4. \/ q.at = "returned" /\ q.ok = no /\ q.attempt = call[c].attempt /\ call[c].attempt # "first"
          \/ q.at = "ended" /\ q.ok = no /\ q.attempt = "none" /\ call[c].attempt = "first"
      BY <3>a, LeftFields
    <3> HIDE DEF q
    <3>5. Hands(call[c], q) /\ Shape(q)
      BY <2>1, <3>1, <3>3, <3>4 DEF Hands, Starts, Stops, Retries, Shape
    <3>6. Fits(call[c], coreState) /\ Beats => Fits(q, coreState') /\ Beats'
      BY <2>1, <3>b, <3>1, <3>3, <3>4 DEF Fits, Stops, Beats, LifecycleTypeOK
    <3> QED
      BY <2>1, <3>1, <3>3, <3>4, <3>5, <3>6 DEF GoesWell, Moves
  <2> QED
    BY <1>6, <2>2, <2>3 DEF ConfigureFails
<1>7. CASE LimitPasses(c)
  <2> DEFINE q == [call[c] EXCEPT !.answer = "late"]
  <2>1. q \in CallRecord /\ q.at = call[c].at /\ q.kind = call[c].kind /\ q.alone = call[c].alone
        /\ q.attempt = call[c].attempt /\ q.ok = call[c].ok
    BY <1>1 DEF CallRecord
  <2>2. call' = [call EXCEPT ![c] = q] /\ UNCHANGED stateVars /\ call[c].at \in Limited
    BY <1>7 DEF LimitPasses, Becomes
  <2>3. Fits(call[c], coreState) /\ Beats => Fits(q, coreState') /\ Beats'
    BY <2>1, <2>2 DEF Fits, Stops, Beats, stateVars
  <2>4. call[c].kind = "stop" => Stops(q)
    BY <2>1, <2>2 DEF Shape, Stops, Limited
  <2> HIDE DEF q
  <2> QED
    BY <2>1, <2>2, <2>3, <2>4, StepGoesWell DEF stateVars, Limited, Stops
<1>8. CASE ServiceAnswered(c)
  <2>1. call[c].at = "service" /\ call[c].kind = "start"
    BY <1>2, <1>8 DEF ServiceAnswered, Shape
  <2>2. CASE Decide(c, FALSE)
    BY <2>1, <2>2, DecideGoesWell
  <2>3. CASE call[c].answer = "ok"
    <3>1. /\ startMode' = "service" /\ call' = [call EXCEPT ![c] = Goes(c, "ready")]
          /\ UNCHANGED <<coreState, fallbackRetry, heartbeat>>
      BY <1>8, <2>3 DEF ServiceAnswered, Becomes
    <3>2. Fits(call[c], coreState) /\ Beats => Fits(Goes(c, "ready"), coreState') /\ Beats'
      BY <1>3, <1>4, <2>1, <3>1 DEF Fits, Stops, Beats
    <3> QED
      BY <1>3, <1>4, <2>1, <3>1, <3>2, StepGoesWell DEF Stops
  <2> QED
    BY <1>8, <2>2, <2>3 DEF ServiceAnswered
<1>9. CASE Ready(c)
  <2>1. /\ call[c].at = "ready" /\ call' = [call EXCEPT ![c] = Goes(c, "init")]
        /\ UNCHANGED stateVars
    BY <1>9 DEF Ready, Becomes
  <2>2. call[c].kind = "start"
    BY <1>2, <2>1 DEF Shape
  <2>3. Fits(call[c], coreState) /\ Beats => Fits(Goes(c, "init"), coreState') /\ Beats'
    BY <1>3, <1>4, <2>1 DEF Fits, Stops, Beats, stateVars
  <2> QED
    BY <1>3, <1>4, <2>1, <2>2, <2>3, StepGoesWell DEF stateVars, Stops
<1>10. CASE NotReady(c) \/ Undone(c) \/ Validated(c)
  <2>1. PICK ok \in BOOLEAN : /\ Decide(c, ok) /\ call[c].at \in {"ready", "undo", "validate"}
                              /\ ok <=> call[c].at = "validate"
    BY <1>10 DEF NotReady, Undone, Validated
  <2> QED
    BY <2>1, DecideGoesWell
<1>11. CASE NotValid(c)
  <2>1. call[c].at = "validate" /\ Decide(c, ~(MayFallBack(c) /\ call[c].overrides))
    BY <1>11 DEF NotValid
  <2> QED
    BY <2>1, DecideGoesWell
<1>12. ASSUME NEW api \in {"ok", "bad"}, Polled(c, api) PROVE GoesWell(c)
  <2> DEFINE q == [call[c] EXCEPT !.api = api]
  <2>1. q \in CallRecord /\ q.at = call[c].at /\ q.kind = call[c].kind /\ q.alone = call[c].alone
        /\ q.attempt = call[c].attempt /\ q.ok = call[c].ok
    BY <1>1 DEF CallRecord
  <2>2. call' = [call EXCEPT ![c] = q] /\ UNCHANGED stateVars /\ call[c].at = "launch"
    BY <1>12 DEF Polled, Becomes
  <2>3. Fits(call[c], coreState) /\ Beats => Fits(q, coreState') /\ Beats'
    BY <2>1, <2>2 DEF Fits, Stops, Beats, stateVars
  <2>4. call[c].kind = "start"
    BY <1>2, <2>2 DEF Shape
  <2> HIDE DEF q
  <2> QED
    BY <2>1, <2>2, <2>3, <2>4, StepGoesWell DEF stateVars, Stops
<1>13. CASE Launched(c)
  <2>1. PICK at \in {"init", "undo"} : /\ call' = [call EXCEPT ![c] = Goes(c, at)] /\ call[c].at = "launch"
                                       /\ UNCHANGED <<coreState, fallbackRetry, heartbeat>>
    BY <1>13 DEF Launched, Becomes
  <2>2. call[c].kind = "start"
    BY <1>2, <2>1 DEF Shape
  <2>3. Fits(call[c], coreState) /\ Beats => Fits(Goes(c, at), coreState') /\ Beats'
    BY <1>3, <1>4, <2>1 DEF Fits, Stops, Beats
  <2> QED
    BY <1>3, <1>4, <2>1, <2>2, <2>3, StepGoesWell DEF Stops
<1>14. CASE Initialised(c)
  <2>1. /\ call[c].at = "init" /\ call' = [call EXCEPT ![c] = Goes(c, "validate")]
        /\ coreState' = "running" /\ heartbeat' = (heartbeat \/ startMode = "service")
        /\ UNCHANGED <<startMode, fallbackRetry>>
    BY <1>14 DEF Initialised, Becomes
  <2>2. call[c].kind = "start"
    BY <1>2, <2>1 DEF Shape
  <2>3. Fits(call[c], coreState) /\ Beats => Fits(Goes(c, "validate"), coreState') /\ Beats'
    BY <1>3, <1>4, <2>1 DEF Fits, Stops, Beats
  <2> QED
    BY <1>3, <1>4, <2>1, <2>2, <2>3, StepGoesWell DEF Stops
<1>15. CASE StopLate(c)
  <2>1. /\ call[c].at = "stopService" /\ call' = [call EXCEPT ![c] = Goes(c, "stopSidecar")]
        /\ UNCHANGED stateVars
    BY <1>15 DEF StopLate, Becomes
  <2>2. Fits(call[c], coreState) /\ Beats => Fits(Goes(c, "stopSidecar"), coreState') /\ Beats'
    BY <1>3, <1>4, <2>1 DEF Fits, Stops, Beats, stateVars
  <2> QED
    BY <1>3, <1>4, <2>1, <2>2, StepGoesWell DEF stateVars, Stops
<1>16. CASE StopOver(c)
  <2>1. /\ Stops(call[c]) /\ coreState' = "stopped" /\ startMode' = "none"
        /\ UNCHANGED <<fallbackRetry, heartbeat>>
        /\ call' = [call EXCEPT ![c] = IF call[c].kind = "stop" THEN Over(Goes(c, "ended"), TRUE) ELSE Goes(c, "pause")]
    BY <1>16 DEF StopOver, Becomes, Stops
  <2>2. CASE call[c].kind = "stop"
    <3> DEFINE q == Over(Goes(c, "ended"), TRUE)
    <3>a. /\ Goes(c, "ended") \in CallRecord
          /\ Goes(c, "ended").kind = call[c].kind /\ Goes(c, "ended").alone = call[c].alone
      BY <1>3, <1>4
    <3>1. q \in CallRecord /\ q.at = "ended" /\ q.kind = "stop" /\ q.alone = call[c].alone /\ q.ok = TRUE
          /\ q.attempt = "none"
      BY <2>2, <3>a, OverFields
    <3> HIDE DEF q
    <3>2. Hands(call[c], q) /\ Shape(q)
      BY <2>1, <2>2, <3>1 DEF Hands, Starts, Stops, Retries, Shape
    <3>3. Fits(call[c], coreState) /\ Beats => Fits(q, coreState') /\ Beats'
      BY <2>1, <3>1 DEF Fits, Stops, Beats
    <3>4. call' = [call EXCEPT ![c] = q]
      BY <2>1, <2>2 DEF q
    <3> QED
      BY <2>2, <3>1, <3>2, <3>3, <3>4 DEF GoesWell, Moves
  <2>3. CASE call[c].kind = "start"
    <3>1. call' = [call EXCEPT ![c] = Goes(c, "pause")]
      BY <2>1, <2>3
    <3>2. Fits(call[c], coreState) /\ Beats => Fits(Goes(c, "pause"), coreState') /\ Beats'
      BY <1>3, <1>4, <2>1 DEF Fits, Stops, Beats
    <3> QED
      BY <1>3, <1>4, <2>1, <2>3, <3>1, <3>2, StepGoesWell DEF Stops
  <2> QED
    BY <1>2, <2>2, <2>3
<1>17. CASE PauseOver(c)
  <2>1. call[c].at = "pause" /\ call[c].kind = "start" /\ UNCHANGED <<startMode, fallbackRetry, heartbeat>>
    BY <1>2, <1>17 DEF PauseOver, Enter, Shape
  <2>2. CASE /\ coreState' = "starting" /\ call[c].attempt \in {"plain", "default"}
             /\ call' = [call EXCEPT ![c] = Goes(c, "configure")]
    <3>1. Fits(call[c], coreState) /\ Beats => Fits(Goes(c, "configure"), coreState') /\ Beats'
      BY <1>3, <1>4, <2>1, <2>2 DEF Fits, Stops, Beats
    <3> QED
      BY <1>3, <1>4, <2>1, <2>2, <3>1, StepGoesWell DEF Stops
  <2>3. CASE call[c].attempt = "default" /\ Enter(c, Goes(c, "configure")) /\ coreState \in {"starting", "running"}
    <3> DEFINE p == Goes(c, "configure")
               q == Left(p, coreState = "running")
    <3>1. call' = [call EXCEPT ![c] = q] /\ UNCHANGED coreState
      BY <2>3 DEF Enter, Becomes
    <3>2. p \in CallRecord /\ p.kind = call[c].kind /\ p.alone = call[c].alone /\ p.attempt = "default"
      BY <1>3, <1>4, <2>3
    <3>3. /\ q \in CallRecord /\ q.kind = call[c].kind /\ q.alone = call[c].alone /\ q.attempt = "default"
          /\ q.at = "returned"
      <4>1. (coreState = "running") \in BOOLEAN
        OBVIOUS
      <4> HIDE DEF p
      <4> QED
        BY <3>2, <4>1, LeftFields
    <3> HIDE DEF q
    <3>4. Fits(call[c], coreState) /\ Beats => Fits(q, coreState') /\ Beats'
      BY <2>1, <2>3, <3>1 DEF Fits
    <3> QED
      BY <2>1, <2>3, <3>1, <3>3, <3>4, StepGoesWell DEF Stops
  <2> QED
    <3>1. [Goes(c, "configure") EXCEPT !.at = "configure"] = Goes(c, "configure")
      BY <1>1, <1>4 DEF Goes, CallRecord
    <3>2. CASE call[c].attempt = "plain"
      BY <1>17, <2>2, <3>2 DEF PauseOver, Becomes
    <3>3. CASE call[c].attempt = "default" /\ Enter(c, Goes(c, "configure"))
      BY <2>2, <2>3, <3>1, <3>3 DEF Enter, Becomes
    <3> QED
      BY <1>17, <3>2, <3>3 DEF PauseOver
<1>18. CASE Returned(c)
  <2>1. call[c].at = "returned" /\ call[c].kind = "start"
    BY <1>2, <1>18 DEF Returned, Shape
  <2>2. CASE FallBack(c, "default")
    BY <2>1, <2>2, FallBackGoesWell
  <2>3. CASE /\ fallbackRetry' = FALSE
             /\ coreState' = IF coreState = "starting" THEN "stopped" ELSE coreState
             /\ call' = [call EXCEPT ![c] = Over(Goes(c, "ended"), call[c].ok)]
             /\ UNCHANGED <<startMode, heartbeat>>
    <3> DEFINE q == Over(Goes(c, "ended"), call[c].ok)
    <3>1. call[c].ok \in BOOLEAN
      BY <1>1 DEF CallRecord
    <3>2. /\ Goes(c, "ended") \in CallRecord
          /\ Goes(c, "ended").kind = call[c].kind /\ Goes(c, "ended").alone = call[c].alone
      BY <1>3, <1>4
    <3>3. /\ q \in CallRecord /\ q.at = "ended" /\ q.kind = "start" /\ q.alone = call[c].alone
          /\ q.ok = call[c].ok /\ q.attempt = "none"
      BY <2>1, <3>1, <3>2, OverFields
    <3> HIDE DEF q
    <3>4. Hands(call[c], q) /\ Shape(q)
      BY <2>1, <2>3, <3>3 DEF Hands, Starts, Stops, Retries, Shape
    <3>5. Fits(call[c], coreState) /\ Beats => Fits(q, coreState') /\ Beats'
      BY <2>1, <2>3, <3>1, <3>3 DEF Fits, Stops, Beats
    <3>6. call' = [call EXCEPT ![c] = q]
      BY <2>3 DEF q
    <3> QED
      BY <2>1, <3>3, <3>4, <3>5, <3>6 DEF GoesWell, Moves
  <2> QED
    BY <1>18, <2>2, <2>3 DEF Returned, Becomes
<1> QED
  BY <1>5, <1>6, <1>7, <1>8, <1>9, <1>10, <1>11, <1>12, <1>13, <1>14, <1>15, <1>16, <1>17, <1>18 DEF Continues, GoesOn

\* Only a call under way goes on.
LEMMA ContinuesActive ==
    ASSUME NEW c \in Calls, Continues(c)
    PROVE  Active(c)
BY DEF Continues, GoesOn, Active, Waiting, Limited, Configured, ConfigureFails, LimitPasses, ServiceAnswered,
       Ready, NotReady, Polled, Launched, Undone, Initialised, Validated, NotValid, StopLate, StopOver,
       PauseOver, Returned

\* A call that is refused has its result, and nothing else changes.
RefusedWell(c) ==
    \E q \in CallRecord :
       /\ call' = [call EXCEPT ![c] = q]
       /\ Shape(q) /\ q.at = "ended" /\ q.alone
       /\ UNCHANGED <<stateVars, processVars>>

\* A call that is taken up: it is alone when nothing is under way.
BeginsWell(c) ==
    \E q \in CallRecord :
       /\ Moves(c, q)
       /\ q.alone <=> Quiet
       /\ coreState \in {"stopped", "running"} /\ Beats => Fits(q, coreState') /\ Beats'

\* A start is taken up or refused.
LEMMA StartBeginsWell ==
    ASSUME LifecycleTypeOK, NEW c \in Calls, Shape(call[c]), BeginStart(c)
    PROVE  BeginsWell(c) \/ RefusedWell(c)
<1>1. PICK overrides \in BOOLEAN, config \in BOOLEAN :
         Enter(c, [Begun(c, "start") EXCEPT !.attempt = "first", !.overrides = overrides, !.config = config])
  BY DEF BeginStart
<1> DEFINE r == [Begun(c, "start") EXCEPT !.attempt = "first", !.overrides = overrides, !.config = config]
           q == [r EXCEPT !.at = "configure"]
<1>2. "idle" \in Places /\ "configure" \in Places
  BY DEF Places
<1>3. Goes(c, "idle") \in CallRecord /\ Goes(c, "idle").at = "idle"
  BY <1>2, GoesFields
<1>4. /\ r \in CallRecord /\ r.kind = "start" /\ r.attempt = "first"
      /\ r.alone <=> coreState \in {"starting", "running"} \/ Quiet
  BY <1>3 DEF CallRecord, Begun, Refused, Quiet
<1>5. call[c].at = "idle"
  BY DEF BeginStart
<1>6. UNCHANGED <<processVars, startMode, fallbackRetry, heartbeat>> /\ Enter(c, r)
  BY <1>1 DEF Enter
<1> HIDE DEF r
<1>7. CASE coreState \in {"starting", "running"} /\ call' = [call EXCEPT ![c] = Left(r, coreState = "running")]
           /\ UNCHANGED coreState
  <2>1. PICK up \in BOOLEAN : up = (coreState = "running")
    OBVIOUS
  <2> DEFINE p == Left(r, up)
  <2>2. p \in CallRecord /\ p.kind = "start" /\ p.alone /\ p.at = "ended" /\ p.attempt = "none"
    BY <1>4, <1>7, LeftFields
  <2>3. call' = [call EXCEPT ![c] = p]
    BY <1>7, <2>1
  <2> HIDE DEF p
  <2>4. Shape(p)
    BY <2>2 DEF Shape
  <2> QED
    BY <1>6, <1>7, <2>2, <2>3, <2>4 DEF RefusedWell, stateVars
<1>8. CASE coreState \in {"stopped", "stopping"} /\ coreState' = "starting" /\ call' = [call EXCEPT ![c] = q]
  <2>1. /\ q \in CallRecord /\ q.kind = "start" /\ (q.alone <=> Quiet)
        /\ q.at = "configure" /\ q.attempt = "first"
    BY <1>2, <1>4, <1>8, AtFields
  <2> HIDE DEF q
  <2>2. Moves(c, q)
    BY <1>5, <1>6, <1>8, <2>1 DEF Moves, Shape, Hands, Starts, Stops, Retries
  <2>3. coreState \in {"stopped", "running"} /\ Beats => Fits(q, coreState') /\ Beats'
    BY <1>6, <1>8, <2>1 DEF Fits, Stops, Beats
  <2> QED
    BY <2>1, <2>2, <2>3 DEF BeginsWell
<1> QED
  BY <1>6, <1>7, <1>8 DEF Enter, Becomes

\* A stop is taken up or refused.
LEMMA StopBeginsWell ==
    ASSUME LifecycleTypeOK, NEW c \in Calls, Shape(call[c]), BeginStopCore(c)
    PROVE  BeginsWell(c) \/ RefusedWell(c)
<1> DEFINE r == Begun(c, "stop")
<1>1. "idle" \in Places /\ "stopService" \in Places /\ "stopSidecar" \in Places
  BY DEF Places, Waiting, Limited
<1>2. call[c].at = "idle" /\ call[c].attempt = "none" /\ UNCHANGED fallbackRetry
  BY DEF BeginStopCore, Shape
<1>3. /\ Goes(c, "idle") \in CallRecord /\ Goes(c, "idle").at = "idle"
      /\ Goes(c, "idle").attempt = "none"
  BY <1>1, <1>2, GoesFields
<1>4. /\ r \in CallRecord /\ r.kind = "stop" /\ r.attempt = "none"
      /\ r.alone <=> coreState # "running" \/ Quiet
  BY <1>3 DEF CallRecord, Begun, Refused, Quiet
<1>5. CASE coreState = "running" /\ BeginStop(c, r)
  <2>1. PICK at \in {"stopService", "stopSidecar"} :
           /\ call' = [call EXCEPT ![c] = [r EXCEPT !.at = at]]
           /\ coreState' = "stopping" /\ UNCHANGED startMode
           /\ IF startMode = "service" THEN heartbeat' = FALSE ELSE UNCHANGED heartbeat
    BY <1>5 DEF BeginStop, Becomes
  <2> DEFINE q == [r EXCEPT !.at = at]
  <2>2. q \in CallRecord /\ q.kind = "stop" /\ q.attempt = "none" /\ (q.alone <=> Quiet) /\ q.at = at
    <3> HIDE DEF r
    <3> QED
      BY <1>1, <1>4, <1>5, AtFields
  <2>3. call' = [call EXCEPT ![c] = q]
    BY <2>1
  <2> HIDE DEF q
  <2>4. Moves(c, q)
    BY <1>2, <2>1, <2>2, <2>3 DEF Moves, Shape, Hands, Starts, Stops, Retries
  <2>5. coreState \in {"stopped", "running"} /\ Beats => Fits(q, coreState') /\ Beats'
    BY <1>5, <2>1, <2>2 DEF Fits, Stops, Beats, LifecycleTypeOK
  <2> QED
    BY <2>2, <2>4, <2>5 DEF BeginsWell
<1>6. CASE /\ coreState # "running" /\ call' = [call EXCEPT ![c] = Over(r, coreState # "stopping")]
           /\ UNCHANGED <<processVars, coreState, startMode, heartbeat>>
  <2>1. PICK ok \in BOOLEAN : ok = (coreState # "stopping")
    OBVIOUS
  <2> DEFINE q == Over(r, ok)
  <2>2. q \in CallRecord /\ q.kind = "stop" /\ q.attempt = "none" /\ q.alone /\ q.at = "ended"
    <3> HIDE DEF r
    <3> QED
      BY <1>4, <1>6, OverFields
  <2>3. call' = [call EXCEPT ![c] = q]
    BY <1>6, <2>1
  <2> HIDE DEF q
  <2>4. Shape(q)
    BY <2>2 DEF Shape
  <2> QED
    BY <1>2, <1>6, <2>2, <2>3, <2>4 DEF RefusedWell, stateVars
<1> QED
  BY <1>5, <1>6 DEF BeginStopCore, Becomes

\* A refused call was not under way and is not, and leaves the others where they are.
LEMMA RefusedStays ==
    ASSUME LifecycleTypeOK, NEW c \in Calls, call[c].at = "idle", Shape(call[c]), RefusedWell(c)
    PROVE  /\ UNCHANGED <<stateVars, processVars>>
           /\ Shape(call'[c]) /\ call'[c].at = "ended" /\ call'[c].alone /\ call[c].alone
           /\ \A d \in Calls : d # c => call'[d] = call[d]
           /\ \A d \in Calls : Active(d)' <=> Active(d)
           /\ Overlapped' <=> Overlapped
           /\ Quiet' <=> Quiet
<1>1. PICK q \in CallRecord :
         /\ call' = [call EXCEPT ![c] = q]
         /\ Shape(q) /\ q.at = "ended" /\ q.alone
         /\ UNCHANGED <<stateVars, processVars>>
  BY DEF RefusedWell
<1>2. call'[c] = q /\ \A d \in Calls : d # c => call'[d] = call[d]
  BY <1>1 DEF LifecycleTypeOK
<1>3. call[c].alone
  BY DEF Shape
<1>4. \A d \in Calls : Active(d)' <=> Active(d)
  BY <1>1, <1>2 DEF Active
<1>5. Overlapped' <=> Overlapped
  BY <1>1, <1>2, <1>3 DEF Overlapped
<1>6. Quiet' <=> Quiet
  BY <1>4 DEF Quiet
<1> QED
  BY <1>1, <1>2, <1>3, <1>4, <1>5, <1>6

\* What the hub and the core do, and a result that is delivered, leave every call where it is.
LEMMA HubStays ==
    ASSUME LifecycleTypeOK, Delivers \/ Hub \/ UNCHANGED lifecycleVars
    PROVE  /\ UNCHANGED stateVars
           /\ \A c \in Calls : /\ call'[c].at = call[c].at /\ call'[c].kind = call[c].kind
                               /\ call'[c].attempt = call[c].attempt /\ call'[c].ok = call[c].ok
                               /\ call'[c].alone = call[c].alone
<1>1. UNCHANGED stateVars
  BY DEF Delivers, Deliver, Hub, lifecycleVars
<1>2. CASE UNCHANGED call
  BY <1>1, <1>2
<1>3. CASE Delivers
  <2>1. SUFFICES ASSUME NEW c \in Calls
                 PROVE  /\ call'[c].at = call[c].at /\ call'[c].kind = call[c].kind
                        /\ call'[c].attempt = call[c].attempt /\ call'[c].ok = call[c].ok
                        /\ call'[c].alone = call[c].alone
    BY <1>1
  <2>2. call[c] \in CallRecord
    BY DEF LifecycleTypeOK
  <2>3. call'[c] = call[c] \/ \E answer \in {"ok", "bad"} : call'[c] = [call[c] EXCEPT !.answer = answer]
    BY <1>3 DEF Delivers, Deliver
  <2> QED
    BY <2>2, <2>3 DEF CallRecord
<1> QED
  BY <1>2, <1>3 DEF Hub, lifecycleVars

-----------------------------------------------------------------------------
(***************************************************************************)
(* The invariant, and what follows from it.                                *)
(***************************************************************************)
\* While no calls overlap one of them is under way at most, where it is says which
\* state the core has, and the heartbeat is kept when it should be.
Solo ==
    ~Overlapped =>
       /\ \A c, d \in Calls : Active(c) /\ Active(d) => c = d
       /\ \A c \in Calls : Active(c) => Fits(call[c], coreState)
       /\ Quiet => coreState \in {"stopped", "running"}
       /\ Beats

LifecycleInv == LifecycleTypeOK /\ (\A c \in Calls : Shape(call[c])) /\ TransientOwned /\ Solo

\* A transient state that is handed over has an owner.
LEMMA TransientStep ==
    ASSUME LifecycleTypeOK, NEW c \in Calls, NEW q \in CallRecord, Moves(c, q), TransientOwned
    PROVE  TransientOwned'
<1>1. call'[c] = q /\ \A d \in Calls : d # c => call'[d] = call[d]
  BY DEF Moves, LifecycleTypeOK
<1>2. ASSUME coreState' = "starting" PROVE \E d \in Calls : Starts(call'[d])
  <2>1. CASE Starts(q)
    BY <1>1, <2>1
  <2>2. CASE coreState = "starting" /\ ~Starts(call[c])
    <3>1. PICK d \in Calls : Starts(call[d])
      BY <2>2 DEF TransientOwned, Active, Starts
    <3> QED
      BY <1>1, <2>2, <3>1
  <2> QED
    BY <1>2, <2>1, <2>2 DEF Moves, Hands
<1>3. ASSUME coreState' = "stopping" PROVE \E d \in Calls : Stops(call'[d])
  <2>1. CASE Stops(q)
    BY <1>1, <2>1
  <2>2. CASE coreState = "stopping" /\ ~Stops(call[c])
    <3>1. PICK d \in Calls : Stops(call[d])
      BY <2>2 DEF TransientOwned, Stops
    <3> QED
      BY <1>1, <2>2, <3>1
  <2> QED
    BY <1>3, <2>1, <2>2 DEF Moves, Hands
<1>4. ASSUME fallbackRetry' PROVE \E d \in Calls : Retries(call'[d])
  <2>1. CASE Retries(q)
    BY <1>1, <2>1
  <2>2. CASE fallbackRetry /\ ~Retries(call[c])
    <3>1. PICK d \in Calls : Retries(call[d])
      BY <2>2 DEF TransientOwned, Active, Retries
    <3> QED
      BY <1>1, <2>2, <3>1
  <2> QED
    BY <1>4, <2>1, <2>2 DEF Moves, Hands
<1> QED
  BY <1>2, <1>3, <1>4 DEF TransientOwned, Active, Starts, Stops, Retries

\* A call that is alone changes the state as it should, and nobody else is under way.
LEMMA SoloStep ==
    ASSUME LifecycleTypeOK, NEW c \in Calls, Shape(call[c]), Solo, ~Overlapped',
           (Active(c) /\ GoesWell(c)) \/ (call[c].at = "idle" /\ BeginsWell(c))
    PROVE  /\ ~Overlapped
           /\ \A d \in Calls : d # c => call'[d] = call[d] /\ ~Active(d)
           /\ Fits(call'[c], coreState') /\ Beats' /\ call'[c] \in CallRecord
<1>1. CASE Active(c) /\ GoesWell(c)
  <2>1. PICK q \in CallRecord :
           /\ Moves(c, q) /\ q.alone = call[c].alone
           /\ Fits(call[c], coreState) /\ Beats => Fits(q, coreState') /\ Beats'
    BY <1>1 DEF GoesWell
  <2>2. call'[c] = q /\ \A d \in Calls : d # c => call'[d] = call[d]
    BY <2>1 DEF Moves, LifecycleTypeOK
  <2>3. ~Overlapped
    BY <2>1, <2>2 DEF Overlapped
  <2> QED
    BY <1>1, <2>1, <2>2, <2>3 DEF Solo
<1>2. CASE call[c].at = "idle" /\ BeginsWell(c)
  <2>1. PICK q \in CallRecord :
           /\ Moves(c, q) /\ (q.alone <=> Quiet)
           /\ coreState \in {"stopped", "running"} /\ Beats => Fits(q, coreState') /\ Beats'
    BY <1>2 DEF BeginsWell
  <2>2. call'[c] = q /\ \A d \in Calls : d # c => call'[d] = call[d]
    BY <2>1 DEF Moves, LifecycleTypeOK
  <2>3. Quiet
    BY <2>1, <2>2 DEF Overlapped
  <2>4. ~Overlapped
    BY <1>2, <2>2 DEF Overlapped, Shape
  <2> QED
    BY <2>1, <2>2, <2>3, <2>4 DEF Solo, Quiet
<1> QED
  BY <1>1, <1>2

\* The invariant holds at the beginning.
LEMMA InvInit == LifecycleInit => LifecycleInv
<1> SUFFICES ASSUME LifecycleInit PROVE LifecycleInv
  OBVIOUS
<1>1. LifecycleTypeOK
  BY TypeInit
<1>2. \A c \in Calls : call[c].at = "idle" /\ call[c].attempt = "none" /\ call[c].alone = TRUE /\ call[c].kind = "start"
  BY DEF LifecycleInit
<1>3. \A c \in Calls : Shape(call[c])
  BY <1>2 DEF Shape
<1>4. TransientOwned
  BY DEF LifecycleInit, TransientOwned
<1>5. Beats
  BY DEF LifecycleInit, Beats
<1>6. Solo
  BY <1>2, <1>5 DEF Solo, Active, LifecycleInit
<1> QED
  BY <1>1, <1>3, <1>4, <1>6 DEF LifecycleInv

\* A step of a call that moves.
LEMMA MoveStep ==
    ASSUME LifecycleInv, LifecycleTypeOK', NEW c \in Calls,
           (Active(c) /\ GoesWell(c)) \/ (call[c].at = "idle" /\ BeginsWell(c))
    PROVE  LifecycleInv'
<1> USE DEF LifecycleInv
<1>1. PICK q \in CallRecord : Moves(c, q)
  BY DEF GoesWell, BeginsWell
<1>2. call'[c] = q /\ \A d \in Calls : d # c => call'[d] = call[d]
  BY <1>1 DEF Moves, LifecycleTypeOK
<1>3. \A d \in Calls : Shape(call'[d])
  BY <1>1, <1>2 DEF Moves
<1>4. TransientOwned'
  BY <1>1, TransientStep
<1>5. ASSUME ~Overlapped'
      PROVE  /\ \A a, b \in Calls : Active(a)' /\ Active(b)' => a = b
             /\ \A d \in Calls : Active(d)' => Fits(call'[d], coreState')
             /\ Quiet' => coreState' \in {"stopped", "running"}
             /\ Beats'
  <2>1. /\ \A d \in Calls : d # c => call'[d] = call[d] /\ ~Active(d)
        /\ Fits(call'[c], coreState') /\ Beats' /\ call'[c] \in CallRecord
    BY <1>5, SoloStep
  <2>2. \A d \in Calls : Active(d)' => d = c
    BY <2>1 DEF Active
  <2>3. Quiet' => call'[c].at = "ended"
    BY <1>1, <1>2 DEF Quiet, Active, Moves
  <2>4. call'[c].kind \in {"start", "stop"}
    BY <2>1 DEF CallRecord
  <2>5. Quiet' => coreState' \in {"stopped", "running"}
    BY <2>1, <2>3, <2>4 DEF Fits
  <2> QED
    BY <2>1, <2>2, <2>5
<1>6. Solo'
  BY <1>5 DEF Solo
<1> QED
  BY <1>3, <1>4, <1>6

\* A step that refuses a call.
LEMMA RefusedStep ==
    ASSUME LifecycleInv, LifecycleTypeOK', NEW c \in Calls, call[c].at = "idle", RefusedWell(c)
    PROVE  LifecycleInv'
<1> USE DEF LifecycleInv
<1>1. /\ UNCHANGED <<coreState, startMode, fallbackRetry, heartbeat>>
      /\ Shape(call'[c]) /\ call'[c].at = "ended" /\ call[c].at = "idle"
      /\ \A d \in Calls : d # c => call'[d] = call[d]
      /\ \A d \in Calls : Active(d)' <=> Active(d)
      /\ (Overlapped' <=> Overlapped) /\ (Quiet' <=> Quiet)
  BY RefusedStays DEF stateVars
<1>2. \A d \in Calls : Shape(call'[d])
  BY <1>1
<1>3. \A d \in Calls : Active(d) \/ call[d].at \in {"stopService", "stopSidecar"} => call'[d] = call[d]
  BY <1>1 DEF Active
<1>4. TransientOwned'
  BY <1>1, <1>3 DEF TransientOwned
<1>5. Solo'
  BY <1>1, <1>3 DEF Solo, Beats
<1> QED
  BY <1>2, <1>4, <1>5

\* Every step keeps the invariant.
LEMMA InvStep == LifecycleInv /\ [LifecycleNext]_lifecycleVars => LifecycleInv'
<1> SUFFICES ASSUME LifecycleInv, [LifecycleNext]_lifecycleVars PROVE LifecycleInv'
  OBVIOUS
<1>1. LifecycleTypeOK'
  BY TypeStep DEF LifecycleInv
<1>2. ASSUME NEW c \in Calls, Continues(c) PROVE LifecycleInv'
  BY <1>1, <1>2, ContinuesGoesWell, ContinuesActive, MoveStep DEF LifecycleInv
<1>3. ASSUME NEW c \in Calls, BeginStart(c) \/ BeginStopCore(c) PROVE LifecycleInv'
  <2>1. call[c].at = "idle"
    BY <1>3 DEF BeginStart, BeginStopCore
  <2> QED
    BY <1>1, <1>3, <2>1, StartBeginsWell, StopBeginsWell, MoveStep, RefusedStep DEF LifecycleInv
<1>4. CASE Delivers \/ Hub \/ UNCHANGED lifecycleVars
  <2>1. /\ coreState' = coreState /\ startMode' = startMode /\ fallbackRetry' = fallbackRetry /\ heartbeat' = heartbeat
        /\ \A c \in Calls : /\ call'[c].at = call[c].at /\ call'[c].kind = call[c].kind
                            /\ call'[c].attempt = call[c].attempt /\ call'[c].ok = call[c].ok
                            /\ call'[c].alone = call[c].alone
    BY <1>4, HubStays DEF LifecycleInv, stateVars
  <2>2. \A c \in Calls : Shape(call'[c])
    BY <2>1 DEF LifecycleInv, Shape
  <2>3. \A c \in Calls : Active(c)' <=> Active(c)
    BY <2>1 DEF Active
  <2>4. TransientOwned'
    BY <2>1, <2>3 DEF LifecycleInv, TransientOwned
  <2>5. (Overlapped' <=> Overlapped) /\ (Quiet' <=> Quiet) /\ (Beats' <=> Beats)
    BY <2>1, <2>3 DEF Overlapped, Quiet, Beats
  <2>6. \A c \in Calls : Fits(call'[c], coreState') <=> Fits(call[c], coreState)
    BY <2>1 DEF Fits, Stops
  <2>7. Solo'
    BY <2>1, <2>3, <2>5, <2>6 DEF LifecycleInv, Solo
  <2> QED
    BY <1>1, <2>2, <2>4, <2>7 DEF LifecycleInv
<1> QED
  BY <1>2, <1>3, <1>4 DEF LifecycleNext

\* What the other results rest on, for any number of calls and failures.
THEOREM LifecycleInductive == LifecycleSpec => []LifecycleInv
BY InvInit, InvStep, PTL DEF LifecycleSpec

\* The application is never left starting, stopping or in a fallback without a call
\* that goes on with it, however many calls overlap.
THEOREM TransientAlwaysOwned == LifecycleSpec => []TransientOwned
<1>1. LifecycleInv => TransientOwned
  BY DEF LifecycleInv
<1> QED
  BY <1>1, LifecycleInductive, PTL

\* The heartbeat of the service is kept exactly while its core is the running one, as
\* long as no call was taken up beside another one.
THEOREM HeartbeatAlwaysKept == LifecycleSpec => []HeartbeatWhileServing
<1>1. LifecycleInv => HeartbeatWhileServing
  BY DEF LifecycleInv, Solo, Beats, HeartbeatWhileServing
<1> QED
  BY <1>1, LifecycleInductive, PTL

\* The action of ResultIsState.
ShownResult ==
    \A c \in Calls :
       Active(c) /\ call'[c].at = "ended" /\ ~Overlapped' =>
       \/ call'[c].kind = "stop" /\ call'[c].ok /\ coreState' = "stopped"
       \/ call'[c].kind # "stop" /\ coreState' = IF call'[c].ok THEN "running" ELSE "stopped"

\* A call that ends shows its result.
LEMMA MoveShows ==
    ASSUME LifecycleInv, NEW c \in Calls,
           (Active(c) /\ GoesWell(c)) \/ (call[c].at = "idle" /\ BeginsWell(c))
    PROVE  ShownResult
<1> SUFFICES ASSUME NEW d \in Calls, Active(d), call'[d].at = "ended", ~Overlapped'
             PROVE  \/ call'[d].kind = "stop" /\ call'[d].ok /\ coreState' = "stopped"
                    \/ call'[d].kind # "stop" /\ coreState' = IF call'[d].ok THEN "running" ELSE "stopped"
  BY DEF ShownResult
<1>1. /\ \A e \in Calls : e # c => call'[e] = call[e]
      /\ Fits(call'[c], coreState') /\ call'[c] \in CallRecord
  BY SoloStep DEF LifecycleInv
<1>2. d = c
  BY <1>1 DEF Active
<1>3. call'[c].kind \in {"start", "stop"}
  BY <1>1 DEF CallRecord
<1> QED
  BY <1>1, <1>2, <1>3 DEF Fits

\* What a call that was taken up returns is what the application then shows, as long as
\* none was taken up beside another one.
THEOREM ResultAlwaysState == LifecycleSpec => ResultIsState
<1>1. LifecycleInv /\ [LifecycleNext]_lifecycleVars => [ShownResult]_lifecycleVars
  <2> SUFFICES ASSUME LifecycleInv, LifecycleNext PROVE ShownResult
    OBVIOUS
  <2>1. ASSUME NEW c \in Calls, Continues(c) PROVE ShownResult
    BY <2>1, ContinuesGoesWell, ContinuesActive, MoveShows DEF LifecycleInv
  <2>2. ASSUME NEW c \in Calls, BeginStart(c) \/ BeginStopCore(c) PROVE ShownResult
    <3>1. call[c].at = "idle"
      BY <2>2 DEF BeginStart, BeginStopCore
    <3>2. CASE BeginsWell(c)
      BY <3>1, <3>2, MoveShows
    <3>3. CASE RefusedWell(c)
      BY <3>1, <3>3, RefusedStays DEF LifecycleInv, ShownResult, Active
    <3> QED
      BY <2>2, <3>2, <3>3, StartBeginsWell, StopBeginsWell DEF LifecycleInv
  <2>3. CASE Delivers \/ Hub
    BY <2>3, HubStays DEF LifecycleInv, ShownResult, Active
  <2> QED
    BY <2>1, <2>2, <2>3 DEF LifecycleNext
<1>2. [][ShownResult]_lifecycleVars => ResultIsState
  BY PTL DEF ShownResult, ResultIsState
<1> QED
  BY <1>1, <1>2, LifecycleInductive, PTL DEF LifecycleSpec
-----------------------------------------------------------------------------
(***************************************************************************)
(* Calls that are not taken up beside another one: what is on its way, and *)
(* which core there is.                                                    *)
(***************************************************************************)
\* A child that fills the place in the hub and was not asked to end.
Lives == {"alive", "dead"}

\* Nothing is on its way between the application, the hub and the service.
Silent == requests = <<>> /\ mail = <<>>

\* The core of a start that went well, though it may have died since.
HasCore ==
    IF installed THEN startMode = "service" /\ ("died" \notin seen => served)
    ELSE startMode = "sidecar" /\ child \in Lives

\* What a result means to a call that awaits one at this place.
Brings(at, ok) ==
    /\ at = "launch" => IF ok THEN child \in Lives ELSE child = "none"
    /\ at \in {"undo", "stopSidecar"} => child = "none"
    /\ at = "service" /\ ok /\ "died" \notin seen => served

\* The request that is answered at this place.
Asks(at, q) ==
    \/ at = "launch" /\ q.kind = "StartClashProcess" /\ q.phase = "sent" /\ child = "none"
    \/ at \in {"undo", "stopSidecar"} /\ q.kind = "StopClashProcess" /\ q.phase \in {"sent", "cleans", "runs"}
    \/ /\ at = "service" /\ q.kind = "StartClash" /\ q.phase \in {"sent", "done", "failed"}
       /\ q.phase = "done" /\ "died" \notin seen => served
    \/ at = "stopService" /\ q.kind = "StopClash" /\ q.phase \in {"sent", "done", "failed"}

\* The only thing on its way is c's request or the result of it.
Pending(c, at) ==
    \/ mail = <<>> /\ Len(requests) = 1 /\ requests[1].by = c /\ Asks(at, requests[1])
    \/ requests = <<>> /\ Len(mail) = 1 /\ mail[1].by = c /\ Brings(at, mail[1].ok)

Awaits(r) == r.at \in Waiting /\ r.answer = "none"

\* What holds where the only call under way is.
Sound(c, r) ==
    /\ IF Awaits(r) THEN Pending(c, r.at) ELSE Silent
    /\ r.at \in Waiting /\ r.answer # "none" => Brings(r.at, r.answer = "ok")
    /\ r.at \in {"configure", "pause"} => child = "none"
    /\ r.at \in {"ready", "init"} => HasCore

\* What the shown state says of the core.
Rest == (coreState = "running" => HasCore) /\ (coreState = "stopped" => child = "none")

Flow ==
    ~Overlapped /\ "late" \notin seen /\ "told" \notin seen =>
       /\ "foreign" \notin seen
       /\ Rest
       /\ Quiet => Silent
       /\ \A c \in Calls : Active(c) => Sound(c, call[c])

\* With the service the hub never has a child; without it no wait has a limit and there is
\* nothing to uninstall.
Mode ==
    /\ installed => /\ child = "none"
                    /\ \A i \in DOMAIN requests : requests[i].kind # "StartClashProcess"
                    /\ \A c \in Calls : call[c].at # "launch"
    /\ ~installed => /\ "late" \notin seen /\ "told" \notin seen /\ startMode # "service"
                     /\ \A c \in Calls : call[c].at \notin {"service", "stopService", "ready"}
    /\ "died" \notin seen => child # "dead"

\* Nothing is on its way, and there is a core if and only if one is shown.
Clear ==
    /\ Silent
    /\ coreState = "running" => HasCore
    /\ coreState # "running" => child = "none"

\* The request a call makes when it begins to wait.
AskedAt(at, kind) ==
    \/ at = "launch" /\ kind = "StartClashProcess"
    \/ at \in {"undo", "stopSidecar"} /\ kind = "StopClashProcess"
    \/ at = "service" /\ kind = "StartClash"
    \/ at = "stopService" /\ kind = "StopClash"

\* A call goes to a place of its mode, where it awaits nothing or what it has just asked for.
Carries(c, q) ==
    /\ call' = [call EXCEPT ![c] = q]
    /\ UNCHANGED <<mail, child, served, seen, installed>>
    /\ \/ q.at \notin Waiting /\ UNCHANGED requests
       \/ /\ q.at \in Waiting /\ q.answer = "none"
          /\ \E kind \in ToHub \cup ToService :
                AskedAt(q.at, kind) /\ requests' = Append(requests, [by |-> c, kind |-> kind, phase |-> "sent"])
    /\ installed => q.at # "launch"
    /\ ~installed => q.at \notin {"service", "stopService", "ready"} /\ startMode' # "service"

\* There is the core that this place and the shown state need.
Suits(q) ==
    /\ q.at \in {"configure", "pause", "launch"} => child = "none"
    /\ q.at \in {"ready", "init"} => HasCore'
    /\ Rest'

CarriesOn(c) == \E q \in CallRecord : Carries(c, q) /\ (Clear => Suits(q))

\* A call that goes on awaits nothing yet.
LEMMA GoesFresh ==
    ASSUME LifecycleTypeOK, NEW c \in Calls, NEW at \in Places
    PROVE  Goes(c, at) \in CallRecord /\ Goes(c, at).at = at /\ Goes(c, at).answer = "none"
<1>1. call[c] \in CallRecord
  BY DEF LifecycleTypeOK
<1> QED
  BY <1>1, GoesType DEF Goes, CallRecord

\* A call that goes elsewhere awaits what it did.
LEMMA AtFresh ==
    ASSUME NEW r \in CallRecord, NEW at \in Places, r.answer = "none"
    PROVE  [r EXCEPT !.at = at] \in CallRecord /\ [r EXCEPT !.at = at].at = at /\ [r EXCEPT !.at = at].answer = "none"
<1>1. [r EXCEPT !.at = at] \in CallRecord
  BY Zenon DEF CallRecord
<1> QED
  BY <1>1 DEF CallRecord

\* A stop that begins asks whoever runs the core.
LEMMA BeginStopCarries ==
    ASSUME LifecycleTypeOK, Mode, NEW c \in Calls, NEW r \in CallRecord, r.answer = "none", BeginStop(c, r),
           UNCHANGED installed
    PROVE  CarriesOn(c)
<1>1. PICK at \in {"stopService", "stopSidecar"}, kind \in {"StopClash", "StopClashProcess"} :
         /\ call' = [call EXCEPT ![c] = [r EXCEPT !.at = at]] /\ Send(c, kind) /\ AskedAt(at, kind)
         /\ at = "stopService" => startMode = "service"
         /\ coreState' = "stopping" /\ UNCHANGED startMode
  BY DEF BeginStop, Becomes, AskedAt
<1> DEFINE q == [r EXCEPT !.at = at]
<1>2. at \in Places /\ at \in Waiting
  BY DEF Places, Waiting, Limited
<1>3. q \in CallRecord /\ q.at = at /\ q.answer = "none"
  BY <1>2, AtFresh
<1> HIDE DEF q
<1>4. ~installed => at # "stopService" /\ startMode' # "service"
  BY <1>1 DEF Mode
<1>5. kind \in ToHub \cup ToService
  BY DEF ToHub, ToService
<1>6. Carries(c, q)
  <2>1. call' = [call EXCEPT ![c] = q]
    BY <1>1 DEF q
  <2> QED
    BY <1>1, <1>2, <1>3, <1>4, <1>5, <2>1 DEF Carries, Send
<1>7. Suits(q)
  BY <1>1, <1>3 DEF Suits, Rest
<1> QED
  BY <1>3, <1>6, <1>7 DEF CarriesOn

\* A call that goes on while nothing is asked for.
LEMMA QuietlyCarries ==
    ASSUME LifecycleTypeOK, Mode, NEW c \in Calls, NEW q \in CallRecord, call' = [call EXCEPT ![c] = q],
           UNCHANGED <<processVars, installed, startMode>>,
           q.at \in {"configure", "pause", "validate", "returned", "ended"},
           q.at = "configure" => coreState # "running" /\ coreState' = "starting",
           q.at = "pause" => coreState # "running" /\ coreState' # "running",
           q.at \in {"validate", "returned", "ended"} =>
              coreState' = coreState \/ (coreState # "running" /\ coreState' = "stopped")
    PROVE  CarriesOn(c)
<1>1. Carries(c, q)
  BY DEF Carries, processVars, Waiting, Limited, Mode
<1>2. Clear => Suits(q)
  <2> SUFFICES ASSUME Clear PROVE Suits(q)
    OBVIOUS
  <2>1. HasCore' <=> HasCore
    BY DEF HasCore, processVars
  <2>2. Rest'
    BY <2>1 DEF Rest, Clear, processVars
  <2> QED
    BY <2>2 DEF Suits, Clear
<1> QED
  BY <1>1, <1>2 DEF CarriesOn

\* startCore up to its first await.
LEMMA EnterCarries ==
    ASSUME LifecycleTypeOK, Mode, NEW c \in Calls, NEW r \in CallRecord, Enter(c, r), UNCHANGED installed
    PROVE  CarriesOn(c)
<1>1. "configure" \in Places
  BY DEF Places
<1>2. PICK up \in BOOLEAN : up = (coreState = "running")
  OBVIOUS
<1>3. CASE call' = [call EXCEPT ![c] = Left(r, up)] /\ UNCHANGED coreState
  <2>1. Left(r, up) \in CallRecord /\ Left(r, up).at \in {"returned", "ended"}
    BY LeftFields
  <2> QED
    BY <1>3, <2>1, QuietlyCarries DEF Enter
<1>4. CASE call' = [call EXCEPT ![c] = [r EXCEPT !.at = "configure"]] /\ coreState # "running" /\ coreState' = "starting"
  <2>1. [r EXCEPT !.at = "configure"] \in CallRecord /\ [r EXCEPT !.at = "configure"].at = "configure"
    BY <1>1, AtFields
  <2> QED
    BY <1>4, <2>1, QuietlyCarries DEF Enter
<1> QED
  BY <1>2, <1>3, <1>4 DEF Enter, Becomes

\* A fallback.
LEMMA FallBackCarries ==
    ASSUME LifecycleTypeOK, Mode, NEW c \in Calls, NEW attempt \in {"plain", "default"}, FallBack(c, attempt),
           UNCHANGED installed
    PROVE  CarriesOn(c)
<1> DEFINE r == [Goes(c, "pause") EXCEPT !.attempt = attempt, !.overrides = FALSE,
                                         !.config = call[c].config /\ attempt = "plain"]
<1>1. Goes(c, "pause") \in CallRecord /\ Goes(c, "pause").at = "pause" /\ Goes(c, "pause").answer = "none"
  BY GoesFresh DEF Places
<1>2. call[c] \in CallRecord
  BY DEF LifecycleTypeOK
<1>3. r \in CallRecord
  BY <1>1, <1>2 DEF CallRecord
<1>4. r.at = "pause" /\ r.answer = "none"
  BY <1>1 DEF CallRecord
<1>5. \/ coreState = "running" /\ BeginStop(c, r)
      \/ /\ coreState # "running" /\ call' = [call EXCEPT ![c] = r] /\ UNCHANGED <<processVars, startMode>>
         /\ coreState' = "stopped" \/ coreState' = coreState
  BY DEF FallBack, Becomes
<1> HIDE DEF r
<1> QED
  BY <1>3, <1>4, <1>5, BeginStopCarries, QuietlyCarries

\* The way out of an attempt.
LEMMA GivesBackCarries ==
    ASSUME LifecycleTypeOK, Mode, NEW c \in Calls, NEW ok \in BOOLEAN, UNCHANGED <<processVars, installed, startMode>>,
           Becomes(c, Left(Goes(c, "returned"), ok)),
           coreState' = coreState \/ (coreState # "running" /\ coreState' = "stopped")
    PROVE  CarriesOn(c)
<1> DEFINE p == Goes(c, "returned")
<1>1. p \in CallRecord
  BY GoesFresh DEF Places
<1> HIDE DEF p
<1>2. Left(p, ok) \in CallRecord /\ Left(p, ok).at \in {"returned", "ended"}
  BY <1>1, LeftFields
<1>3. call' = [call EXCEPT ![c] = Left(p, ok)]
  BY DEF Becomes, p
<1> QED
  BY <1>2, <1>3, QuietlyCarries

\* The end of an attempt.
LEMMA DecideCarries ==
    ASSUME LifecycleTypeOK, Mode, NEW c \in Calls, NEW ok \in BOOLEAN, Decide(c, ok), UNCHANGED installed
    PROVE  CarriesOn(c)
<1>1. CASE FallBack(c, "plain") \/ FallBack(c, "default")
  BY <1>1, FallBackCarries
<1>2. CASE GivesBack(c, ok)
  <2>1. coreState' = coreState \/ (coreState # "running" /\ coreState' = "stopped")
    BY <1>2 DEF GivesBack
  <2> QED
    BY <1>2, <2>1, GivesBackCarries DEF GivesBack
<1> QED
  BY <1>1, <1>2 DEF Decide

\* The same of a call under way where it holds what it should.
GoesSoundly(c) ==
    \E q \in CallRecord :
       /\ Carries(c, q)
       /\ Sound(c, call[c]) /\ Rest /\ Fits(call[c], coreState) => Silent /\ Suits(q)

\* A call that goes on from a clear state.
LEMMA ClearGoesSoundly ==
    ASSUME NEW c \in Calls, CarriesOn(c),
           Sound(c, call[c]) /\ Rest /\ Fits(call[c], coreState) => Clear
    PROVE  GoesSoundly(c)
BY DEF CarriesOn, GoesSoundly, Clear

\* An attempt that is decided where the state is clear.
LEMMA DecideGoesSoundly ==
    ASSUME LifecycleTypeOK, Mode, NEW c \in Calls, NEW ok \in BOOLEAN, Decide(c, ok), UNCHANGED installed,
           \/ call[c].at = "service" /\ Due(c)
           \/ call[c].at = "ready"
           \/ call[c].at = "undo" /\ Due(c)
           \/ call[c].at = "validate"
    PROVE  GoesSoundly(c)
<1>1. ASSUME Sound(c, call[c]), Rest, Fits(call[c], coreState) PROVE Clear
  <2>1. Silent
    BY <1>1 DEF Sound, Awaits, Due, Waiting, Limited
  <2>2. CASE call[c].at = "validate"
    BY <1>1, <2>1, <2>2 DEF Clear, Rest, Fits
  <2>3. CASE call[c].at \in {"service", "ready"}
    BY <1>1, <2>1, <2>3 DEF Clear, Fits, Mode
  <2>4. CASE call[c].at = "undo" /\ Due(c)
    <3>1. call[c].answer # "none"
      BY <2>4 DEF Due, Waiting, Limited
    <3>2. child = "none"
      BY <1>1, <2>4, <3>1 DEF Sound, Brings, Waiting, Limited
    <3> QED
      BY <1>1, <2>1, <2>4, <3>2 DEF Clear, Fits
  <2> QED
    BY <2>2, <2>3, <2>4
<1> QED
  BY <1>1, DecideCarries, ClearGoesSoundly

\* A call that asks and then waits.
LEMMA SendGoesSoundly ==
    ASSUME LifecycleTypeOK, NEW c \in Calls, NEW kind \in ToHub \cup ToService, NEW at \in Places, Send(c, kind),
           Becomes(c, Goes(c, at)), AskedAt(at, kind), UNCHANGED <<coreState, startMode, installed>>,
           installed => at # "launch",
           ~installed => at # "service" /\ at # "stopService" /\ startMode # "service",
           Sound(c, call[c]) /\ Rest /\ Fits(call[c], coreState) =>
              Silent /\ (at = "launch" => child = "none") /\ coreState \in {"starting", "stopping"}
    PROVE  GoesSoundly(c)
<1> DEFINE q == Goes(c, at)
<1>1. q \in CallRecord /\ q.at = at /\ q.answer = "none"
  BY GoesFresh
<1>2. call' = [call EXCEPT ![c] = q]
  BY DEF Becomes
<1> HIDE DEF q
<1>3. at \in Waiting /\ at \notin {"ready", "configure", "pause", "init"}
  BY DEF AskedAt, Waiting, Limited
<1>4. Carries(c, q)
  BY <1>1, <1>2, <1>3 DEF Carries, Send
<1>5. ASSUME Sound(c, call[c]), Rest, Fits(call[c], coreState) PROVE Silent /\ Suits(q)
  BY <1>1, <1>3, <1>5 DEF Suits, Rest
<1> QED
  BY <1>1, <1>4, <1>5 DEF GoesSoundly

\* A call that goes on with the core it has got.
LEMMA CoreGoesSoundly ==
    ASSUME LifecycleTypeOK, NEW c \in Calls, NEW at \in {"ready", "init", "validate"},
           Becomes(c, Goes(c, at)), UNCHANGED <<processVars, installed>>,
           ~installed => at # "ready" /\ startMode' # "service",
           Sound(c, call[c]) /\ Rest /\ Fits(call[c], coreState) =>
              Silent /\ HasCore' /\ coreState' \in {"starting", "running"}
    PROVE  GoesSoundly(c)
<1> DEFINE q == Goes(c, at)
<1>1. q \in CallRecord /\ q.at = at
  BY GoesFresh DEF Places, Waiting, Limited
<1>2. call' = [call EXCEPT ![c] = q]
  BY DEF Becomes
<1> HIDE DEF q
<1>4. Carries(c, q)
  BY <1>1, <1>2 DEF Carries, processVars, Waiting, Limited
<1>5. ASSUME Sound(c, call[c]), Rest, Fits(call[c], coreState) PROVE Silent /\ Suits(q)
  BY <1>1, <1>5 DEF Suits, Rest
<1> QED
  BY <1>1, <1>4, <1>5 DEF GoesSoundly

\* Whatever a call under way does, but for the poll beside its wait and the limit of it.
LEMMA StepGoesSoundly ==
    ASSUME LifecycleTypeOK, Mode, NEW c \in Calls, Shape(call[c]), Continues(c), ~LimitPasses(c),
           ~Polled(c, "ok"), ~Polled(c, "bad")
    PROVE  GoesSoundly(c)
<1>1. UNCHANGED installed
  BY DEF Continues
<1>2. {"service", "launch", "undo", "stopSidecar", "configure", "pause", "ended"} \subseteq Places
  BY DEF Places, Waiting, Limited
<1>3. {"StartClash", "StartClashProcess", "StopClashProcess"} \subseteq ToHub \cup ToService
  BY DEF ToHub, ToService
<1>4. CASE Configured(c)
  <2>1. ASSUME Sound(c, call[c]), Fits(call[c], coreState) PROVE Silent /\ child = "none" /\ coreState = "starting"
    BY <1>4, <2>1 DEF Configured, Sound, Awaits, Waiting, Limited, Fits
  <2>2. CASE installed
    BY <1>1, <1>2, <1>3, <1>4, <2>1, <2>2, SendGoesSoundly DEF Configured, AskedAt, stateVars
  <2>3. CASE ~installed
    <3>1. startMode # "service"
      BY <2>3 DEF Mode
    <3> QED
      BY <1>1, <1>2, <1>3, <1>4, <2>1, <2>3, <3>1, SendGoesSoundly DEF Configured, AskedAt, stateVars
  <2> QED
    BY <2>2, <2>3
<1>5. CASE ConfigureFails(c)
  <2>1. call[c].at = "configure"
    BY <1>5 DEF ConfigureFails
  <2>2. ASSUME Sound(c, call[c]), Fits(call[c], coreState) PROVE Clear
    BY <2>1, <2>2 DEF Sound, Awaits, Waiting, Limited, Fits, Clear
  <2>3. CASE FallBack(c, "default")
    BY <1>1, <2>2, <2>3, FallBackCarries, ClearGoesSoundly
  <2>4. CASE ~(MayFallBack(c) /\ call[c].config)
    <3> DEFINE p == Goes(c, "returned")
    <3>a. PICK no \in BOOLEAN : ~no
      OBVIOUS
    <3>1. p \in CallRecord
      BY GoesFresh DEF Places
    <3>2. /\ call' = [call EXCEPT ![c] = Left(p, no)] /\ coreState' = "stopped"
          /\ UNCHANGED <<processVars, startMode>>
      BY <1>5, <2>4, <3>a DEF ConfigureFails, Becomes
    <3> HIDE DEF p
    <3> DEFINE q == Left(p, no)
    <3>3. q \in CallRecord /\ q.at \in {"returned", "ended"}
      BY <3>1, LeftFields
    <3> HIDE DEF q
    <3>4. Carries(c, q)
      BY <1>1, <3>2, <3>3 DEF Carries, processVars, Waiting, Limited, Mode, q
    <3>5. ASSUME Clear, Fits(call[c], coreState) PROVE Silent /\ Suits(q)
      BY <2>1, <3>2, <3>3, <3>5 DEF Clear, Fits, Suits, Rest, processVars
    <3> QED
      BY <2>2, <3>3, <3>4, <3>5 DEF GoesSoundly
  <2> QED
    BY <1>5, <2>3, <2>4 DEF ConfigureFails
<1>6. CASE ServiceAnswered(c)
  <2>1. call[c].at = "service" /\ Due(c)
    BY <1>6 DEF ServiceAnswered
  <2>2. CASE Decide(c, FALSE)
    BY <1>1, <2>1, <2>2, DecideGoesSoundly
  <2>3. CASE call[c].answer = "ok"
    <3>1. installed
      BY <2>1 DEF Mode
    <3>2. startMode' = "service" /\ Becomes(c, Goes(c, "ready")) /\ UNCHANGED <<processVars, coreState>>
      BY <1>6, <2>3 DEF ServiceAnswered
    <3>3. ASSUME Sound(c, call[c]), Fits(call[c], coreState) PROVE Silent /\ HasCore' /\ coreState' = "starting"
      BY <1>1, <2>1, <2>3, <3>1, <3>2, <3>3
         DEF Sound, Awaits, Waiting, Limited, Brings, Fits, HasCore, processVars
    <3> QED
      BY <1>1, <3>1, <3>2, <3>3, CoreGoesSoundly
  <2> QED
    BY <1>6, <2>2, <2>3 DEF ServiceAnswered
<1>7. CASE Ready(c)
  <2>1. /\ call[c].at = "ready" /\ Becomes(c, Goes(c, "init")) /\ UNCHANGED <<processVars, stateVars>>
    BY <1>7 DEF Ready
  <2>2. installed
    BY <2>1 DEF Mode
  <2>3. ASSUME Sound(c, call[c]), Fits(call[c], coreState) PROVE Silent /\ HasCore' /\ coreState' = "starting"
    BY <1>1, <2>1, <2>3 DEF Sound, Awaits, Waiting, Limited, Fits, HasCore, processVars, stateVars
  <2> QED
    BY <1>1, <2>1, <2>2, <2>3, CoreGoesSoundly
<1>8. CASE NotReady(c) \/ Undone(c) \/ Validated(c) \/ NotValid(c)
  <2>1. PICK ok \in BOOLEAN : Decide(c, ok)
    BY <1>8 DEF NotReady, Undone, Validated, NotValid
  <2>2. call[c].at \in {"ready", "validate"} \/ (call[c].at = "undo" /\ Due(c))
    BY <1>8 DEF NotReady, Undone, Validated, NotValid
  <2> QED
    BY <1>1, <2>1, <2>2, DecideGoesSoundly
<1>9. CASE Launched(c)
  <2>1. call[c].at = "launch" /\ Due(c) /\ call[c].answer # "none" /\ ~installed /\ startMode # "service"
    BY <1>9 DEF Launched, Due, Mode, Waiting, Limited
  <2>2. ASSUME Sound(c, call[c]), Fits(call[c], coreState) PROVE Silent /\ coreState = "starting"
    BY <2>1, <2>2 DEF Sound, Awaits, Fits
  <2>3. CASE call[c].answer = "ok" /\ call[c].api = "ok"
    <3>1. startMode' = "sidecar" /\ Becomes(c, Goes(c, "init")) /\ UNCHANGED <<processVars, coreState>>
      BY <1>9, <2>3 DEF Launched
    <3>2. ASSUME Sound(c, call[c]) PROVE HasCore'
      BY <1>1, <2>1, <2>3, <3>1, <3>2 DEF Sound, Waiting, Limited, Brings, HasCore, processVars
    <3> QED
      BY <1>1, <2>2, <3>1, <3>2, CoreGoesSoundly
  <2>4. CASE ~(call[c].answer = "ok" /\ call[c].api = "ok")
    <3>1. Send(c, "StopClashProcess") /\ Becomes(c, Goes(c, "undo")) /\ UNCHANGED <<coreState, startMode>>
      BY <1>9, <2>4 DEF Launched
    <3> QED
      BY <1>1, <1>2, <1>3, <2>1, <2>2, <3>1, SendGoesSoundly DEF AskedAt
  <2> QED
    BY <2>3, <2>4
<1>10. CASE Initialised(c)
  <2>1. /\ call[c].at = "init" /\ Becomes(c, Goes(c, "validate")) /\ coreState' = "running"
        /\ UNCHANGED <<processVars, startMode>>
    BY <1>10 DEF Initialised
  <2>2. ASSUME Sound(c, call[c]) PROVE Silent /\ HasCore'
    BY <1>1, <2>1, <2>2 DEF Sound, Awaits, Waiting, Limited, HasCore, processVars
  <2>3. ~installed => startMode' # "service"
    BY <2>1 DEF Mode
  <2> QED
    BY <1>1, <2>1, <2>2, <2>3, CoreGoesSoundly
<1>11. CASE StopLate(c)
  <2>1. /\ call[c].at = "stopService" /\ call[c].answer = "late"
        /\ Send(c, "StopClashProcess") /\ Becomes(c, Goes(c, "stopSidecar")) /\ UNCHANGED <<coreState, startMode>>
    BY <1>11 DEF StopLate, stateVars
  <2>2. installed
    BY <2>1 DEF Mode
  <2>3. ASSUME Sound(c, call[c]), Fits(call[c], coreState) PROVE Silent /\ coreState = "stopping"
    BY <2>1, <2>3 DEF Sound, Awaits, Fits, Stops
  <2> QED
    BY <1>1, <1>2, <1>3, <2>1, <2>2, <2>3, SendGoesSoundly DEF AskedAt
<1>12. CASE StopOver(c)
  <2>1. /\ call[c].at \in {"stopService", "stopSidecar"} /\ Due(c)
        /\ coreState' = "stopped" /\ startMode' = "none" /\ UNCHANGED processVars
        /\ call' = [call EXCEPT ![c] = IF call[c].kind = "stop" THEN Over(Goes(c, "ended"), TRUE) ELSE Goes(c, "pause")]
    BY <1>12 DEF StopOver, Becomes
  <2>2. Goes(c, "pause") \in CallRecord /\ Goes(c, "pause").at = "pause" /\ Goes(c, "ended") \in CallRecord
    BY <1>2, GoesFresh
  <2>3. Over(Goes(c, "ended"), TRUE) \in CallRecord /\ Over(Goes(c, "ended"), TRUE).at = "ended"
    BY <2>2, OverFields
  <2>4. PICK q \in CallRecord : call' = [call EXCEPT ![c] = q] /\ q.at \in {"ended", "pause"}
    BY <2>1, <2>2, <2>3
  <2>5. Carries(c, q)
    BY <1>1, <2>1, <2>4 DEF Carries, processVars, Waiting, Limited
  <2>6. ASSUME Sound(c, call[c]) PROVE Silent /\ child = "none"
    <3>1. Silent /\ call[c].answer # "none"
      BY <2>1, <2>6 DEF Sound, Awaits, Due, Waiting, Limited
    <3> QED
      BY <2>1, <2>6, <3>1 DEF Sound, Brings, Mode, Waiting, Limited
  <2>7. child = "none" => Suits(q)
    BY <2>1, <2>4 DEF Suits, Rest, processVars
  <2> QED
    BY <2>5, <2>6, <2>7 DEF GoesSoundly
<1>13. CASE PauseOver(c)
  <2>1. call[c].at = "pause"
    BY <1>13 DEF PauseOver
  <2>2. ASSUME Sound(c, call[c]), Fits(call[c], coreState) PROVE Clear
    BY <2>1, <2>2 DEF Sound, Awaits, Waiting, Limited, Fits, Clear
  <2>3. CASE Enter(c, Goes(c, "configure"))
    <3>1. Goes(c, "configure") \in CallRecord
      BY <1>2, GoesFresh
    <3> QED
      BY <1>1, <2>2, <2>3, <3>1, EnterCarries, ClearGoesSoundly
  <2>4. CASE /\ coreState' = "starting" /\ Becomes(c, Goes(c, "configure")) /\ UNCHANGED <<processVars, startMode>>
    <3>1. Goes(c, "configure") \in CallRecord /\ Goes(c, "configure").at = "configure"
      BY <1>2, GoesFresh
    <3>2. PICK q \in CallRecord : call' = [call EXCEPT ![c] = q] /\ q.at = "configure"
      BY <2>4, <3>1 DEF Becomes
    <3>3. Carries(c, q)
      BY <1>1, <2>4, <3>2 DEF Carries, processVars, Waiting, Limited, Mode
    <3>4. Sound(c, call[c]) => Suits(q)
      BY <2>1, <2>4, <3>2 DEF Suits, Rest, Sound
    <3> QED
      BY <2>2, <3>3, <3>4 DEF GoesSoundly, Clear
  <2> QED
    BY <1>13, <2>3, <2>4 DEF PauseOver
<1>14. CASE Returned(c)
  <2>1. call[c].at = "returned"
    BY <1>14 DEF Returned
  <2>2. ASSUME Sound(c, call[c]), Rest, Fits(call[c], coreState) PROVE Clear
    BY <2>1, <2>2 DEF Sound, Awaits, Waiting, Limited, Fits, Rest, Clear
  <2>3. CASE FallBack(c, "default")
    BY <1>1, <2>2, <2>3, FallBackCarries, ClearGoesSoundly
  <2>4. CASE ~FallBack(c, "default")
    <3>1. /\ coreState' = coreState \/ (coreState # "running" /\ coreState' = "stopped")
          /\ call' = [call EXCEPT ![c] = Over(Goes(c, "ended"), call[c].ok)] /\ UNCHANGED <<processVars, startMode>>
      BY <1>14, <2>4 DEF Returned, Becomes
    <3>2. Goes(c, "ended") \in CallRecord /\ call[c].ok \in BOOLEAN
      BY <1>2, GoesFresh DEF LifecycleTypeOK, CallRecord
    <3>3. Over(Goes(c, "ended"), call[c].ok) \in CallRecord /\ Over(Goes(c, "ended"), call[c].ok).at = "ended"
      BY <3>2, OverFields
    <3> QED
      BY <1>1, <2>2, <3>1, <3>3, QuietlyCarries, ClearGoesSoundly
  <2> QED
    BY <2>3, <2>4
<1> QED
  BY <1>4, <1>5, <1>6, <1>7, <1>8, <1>9, <1>10, <1>11, <1>12, <1>13, <1>14 DEF Continues, GoesOn

\* A call that begins does so from a clear state, if no other is under way.
LEMMA BeginCarries ==
    ASSUME LifecycleTypeOK, Mode, NEW c \in Calls, BeginStart(c) \/ BeginStopCore(c), UNCHANGED installed
    PROVE  CarriesOn(c)
<1>1. Goes(c, "idle") \in CallRecord /\ Goes(c, "idle").answer = "none"
  BY GoesFresh DEF Places
<1>2. \A kind \in {"start", "stop"} : Begun(c, kind) \in CallRecord /\ Begun(c, kind).answer = "none"
  BY <1>1 DEF Begun, CallRecord
<1>3. CASE BeginStart(c)
  <2>1. PICK overrides \in BOOLEAN, config \in BOOLEAN :
           Enter(c, [Begun(c, "start") EXCEPT !.attempt = "first", !.overrides = overrides, !.config = config])
    BY <1>3 DEF BeginStart
  <2>2. [Begun(c, "start") EXCEPT !.attempt = "first", !.overrides = overrides, !.config = config] \in CallRecord
    BY <1>1 DEF Begun, CallRecord
  <2> QED
    BY <2>1, <2>2, EnterCarries
<1>4. CASE BeginStopCore(c) /\ coreState = "running"
  BY <1>2, <1>4, BeginStopCarries DEF BeginStopCore
<1>5. CASE BeginStopCore(c) /\ coreState # "running"
  <2>1. PICK ok \in BOOLEAN : ok = (coreState # "stopping")
    OBVIOUS
  <2>2. /\ call' = [call EXCEPT ![c] = Over(Begun(c, "stop"), ok)]
        /\ UNCHANGED <<processVars, coreState, startMode>>
    BY <1>5, <2>1 DEF BeginStopCore, Becomes
  <2>3. Over(Begun(c, "stop"), ok) \in CallRecord /\ Over(Begun(c, "stop"), ok).at = "ended"
    BY <1>2, OverFields
  <2> QED
    BY <2>2, <2>3, QuietlyCarries
<1> QED
  BY <1>3, <1>4, <1>5

\* A call that moves keeps to its mode.
LEMMA CarriesMode ==
    ASSUME LifecycleTypeOK, Mode, NEW c \in Calls, NEW q \in CallRecord, Carries(c, q),
           ~installed => startMode' # "service"
    PROVE  Mode'
<1>1. call'[c] = q /\ \A d \in Calls : d # c => call'[d] = call[d]
  BY DEF Carries, LifecycleTypeOK
<1>2. UNCHANGED <<child, seen, installed>>
  BY DEF Carries
<1>3. ASSUME installed, NEW i \in DOMAIN requests' PROVE requests'[i].kind # "StartClashProcess"
  <2>1. CASE requests' = requests
    BY <1>3, <2>1 DEF Mode
  <2>2. ASSUME NEW kind, AskedAt(q.at, kind),
               requests' = Append(requests, [by |-> c, kind |-> kind, phase |-> "sent"])
        PROVE  requests'[i].kind # "StartClashProcess"
    <3>1. kind # "StartClashProcess"
      BY <1>3, <2>2 DEF Carries, AskedAt
    <3>2. requests \in Seq(Request)
      BY DEF LifecycleTypeOK, ProcessesTypeOK
    <3>3. i = Len(requests) + 1 \/ i \in DOMAIN requests
      BY <1>3, <2>2, <3>2
    <3>4. CASE i = Len(requests) + 1
      <4>1. requests'[i] = [by |-> c, kind |-> kind, phase |-> "sent"]
        BY <2>2, <3>2, <3>4
      <4> QED
        BY <3>1, <4>1
    <3>5. CASE i \in DOMAIN requests
      <4>1. requests'[i] = requests[i]
        BY <2>2, <3>2, <3>5
      <4> QED
        BY <1>3, <3>5, <4>1 DEF Mode
    <3> QED
      BY <3>3, <3>4, <3>5
  <2> QED
    BY <2>1, <2>2 DEF Carries
<1>4. \A d \in Calls : /\ installed => call'[d].at # "launch"
                       /\ ~installed => call'[d].at \notin {"service", "stopService", "ready"}
  BY <1>1 DEF Carries, Mode
<1> QED
  BY <1>2, <1>3, <1>4 DEF Mode

\* What the call that moved then relies on.
LEMMA CarriesSound ==
    ASSUME LifecycleTypeOK, NEW c \in Calls, NEW q \in CallRecord, Carries(c, q), Silent, Suits(q)
    PROVE  Sound(c, call[c])' /\ Rest' /\ UNCHANGED seen
<1>1. call'[c] = q
  BY DEF Carries, LifecycleTypeOK
<1>2. q.at \in {"configure", "pause"} => child' = "none"
  BY DEF Suits, Carries
<1>3. q.at \in {"ready", "init"} => HasCore'
  BY DEF Suits
<1>4. CASE q.at \notin Waiting /\ UNCHANGED requests
  <2>1. ~Awaits(q) /\ Silent'
    BY <1>4 DEF Awaits, Silent, Carries
  <2> QED
    BY <1>1, <1>2, <1>3, <1>4, <2>1 DEF Sound, Suits, Carries, Awaits
<1>5. ASSUME q.at \in Waiting, q.answer = "none", NEW kind \in ToHub \cup ToService, AskedAt(q.at, kind),
             requests' = Append(requests, [by |-> c, kind |-> kind, phase |-> "sent"])
      PROVE  Sound(c, call[c])' /\ Rest' /\ UNCHANGED seen
  <2>1. Len(requests') = 1 /\ requests'[1] = [by |-> c, kind |-> kind, phase |-> "sent"] /\ mail' = <<>>
    BY <1>5 DEF Silent, Carries
  <2>2. Asks(q.at, requests[1])'
    BY <1>1, <1>5, <2>1 DEF Asks, AskedAt, Suits, Carries
  <2>3. Pending(c, q.at)'
    BY <2>1, <2>2 DEF Pending
  <2> QED
    BY <1>1, <1>2, <1>3, <1>5, <2>3 DEF Sound, Awaits, Suits, Carries
<1> QED
  BY <1>4, <1>5 DEF Carries

\* A sequence of one element, with and without it.
LEMMA RemoveOnly ==
    ASSUME NEW S, NEW s \in Seq(S), Len(s) = 1
    PROVE  RemoveAt(s, 1) = <<>> /\ s[1] \in S
<1>1. SubSeq(s, 1, 0) = <<>> /\ SubSeq(s, 2, 1) = <<>>
  OBVIOUS
<1> QED
  BY <1>1 DEF RemoveAt

\* Who waits with a request is where the state is on its way.
LEMMA WaitsOnTheWay ==
    ASSUME NEW c \in Calls, Awaits(call[c]), Fits(call[c], coreState)
    PROVE  coreState \in {"starting", "stopping"}
BY DEF Awaits, Waiting, Limited, Fits, Stops

\* The hub and the service do what the only request asks, and answer it.
LEMMA HubSound ==
    ASSUME LifecycleTypeOK, Mode, NEW c \in Calls, Sound(c, call[c]), HubStep, UNCHANGED <<stateVars, installed, call>>
    PROVE  Sound(c, call[c])' /\ Awaits(call[c]) /\ UNCHANGED seen
<1> DEFINE at == call[c].at
<1>1. PICK i \in DOMAIN requests : Refuse(i) \/ Spawn(i) \/ SpawnFails(i) \/ Cleans(i) \/ Signal(i) \/ Reaped(i)
                                   \/ NothingRuns(i) \/ Executes(i) \/ Fails(i) \/ Reports(i)
  BY DEF HubStep
<1>2. requests \in Seq(Request) /\ requests # <<>>
  BY <1>1 DEF LifecycleTypeOK, ProcessesTypeOK
<1>3. Awaits(call[c]) /\ Pending(c, at) /\ requests # <<>>
  BY <1>2 DEF Sound, Silent
<1>4. mail = <<>> /\ Len(requests) = 1 /\ requests[1].by = c /\ Asks(at, requests[1]) /\ i = 1
  BY <1>1, <1>2, <1>3 DEF Pending
<1>5. UNCHANGED seen
  BY <1>1 DEF Refuse, Spawn, SpawnFails, Cleans, Signal, Reaped, NothingRuns, Executes, Fails, Reports
<1>6. ASSUME NEW ok \in BOOLEAN, Answer(1, ok), Brings(at, ok)' PROVE Pending(c, at)'
  <2>1. requests' = <<>> /\ mail' = <<[by |-> c, ok |-> ok]>>
    BY <1>2, <1>4, <1>6, RemoveOnly DEF Answer
  <2> QED
    BY <1>6, <2>1 DEF Pending
<1>7. ASSUME NEW p \in {"cleans", "runs", "done", "failed"}, requests' = [requests EXCEPT ![1].phase = p],
             UNCHANGED mail,
             p \in {"cleans", "runs"} => requests[1].kind \notin ToService /\ at # "launch",
             p \in {"done", "failed"} => requests[1].kind \in ToService,
             p = "done" /\ requests[1].kind = "StartClash" => served'
      PROVE  Pending(c, at)'
  <2>1. requests[1] \in Request
    BY <1>2, <1>4
  <2>2. Len(requests') = 1 /\ requests'[1] = [requests[1] EXCEPT !.phase = p]
    BY <1>2, <1>4, <1>7
  <2>3. requests'[1].by = c /\ requests'[1].kind = requests[1].kind /\ requests'[1].phase = p
    BY <1>4, <2>1, <2>2 DEF Request
  <2>4. Asks(at, requests[1])'
    BY <1>4, <1>7, <2>3 DEF Asks, ToService
  <2> QED
    BY <1>4, <1>7, <2>2, <2>3, <2>4 DEF Pending
<1>8. ASSUME Refuse(1) \/ Spawn(1) \/ SpawnFails(1) PROVE Pending(c, at)'
  <2>1. at = "launch" /\ child = "none"
    BY <1>4, <1>8 DEF Refuse, Spawn, SpawnFails, Turn, Asks
  <2>2. PICK ok \in BOOLEAN : Answer(1, ok) /\ (IF ok THEN child' = "alive" ELSE child' = "none")
    BY <1>8, <2>1 DEF Refuse, Spawn, SpawnFails
  <2>3. Brings(at, ok)'
    BY <2>1, <2>2 DEF Brings, Lives
  <2> QED
    BY <1>6, <2>2, <2>3
<1>9. ASSUME Reaped(1) \/ NothingRuns(1) PROVE Pending(c, at)'
  <2>1. at \in {"undo", "stopSidecar"}
    BY <1>4, <1>9 DEF Reaped, NothingRuns, Cleaned, Asks
  <2>2. Answer(1, TRUE) /\ child' = "none"
    BY <1>9 DEF Reaped, NothingRuns
  <2>3. Brings(at, TRUE)'
    BY <2>1, <2>2 DEF Brings
  <2> QED
    BY <1>6, <2>2, <2>3
<1>10. ASSUME Cleans(1) \/ Signal(1) PROVE Pending(c, at)'
  BY <1>4, <1>7, <1>10 DEF Cleans, Signal, Turn, Cleaned, Asks, ToService
<1>11. ASSUME Executes(1) PROVE Pending(c, at)'
  BY <1>7, <1>11 DEF Executes, Turn
<1>12. ASSUME Fails(1) PROVE Pending(c, at)'
  BY <1>7, <1>12 DEF Fails, Turn
<1>13. ASSUME Reports(1) PROVE Pending(c, at)'
  <2>1. PICK ok \in BOOLEAN : ok = (requests[1].phase = "done")
    OBVIOUS
  <2>2. Answer(1, ok) /\ UNCHANGED <<served, seen>> /\ requests[1].phase \in {"done", "failed"}
    BY <1>13, <2>1 DEF Reports
  <2>3. Brings(at, ok)'
    BY <1>4, <2>1, <2>2 DEF Brings, Asks
  <2> QED
    BY <1>6, <2>2, <2>3
<1>14. Pending(c, at)'
  BY <1>1, <1>4, <1>8, <1>9, <1>10, <1>11, <1>12, <1>13
<1> QED
  BY <1>3, <1>5, <1>14 DEF Sound, Awaits, Waiting, Limited

\* A core that ends by itself is not the one that a call has stopped.
LEMMA DiesSound ==
    ASSUME LifecycleTypeOK, NEW c \in Calls, CoreDies, UNCHANGED <<stateVars, installed, call>>
    PROVE  (Sound(c, call[c]) => Sound(c, call[c])') /\ (Rest => Rest')
<1>1. /\ child' = child \/ (child = "alive" /\ child' = "dead")
      /\ "died" \in seen' /\ UNCHANGED <<requests, mail, call, installed, coreState, startMode>>
  BY DEF CoreDies, stateVars
<1>2. HasCore => HasCore'
  BY <1>1 DEF HasCore, Lives
<1>3. Silent => Silent'
  BY <1>1 DEF Silent
<1>4. \A at \in Places, ok \in BOOLEAN : Brings(at, ok) => Brings(at, ok)'
  BY <1>1 DEF Brings, Lives
<1>5. Rest => Rest'
  BY <1>1, <1>2 DEF Rest
<1>6. ASSUME Sound(c, call[c]) PROVE Sound(c, call[c])'
  <2>1. call[c].at \in Places
    BY DEF LifecycleTypeOK, CallRecord
  <2>2. ASSUME Pending(c, call[c].at) PROVE Pending(c, call[c].at)'
    <3>1. CASE /\ mail = <<>> /\ Len(requests) = 1 /\ requests[1].by = c /\ Asks(call[c].at, requests[1])
      BY <1>1, <3>1 DEF Pending, Asks
    <3>2. CASE requests = <<>> /\ Len(mail) = 1 /\ mail[1].by = c /\ Brings(call[c].at, mail[1].ok)
      <4>1. mail[1].ok \in BOOLEAN
        <5>1. mail \in Seq(Result)
          BY DEF LifecycleTypeOK, ProcessesTypeOK
        <5>2. mail[1] \in Result
          BY <3>2, <5>1, RemoveOnly
        <5> QED
          BY <5>2 DEF Result
      <4> QED
        BY <1>1, <1>4, <2>1, <3>2, <4>1 DEF Pending
    <3> QED
      BY <2>2, <3>1, <3>2 DEF Pending
  <2>3. PICK ok \in BOOLEAN : ok = (call[c].answer = "ok")
    OBVIOUS
  <2>4. Brings(call[c].at, ok) => Brings(call[c].at, ok)'
    BY <1>4, <2>1
  <2>5. IF Awaits(call[c]) THEN Pending(c, call[c].at)' ELSE Silent'
    BY <1>3, <1>6, <2>2 DEF Sound
  <2> QED
    BY <1>1, <1>2, <1>6, <2>3, <2>4, <2>5 DEF Sound, Awaits
<1> QED
  BY <1>5, <1>6

\* A stop that hangs changes nothing else.
LEMMA HangsSound ==
    ASSUME LifecycleTypeOK, NEW c \in Calls, Hangs, UNCHANGED <<stateVars, installed, call>>
    PROVE  (Sound(c, call[c]) => Sound(c, call[c])') /\ (Rest => Rest')
<1>1. UNCHANGED <<requests, mail, child, served, seen, coreState, startMode, installed, call>>
  BY DEF Hangs, stateVars
<1>2. HasCore' <=> HasCore
  BY <1>1 DEF HasCore
<1>3. Sound(c, call[c])' <=> Sound(c, call[c])
  BY <1>1, <1>2 DEF Sound, Awaits, Pending, Silent, Asks, Brings
<1>4. Rest' <=> Rest
  BY <1>1, <1>2 DEF Rest
<1> QED
  BY <1>3, <1>4

\* Disowned requests and results keep what they are, and of none there are none.
LEMMA DisownKeeps ==
    ASSUME NEW C, NEW s
    PROVE  /\ DOMAIN Disown(C, s) = DOMAIN s
           /\ s = <<>> => Disown(C, s) = <<>>
<1>1. DOMAIN Disown(C, s) = DOMAIN s
  BY DEF Disown
<1>2. ASSUME s = <<>> PROVE Disown(C, s) = <<>>
  BY <1>2 DEF Disown
<1> QED
  BY <1>1, <1>2

\* A sequence of one element is taken apart.
LEMMA OneResult ==
    ASSUME NEW S, NEW s \in Seq(S), Len(s) = 1
    PROVE  Head(s) = s[1] /\ Tail(s) = <<>>
<1>1. Head(s) = s[1]
  OBVIOUS
<1>2. Tail(s) \in Seq(S) /\ Len(Tail(s)) = 0
  OBVIOUS
<1>3. Tail(s) = <<>>
  BY <1>2, Zenon, EmptySeq
<1> QED
  BY <1>1, <1>3

\* The only call that waits takes the only result, which is its own.
LEMMA DeliverSound ==
    ASSUME LifecycleTypeOK, NEW c \in Calls, Sound(c, call[c]), Delivers,
           \A d \in Calls : d # c => ~Awaits(call[d])
    PROVE  Sound(c, call[c])' /\ Awaits(call[c]) /\ UNCHANGED seen
<1> DEFINE takers == {d \in Calls : call[d].at \in Waiting /\ call[d].answer = "none"}
           others == takers \ {Head(mail).by}
<1>1. Awaits(call[c]) /\ requests = <<>> /\ Len(mail) = 1 /\ mail[1].by = c /\ Brings(call[c].at, mail[1].ok)
  BY DEF Delivers, Deliver, Sound, Silent, Pending
<1>2. takers = {c}
  BY <1>1 DEF Awaits
<1>3. mail \in Seq(Result) /\ mail[1] \in Result
  <2>1. mail \in Seq(Result)
    BY DEF LifecycleTypeOK, ProcessesTypeOK
  <2> QED
    BY <1>1, <2>1, RemoveOnly
<1>4. Head(mail) = mail[1] /\ Tail(mail) = <<>>
  BY <1>1, <1>3, OneResult
<1>5. others = {}
  BY <1>1, <1>2, <1>4
<1>6. mail' = Disown(others, Tail(mail)) /\ requests' = Disown(others, requests) /\ UNCHANGED seen
  BY <1>5 DEF Delivers, Deliver
<1>7. Silent'
  BY <1>1, <1>4, <1>6, DisownKeeps DEF Silent
<1>8. call'[c] = [call[c] EXCEPT !.answer = IF mail[1].ok THEN "ok" ELSE "bad"]
  BY <1>2, <1>4 DEF Delivers, Deliver
<1>9. call[c] \in CallRecord
  BY DEF LifecycleTypeOK
<1>10. call'[c].at = call[c].at /\ call'[c].answer = IF mail[1].ok THEN "ok" ELSE "bad"
  BY <1>8, <1>9 DEF CallRecord
<1>11. UNCHANGED <<child, served, seen>>
  BY <1>6 DEF Delivers, Deliver
<1>12. Brings(call[c].at, call[c].answer = "ok")'
  <2>1. (call'[c].answer = "ok") = mail[1].ok
    BY <1>3, <1>10 DEF Result
  <2> QED
    BY <1>1, <1>10, <1>11, <2>1 DEF Brings
<1>13. ~Awaits(call[c])' /\ call'[c].at \in Waiting
  BY <1>1, <1>10 DEF Awaits
<1> QED
  BY <1>1, <1>6, <1>7, <1>12, <1>13 DEF Sound, Waiting, Limited

\* The poll beside a wait changes nothing for it.
LEMMA PolledSound ==
    ASSUME LifecycleTypeOK, NEW c \in Calls, NEW api \in {"ok", "bad"}, Polled(c, api), UNCHANGED installed
    PROVE  /\ Sound(c, call[c]) => Sound(c, call[c])'
           /\ Rest => Rest'
           /\ UNCHANGED seen
           /\ \A d \in Calls : call'[d].at = call[d].at
<1>1. call[c] \in CallRecord /\ call' = [call EXCEPT ![c] = [call[c] EXCEPT !.api = api]]
      /\ UNCHANGED <<processVars, stateVars>>
  BY DEF Polled, Becomes, LifecycleTypeOK
<1>2. call'[c] = [call[c] EXCEPT !.api = api] /\ \A d \in Calls : d # c => call'[d] = call[d]
  BY <1>1 DEF LifecycleTypeOK
<1>3. call'[c].at = call[c].at /\ call'[c].answer = call[c].answer
  BY <1>1, <1>2 DEF CallRecord
<1>4. UNCHANGED <<requests, mail, child, served, seen, startMode, coreState>>
  BY <1>1 DEF processVars, stateVars
<1>5. HasCore' <=> HasCore
  BY <1>4 DEF HasCore
<1>6. Sound(c, call[c])' <=> Sound(c, call[c])
  BY <1>3, <1>4, <1>5 DEF Sound, Awaits, Pending, Silent, Asks, Brings
<1>7. Rest' <=> Rest
  BY <1>4, <1>5 DEF Rest
<1> QED
  BY <1>2, <1>3, <1>4, <1>6, <1>7

\* A limit passes only where the service is asked.
LEMMA LimitMode ==
    ASSUME LifecycleTypeOK, Mode, NEW c \in Calls, LimitPasses(c), UNCHANGED installed
    PROVE  Mode'
<1>1. installed
  BY DEF LimitPasses, Mode, Limited
<1>2. call[c] \in CallRecord /\ call' = [call EXCEPT ![c] = [call[c] EXCEPT !.answer = "late"]]
  BY DEF LimitPasses, Becomes, LifecycleTypeOK
<1>3. \A d \in Calls : call'[d].at = call[d].at
  BY <1>2 DEF LifecycleTypeOK, CallRecord
<1>4. requests \in Seq(Request) /\ requests' = Disown({c}, requests) /\ UNCHANGED child
  BY DEF LimitPasses, LifecycleTypeOK, ProcessesTypeOK
<1>5. ASSUME NEW i \in DOMAIN requests' PROVE requests'[i].kind # "StartClashProcess"
  <2>1. i \in DOMAIN requests /\ requests[i] \in Request
    BY <1>4, <1>5, DisownKeeps
  <2>2. requests'[i] = requests[i] \/ requests'[i] = [requests[i] EXCEPT !.by = NoCall]
    BY <1>4, <2>1 DEF Disown
  <2>3. requests'[i].kind = requests[i].kind
    BY <2>1, <2>2 DEF Request
  <2> QED
    BY <1>1, <2>1, <2>3 DEF Mode
<1> QED
  BY <1>1, <1>3, <1>4, <1>5 DEF Mode, LimitPasses

\* What is left of a sequence was in it.
LEMMA RemoveAtElements ==
    ASSUME NEW S, NEW s \in Seq(S), NEW k \in DOMAIN s, NEW i \in DOMAIN RemoveAt(s, k)
    PROVE  \E j \in DOMAIN s : RemoveAt(s, k)[i] = s[j]
<1>1. k \in 1..Len(s) /\ Len(s) \in Nat
  OBVIOUS
<1>2. Len(RemoveAt(s, k)) = Len(s) - 1 /\ i \in 1..(Len(s) - 1)
  BY <1>1 DEF RemoveAt
<1>3. CASE i < k
  <2>1. RemoveAt(s, k)[i] = s[i]
    BY <1>1, <1>2, <1>3 DEF RemoveAt
  <2> QED
    BY <1>2, <2>1
<1>4. CASE ~(i < k)
  <2> DEFINE a == SubSeq(s, 1, k - 1)
             b == SubSeq(s, k + 1, Len(s))
  <2>a. a \in Seq(S) /\ Len(a) = k - 1 /\ b \in Seq(S) /\ Len(b) = Len(s) - k
    BY <1>1
  <2>b. i - (k - 1) \in 1..(Len(s) - k)
    BY <1>1, <1>2, <1>4
  <2>c. b[i - (k - 1)] = s[i + 1]
    <3>1. \A x \in 1..(Len(s) - k) : b[x] = s[x + k]
      BY <1>1
    <3>2. (i - (k - 1)) + k = i + 1
      BY <1>1, <1>2
    <3> HIDE DEF b
    <3> QED
      BY <2>b, <3>1, <3>2
  <2>d. (a \o b)[i] = b[i - (k - 1)]
    <3> HIDE DEF a, b
    <3> QED
      BY <1>1, <1>2, <1>4, <2>a
  <2>1. RemoveAt(s, k)[i] = s[i + 1]
    BY <2>c, <2>d DEF RemoveAt
  <2>2. i + 1 \in DOMAIN s
    BY <1>2
  <2> QED
    BY <2>1, <2>2
<1> QED
  BY <1>3, <1>4

\* With the service the hub starts no child of its own.
LEMMA HubMode ==
    ASSUME LifecycleTypeOK, Mode, HubStep \/ CoreDies \/ Hangs \/ (installed /\ UninstallTells),
           UNCHANGED <<stateVars, installed, call>>
    PROVE  Mode'
<1> DEFINE NoStart(s) == \A i \in DOMAIN s : s[i].kind # "StartClashProcess"
<1>1. requests \in Seq(Request)
  BY DEF LifecycleTypeOK, ProcessesTypeOK
<1>2. ASSUME NEW i \in DOMAIN requests, NEW ok, Answer(i, ok), NoStart(requests) PROVE NoStart(requests')
  <2>1. ASSUME NEW k \in DOMAIN requests' PROVE requests'[k].kind # "StartClashProcess"
    <3>1. PICK j \in DOMAIN requests : requests'[k] = requests[j]
      BY <1>1, <1>2, <2>1, RemoveAtElements DEF Answer
    <3> QED
      BY <1>2, <3>1
  <2> QED
    BY <2>1
<1>3. ASSUME NEW i \in DOMAIN requests, NEW p \in STRING, requests' = [requests EXCEPT ![i].phase = p], NoStart(requests)
      PROVE  NoStart(requests')
  <2>1. ASSUME NEW k \in DOMAIN requests' PROVE requests'[k].kind # "StartClashProcess"
    <3>1. k \in DOMAIN requests /\ requests[k] \in Request
      BY <1>1, <1>3, <2>1
    <3>2. requests'[k] = requests[k] \/ requests'[k] = [requests[k] EXCEPT !.phase = p]
      BY <1>3, <3>1
    <3>3. requests'[k].kind = requests[k].kind
      BY <3>1, <3>2 DEF Request
    <3> QED
      BY <1>3, <3>1, <3>3
  <2> QED
    BY <2>1
<1>4. UNCHANGED <<installed, startMode, call>>
  BY DEF stateVars
<1>5. ASSUME installed, NoStart(requests), child = "none" PROVE child' = "none" /\ NoStart(requests')
  <2>1. CASE CoreDies \/ Hangs \/ UninstallTells
    BY <1>5, <2>1 DEF CoreDies, Hangs, UninstallTells
  <2>2. ASSUME NEW i \in DOMAIN requests, Refuse(i) \/ Spawn(i) \/ SpawnFails(i) \/ Signal(i) \/ Reaped(i) PROVE FALSE
    BY <1>5, <2>2 DEF Refuse, Spawn, SpawnFails, Signal, Reaped, Turn
  <2>3. ASSUME NEW i \in DOMAIN requests, NothingRuns(i) \/ Reports(i) PROVE child' = "none" /\ NoStart(requests')
    <3>1. child' = "none" /\ \E ok : Answer(i, ok)
      BY <1>5, <2>3 DEF NothingRuns, Reports
    <3> QED
      BY <1>2, <1>5, <3>1
  <2>4. ASSUME NEW i \in DOMAIN requests, Executes(i) \/ Fails(i) \/ Cleans(i)
        PROVE  child' = "none" /\ NoStart(requests')
    <3>1. child' = "none"
      BY <1>5, <2>4 DEF Executes, Fails, Cleans
    <3>2. CASE Executes(i)
      BY <1>3, <1>5, <3>1, <3>2 DEF Executes
    <3>3. CASE Fails(i)
      BY <1>3, <1>5, <3>1, <3>3 DEF Fails
    <3>4. CASE Cleans(i)
      BY <1>3, <1>5, <3>1, <3>4 DEF Cleans
    <3> QED
      BY <2>4, <3>2, <3>3, <3>4
  <2> QED
    BY <2>1, <2>2, <2>3, <2>4 DEF HubStep
<1>6. /\ seen \subseteq seen' /\ ("late" \in seen' => "late" \in seen)
      /\ ~installed /\ "told" \in seen' => "told" \in seen
      /\ (child' = "dead" => child = "dead" \/ "died" \in seen')
  <2>1. CASE CoreDies \/ Hangs \/ (installed /\ UninstallTells)
    BY <2>1 DEF CoreDies, Hangs, UninstallTells
  <2>2. ASSUME NEW i \in DOMAIN requests,
               Refuse(i) \/ Spawn(i) \/ SpawnFails(i) \/ Cleans(i) \/ Signal(i) \/ Reaped(i) \/ NothingRuns(i)
                  \/ Executes(i) \/ Fails(i) \/ Reports(i)
        PROVE  seen' = seen /\ (child' = "dead" => child = "dead")
    BY <2>2 DEF Refuse, Spawn, SpawnFails, Cleans, Signal, Reaped, NothingRuns, Executes, Fails, Reports
  <2> QED
    BY <2>1, <2>2 DEF HubStep
<1> QED
  BY <1>4, <1>5, <1>6 DEF Mode

-----------------------------------------------------------------------------
(***************************************************************************)
(* The invariant of calls that are not taken up beside another one.        *)
(***************************************************************************)
FlowInv == LifecycleInv /\ Mode /\ Flow

\* It holds at the beginning.
LEMMA FlowInit == LifecycleInit => FlowInv
<1> SUFFICES ASSUME LifecycleInit PROVE FlowInv
  OBVIOUS
<1>1. LifecycleInv
  BY InvInit
<1>2. \A c \in Calls : call[c].at = "idle"
  BY DEF LifecycleInit
<1>3. Mode
  BY <1>2 DEF LifecycleInit, Mode
<1>4. Rest
  BY DEF LifecycleInit, Rest, HasCore, Lives
<1>5. Flow
  BY <1>2, <1>4 DEF LifecycleInit, Flow, Silent, Active
<1> QED
  BY <1>1, <1>3, <1>5 DEF FlowInv

\* A call that moved in order leaves everything in order.
LEMMA FlowMoves ==
    ASSUME LifecycleInv, Flow, NEW c \in Calls, ~Overlapped', "late" \notin seen, "told" \notin seen,
           (Active(c) /\ GoesWell(c)) \/ (call[c].at = "idle" /\ BeginsWell(c)),
           Sound(c, call[c])', Rest', UNCHANGED seen
    PROVE  Flow'
<1>1. /\ ~Overlapped
      /\ \A d \in Calls : d # c => call'[d] = call[d] /\ ~Active(d)
  BY SoloStep DEF LifecycleInv
<1>2. \A d \in Calls : Active(d)' => d = c
  BY <1>1 DEF Active
<1>3. "foreign" \notin seen'
  BY <1>1 DEF Flow
<1>4. Quiet' => Silent'
  BY DEF Quiet, Active, Sound, Awaits, Waiting, Limited
<1> QED
  BY <1>2, <1>3, <1>4 DEF Flow

\* A call under way keeps the order.
LEMMA ContinuesFlows ==
    ASSUME FlowInv, NEW c \in Calls, Continues(c)
    PROVE  Mode' /\ Flow'
<1> USE DEF FlowInv
<1>1. LifecycleTypeOK /\ Shape(call[c]) /\ UNCHANGED installed
  BY DEF LifecycleInv, Continues
<1>2. Active(c) /\ GoesWell(c)
  BY <1>1, ContinuesGoesWell, ContinuesActive
<1>3. ASSUME ~Overlapped', "late" \notin seen, "told" \notin seen
      PROVE  Sound(c, call[c]) /\ Rest /\ Fits(call[c], coreState)
  <2>1. ~Overlapped
    BY <1>1, <1>2, <1>3, SoloStep DEF LifecycleInv
  <2> QED
    BY <1>2, <1>3, <2>1 DEF Flow, LifecycleInv, Solo
<1>4. ASSUME ~Overlapped', "late" \notin seen, "told" \notin seen, Sound(c, call[c])', Rest', UNCHANGED seen PROVE Flow'
  BY <1>2, <1>4, FlowMoves
<1>5. CASE LimitPasses(c)
  <2>1. Mode'
    BY <1>1, <1>5, LimitMode
  <2>2. "late" \in seen'
    BY <1>5 DEF LimitPasses
  <2> QED
    BY <2>1, <2>2 DEF Flow
<1>6. ASSUME NEW api \in {"ok", "bad"}, Polled(c, api) PROVE Mode' /\ Flow'
  <2>1. /\ Sound(c, call[c]) => Sound(c, call[c])'
        /\ Rest => Rest'
        /\ UNCHANGED seen
        /\ \A d \in Calls : call'[d].at = call[d].at
    BY <1>1, <1>6, PolledSound
  <2>2. UNCHANGED <<requests, child, startMode>>
    BY <1>6 DEF Polled, processVars, stateVars
  <2>3. Mode'
    BY <1>1, <2>1, <2>2 DEF Mode
  <2>4. Flow'
    <3> SUFFICES ASSUME ~Overlapped', "late" \notin seen', "told" \notin seen' PROVE Flow'
      BY DEF Flow
    <3> QED
      BY <1>3, <1>4, <2>1
  <2> QED
    BY <2>3, <2>4
<1>7. CASE ~LimitPasses(c) /\ ~Polled(c, "ok") /\ ~Polled(c, "bad")
  <2>1. PICK q \in CallRecord :
           /\ Carries(c, q)
           /\ Sound(c, call[c]) /\ Rest /\ Fits(call[c], coreState) => Silent /\ Suits(q)
    BY <1>1, <1>7, StepGoesSoundly DEF GoesSoundly
  <2>2. Mode'
    <3>1. ~installed => startMode' # "service"
      BY <2>1 DEF Carries
    <3> QED
      BY <1>1, <2>1, <3>1, CarriesMode
  <2>3. Flow'
    <3> SUFFICES ASSUME ~Overlapped', "late" \notin seen', "told" \notin seen' PROVE Flow'
      BY DEF Flow
    <3>1. "late" \notin seen /\ "told" \notin seen
      BY <2>1 DEF Carries
    <3>2. Silent /\ Suits(q)
      BY <1>3, <2>1, <3>1
    <3>3. Sound(c, call[c])' /\ Rest' /\ UNCHANGED seen
      BY <1>1, <2>1, <3>2, CarriesSound
    <3> QED
      BY <1>4, <3>1, <3>3
  <2> QED
    BY <2>2, <2>3
<1> QED
  BY <1>5, <1>6, <1>7

\* A call that begins keeps the order.
LEMMA BeginFlows ==
    ASSUME FlowInv, NEW c \in Calls, BeginStart(c) \/ BeginStopCore(c), UNCHANGED installed
    PROVE  Mode' /\ Flow'
<1> USE DEF FlowInv
<1>1. LifecycleTypeOK /\ Shape(call[c])
  BY DEF LifecycleInv
<1>2. call[c].at = "idle" /\ (BeginsWell(c) \/ RefusedWell(c))
  BY <1>1, StartBeginsWell, StopBeginsWell DEF BeginStart, BeginStopCore
<1>3. PICK q \in CallRecord : Carries(c, q) /\ (Clear => Suits(q))
  BY <1>1, BeginCarries DEF CarriesOn
<1>4. Mode'
  <2>1. ~installed => startMode' # "service"
    BY <1>3 DEF Carries
  <2> QED
    BY <1>1, <1>3, <2>1, CarriesMode
<1>6. CASE RefusedWell(c)
  <2>1. /\ UNCHANGED <<stateVars, processVars, installed>>
        /\ \A d \in Calls : d # c => call'[d] = call[d]
        /\ \A d \in Calls : Active(d)' <=> Active(d)
        /\ (Overlapped' <=> Overlapped) /\ (Quiet' <=> Quiet) /\ ~Active(c)
    BY <1>1, <1>2, <1>6, RefusedStays DEF Active
  <2>2. UNCHANGED <<requests, mail, child, served, seen, coreState, startMode, installed>>
    BY <2>1 DEF processVars, stateVars
  <2>3. (HasCore' <=> HasCore) /\ (Silent' <=> Silent)
    BY <2>2 DEF HasCore, Silent
  <2>4. ASSUME NEW d \in Calls, Active(d)' PROVE Sound(d, call[d])' <=> Sound(d, call[d])
    <3>1. call'[d] = call[d]
      BY <2>1, <2>4
    <3> QED
      BY <2>2, <2>3, <3>1 DEF Sound, Awaits, Pending, Asks, Brings
  <2>5. Rest' <=> Rest
    BY <2>2, <2>3 DEF Rest
  <2> QED
    BY <1>4, <2>1, <2>2, <2>3, <2>4, <2>5 DEF Flow
<1>5. CASE BeginsWell(c)
  <2> SUFFICES ASSUME ~Overlapped', "late" \notin seen', "told" \notin seen' PROVE Flow'
    BY <1>4 DEF Flow
  <2>1. "late" \notin seen /\ "told" \notin seen
    BY <1>3 DEF Carries
  <2>2. ~Overlapped /\ \A d \in Calls : d # c => ~Active(d)
    BY <1>1, <1>2, <1>5, SoloStep DEF LifecycleInv
  <2>3. Quiet
    BY <1>2, <2>2 DEF Quiet, Active
  <2>4. Silent /\ Rest /\ coreState \in {"stopped", "running"}
    BY <2>1, <2>2, <2>3 DEF Flow, LifecycleInv, Solo
  <2>5. Silent /\ Suits(q)
    BY <1>3, <2>4 DEF Clear, Rest
  <2>6. Sound(c, call[c])' /\ Rest' /\ UNCHANGED seen
    BY <1>1, <1>3, <2>5, CarriesSound
  <2> QED
    BY <1>2, <1>5, <2>1, <2>6, FlowMoves
<1> QED
  BY <1>2, <1>4, <1>5, <1>6

\* What the hub, the service and the core do keeps the order, and so does a delivery.
LEMMA HubFlows ==
    ASSUME FlowInv, Delivers \/ Hub
    PROVE  Mode' /\ Flow'
<1> USE DEF FlowInv
<1>1. LifecycleTypeOK
  BY DEF LifecycleInv
<1>2. /\ UNCHANGED stateVars /\ UNCHANGED installed
      /\ \A c \in Calls : call'[c].at = call[c].at /\ call'[c].alone = call[c].alone
  BY <1>1, HubStays DEF Delivers, Hub
<1>3. Mode'
  <2>1. CASE Hub
    BY <1>1, <1>2, <2>1, HubMode DEF Hub
  <2>2. CASE Delivers
    <3>1. PICK C \in SUBSET Calls : requests' = Disown(C, requests)
      BY <2>2 DEF Delivers, Deliver
    <3>2. /\ UNCHANGED <<child, startMode>>
          /\ "late" \in seen' => "late" \in seen
          /\ "told" \in seen' => "told" \in seen
          /\ "died" \in seen => "died" \in seen'
      BY <2>2 DEF Delivers, Deliver, stateVars
    <3>3. requests \in Seq(Request)
      BY <1>1 DEF LifecycleTypeOK, ProcessesTypeOK
    <3>4. ASSUME installed, NEW i \in DOMAIN requests' PROVE requests'[i].kind # "StartClashProcess"
      <4>1. i \in DOMAIN requests /\ requests[i] \in Request
        BY <3>1, <3>3, <3>4, DisownKeeps
      <4>2. requests'[i] = requests[i] \/ requests'[i] = [requests[i] EXCEPT !.by = NoCall]
        BY <3>1, <4>1 DEF Disown
      <4>3. requests'[i].kind = requests[i].kind
        BY <4>1, <4>2 DEF Request
      <4> QED
        BY <3>4, <4>1, <4>3 DEF Mode
    <3> QED
      BY <1>2, <3>2, <3>4 DEF Mode
  <2> QED
    BY <2>1, <2>2
<1>4. Flow'
  <2> SUFFICES ASSUME ~Overlapped', "late" \notin seen', "told" \notin seen' PROVE Flow'
    BY DEF Flow
  <2>1. ~Overlapped /\ (Quiet' <=> Quiet) /\ \A c \in Calls : Active(c)' <=> Active(c)
    BY <1>2 DEF Overlapped, Quiet, Active
  <2>2. "late" \notin seen /\ "told" \notin seen
    BY DEF Delivers, Deliver, Hub, HubStep, CoreDies, Hangs, UninstallTells, Refuse, Spawn, SpawnFails, Cleans, Signal, Reaped,
           NothingRuns, Executes, Fails, Reports
  <2>3. /\ "foreign" \notin seen /\ Rest /\ (Quiet => Silent)
        /\ \A c \in Calls : Active(c) => Sound(c, call[c]) /\ Fits(call[c], coreState)
        /\ \A c, d \in Calls : Active(c) /\ Active(d) => c = d
    BY <2>1, <2>2 DEF Flow, LifecycleInv, Solo
  <2>4. CASE Hub /\ CoreDies
    <3>1. UNCHANGED <<stateVars, installed, call, requests, mail>> /\ seen' = seen \cup {"died"}
      BY <2>4 DEF Hub, CoreDies
    <3>2. Rest'
      <4>1. child' = child \/ (child = "alive" /\ child' = "dead")
        BY <2>4 DEF CoreDies
      <4> QED
        BY <2>3, <3>1, <4>1 DEF Rest, HasCore, Lives, stateVars
    <3>3. \A c \in Calls : Active(c) => Sound(c, call[c])'
      BY <1>1, <2>3, <2>4, <3>1, DiesSound
    <3> QED
      BY <2>1, <2>3, <3>1, <3>2, <3>3 DEF Flow, Silent
  <2>6. CASE Hub /\ Hangs
    <3>1. UNCHANGED <<stateVars, installed, call, requests, mail, seen>>
      BY <2>6 DEF Hub, Hangs
    <3>2. Rest'
      <4>1. UNCHANGED <<child, served>>
        BY <2>6 DEF Hangs
      <4> QED
        BY <2>3, <3>1, <4>1 DEF Rest, HasCore, stateVars
    <3>3. \A c \in Calls : Active(c) => Sound(c, call[c])'
      BY <1>1, <2>3, <2>6, <3>1, HangsSound
    <3> QED
      BY <2>1, <2>3, <3>1, <3>2, <3>3 DEF Flow, Silent
  <2>7. CASE Hub /\ UninstallTells
    BY <2>7 DEF UninstallTells
  <2>5. CASE (Hub /\ HubStep) \/ Delivers
    <3>1. requests # <<>> \/ mail # <<>>
      BY <2>5 DEF HubStep, Delivers, Deliver
    <3>2. PICK c \in Calls : Active(c)
      BY <2>3, <3>1 DEF Quiet, Silent
    <3>3. \A d \in Calls : d # c => ~Awaits(call[d])
      BY <2>3, <3>2 DEF Awaits, Active, Waiting, Limited
    <3>4. Sound(c, call[c])' /\ Awaits(call[c]) /\ UNCHANGED seen
      BY <1>1, <2>3, <2>5, <3>2, <3>3, HubSound, DeliverSound DEF Hub
    <3>5. coreState' \in {"starting", "stopping"}
      BY <1>2, <2>3, <3>2, <3>4, WaitsOnTheWay DEF stateVars
    <3>6. ~Quiet' /\ \A d \in Calls : Active(d)' => d = c
      BY <2>1, <2>3, <3>2 DEF Quiet
    <3> QED
      BY <2>3, <3>4, <3>5, <3>6 DEF Flow, Rest
  <2> QED
    BY <2>4, <2>5, <2>6, <2>7 DEF Hub
<1> QED
  BY <1>3, <1>4

\* Every step keeps the order.
LEMMA FlowStep == FlowInv /\ [LifecycleNext]_lifecycleVars => FlowInv'
<1> SUFFICES ASSUME FlowInv, [LifecycleNext]_lifecycleVars PROVE FlowInv'
  OBVIOUS
<1>1. LifecycleInv'
  BY InvStep DEF FlowInv
<1>2. CASE LifecycleNext
  BY <1>1, <1>2, ContinuesFlows, BeginFlows, HubFlows DEF LifecycleNext, FlowInv
<1>3. CASE UNCHANGED lifecycleVars
  <2>1. UNCHANGED <<requests, mail, child, served, seen, coreState, startMode, installed, call>>
    BY <1>3 DEF lifecycleVars, processVars, stateVars
  <2>2. Mode' <=> Mode
    BY <2>1 DEF Mode
  <2>3. Flow' <=> Flow
    BY <2>1 DEF Flow, Overlapped, Rest, HasCore, Quiet, Active, Silent, Sound, Awaits, Pending, Asks, Brings
  <2> QED
    BY <1>1, <2>2, <2>3 DEF FlowInv
<1> QED
  BY <1>2, <1>3

\* While no call was taken up beside another one, no limit has passed and the service was not
\* uninstalled, what is on its way is the
\* request of the call that waits or its result, and each place and each shown state
\* has the core that belongs to it, for any number of calls and failures.
THEOREM FlowInductive == LifecycleSpec => []FlowInv
BY FlowInit, FlowStep, PTL DEF LifecycleSpec

\* A call takes a result that is not its own only when a call was taken up beside
\* another one, an earlier wait was given up or the service was uninstalled.
THEOREM ResultAlwaysOwn == LifecycleSpec => []OwnResult
<1>1. FlowInv => OwnResult
  BY DEF FlowInv, Flow, OwnResult
<1> QED
  BY <1>1, FlowInductive, PTL

\* The application shows "running" only of a core there is, as long as no call was taken
\* up beside another one, no limit has passed, the service was not uninstalled and no core
\* has died.
THEOREM RunningAlwaysHasCore == LifecycleSpec => []RunningHasCore
<1>1. FlowInv => RunningHasCore
  BY DEF FlowInv, Flow, Mode, Rest, HasCore, Lives, RunningHasCore
<1> QED
  BY <1>1, FlowInductive, PTL

\* When all is quiet and the application shows "stopped" no child of the hub runs, even
\* after limits have passed or an uninstallation and beside calls that were refused, as long as no call was
\* taken up beside another one: a start that is let in during a stop is not covered.
THEOREM StoppedNeverHasChild == LifecycleSpec => []StoppedHasNoChild
<1>1. FlowInv => StoppedHasNoChild
  BY DEF FlowInv, Flow, Mode, Rest, StoppedHasNoChild
<1> QED
  BY <1>1, FlowInductive, PTL
=============================================================================
