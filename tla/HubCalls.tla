------------------------------ MODULE HubCalls -------------------------------
(***************************************************************************)
(* How the application has the hub do a job: it listens to the stream of   *)
(* results, sends a request and waits, for a limited time, for the first   *)
(* result, whoever asked for it; in the hub each request is a task of its  *)
(* own, which goes on when nobody waits for it any more                    *)
(* (lib/services/backup_service.dart, lib/clash/services/                  *)
(* core_update_service.dart and the init() of the modules of the hub).     *)
(***************************************************************************)
EXTENDS Naturals, SequencesExt

CONSTANTS
    Calls,    \* the calls of the application, each of them made once
    NoCall,
    MaxFaults \* bound: how often something fails, or the application is killed

ASSUME CallsAssumption == NoCall \notin Calls /\ MaxFaults \in Nat

VARIABLES
    call,   \* per call: its kind, its phase and whose result has answered it
    task,   \* per call: the steps the hub has still to do and how it went
    mail,   \* the results on their way to the application
    faults

callVars == <<call, task, mail, faults>>

Kinds == {"create", "restore", "download", "replace"}

\* The kind of result a call listens to.
Channel(kind) == IF kind \in {"create", "restore"} THEN "backup" ELSE kind

Steps == {"collectPrefs", "collectSubs", "collectOver", "collectFile", "openFile", "fillFile",
          "verify", "readPrefs", "openPrefs", "fillPrefs",
          "clearSubs", "writeSubs", "clearOver", "writeOver", "writeFile",
          "release", "fetch",
          "look", "rename", "open", "fill", "permit", "undo", "remove", "rollBack"}

CallsTypeOK ==
    /\ call \in [Calls -> [kind: Kinds, phase: {"idle", "waits", "answered", "timedOut", "over"},
                           from: Calls \cup {NoCall}]]
    /\ task \in [Calls -> [todo: Seq(Steps), ok: BOOLEAN, alone: BOOLEAN]]
    /\ mail \in Seq(Calls)
    /\ faults \in 0..MaxFaults

CallsInit ==
    /\ call = [c \in Calls |-> [kind |-> "create", phase |-> "idle", from |-> NoCall]]
    /\ task = [c \in Calls |-> [todo |-> <<>>, ok |-> TRUE, alone |-> TRUE]]
    /\ mail = <<>>
    /\ faults = 0

Running(c) == task[c].todo # <<>>
Waits(c) == call[c].phase = "waits"
Doing(c, step) == Running(c) /\ Head(task[c].todo) = step

(***************************************************************************)
(* A call is made: the listener first, then the request.  Two tasks of one *)
(* channel that overlap are not alone.                                     *)
(***************************************************************************)
Ask(c, kind, plan) ==
    LET mates == {d \in Calls : call[d].phase # "idle" /\ Channel(call[d].kind) = Channel(kind)} IN
    /\ call[c].phase = "idle"
    /\ call' = [call EXCEPT ![c] = [kind |-> kind, phase |-> "waits", from |-> NoCall]]
    /\ task' = [d \in Calls |->
                   IF d = c THEN [todo |-> plan, ok |-> TRUE, alone |-> \A m \in mates : ~Running(m) /\ ~Waits(m)]
                   ELSE [task[d] EXCEPT !.alone = @ /\ d \notin mates]]
    /\ UNCHANGED <<mail, faults>>

\* The task goes on with other steps; when none is left its result is sent.
GoTo(c, steps, ok) ==
    /\ task' = [task EXCEPT ![c].todo = steps, ![c].ok = ok]
    /\ mail' = IF steps = <<>> THEN Append(mail, c) ELSE mail
    /\ UNCHANGED call

StepDone(c) == GoTo(c, Tail(task[c].todo), TRUE) /\ UNCHANGED faults

\* A step fails and the `?` ends the task; the cause is not one of the model's faults.
Refuse(c) == GoTo(c, <<>>, FALSE) /\ UNCHANGED faults

\* A step fails for no reason of its own: the disk or the network.
Breaks == faults < MaxFaults /\ faults' = faults + 1
StepBreaks(c) == Breaks /\ GoTo(c, <<>>, FALSE)

(***************************************************************************)
(* The first result after the request ends the call, and the limit does.   *)
(***************************************************************************)
Deliver ==
    /\ mail # <<>>
    /\ LET r == Head(mail)
           hears(c) == Waits(c) /\ Channel(call[c].kind) = Channel(call[r].kind)
       IN  call' = [c \in Calls |-> IF hears(c)
                                    THEN [call[c] EXCEPT !.phase = "answered", !.from = r]
                                    ELSE call[c]]
    /\ mail' = Tail(mail)
    /\ UNCHANGED <<task, faults>>

TimeOut(c) ==
    /\ Waits(c)
    /\ call' = [call EXCEPT ![c].phase = "timedOut"]
    /\ UNCHANGED <<task, mail, faults>>

\* The application is killed and started again: no call, no task, no result is left.
AppEnds ==
    /\ Breaks
    /\ \E c \in Calls : Running(c)
    /\ call' = [c \in Calls |-> IF call[c].phase = "idle" THEN call[c]
                                ELSE [call[c] EXCEPT !.phase = "over"]]
    /\ task' = [c \in Calls |-> [task[c] EXCEPT !.todo = <<>>]]
    /\ mail' = <<>>

\* The step in which the result of c's task is sent.
Sends(c) == Running(c) /\ task'[c].todo = <<>> /\ mail' # <<>> /\ Last(mail') = c
=============================================================================
