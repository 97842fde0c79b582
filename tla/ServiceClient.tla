--------------------------- MODULE ServiceClient ----------------------------
(***************************************************************************)
(* The application's side of the service channel                           *)
(* (native/stelliberty_service/src/ipc/client.rs) composed with the        *)
(* service.  send_command opens a new connection for every attempt and     *)
(* gives an attempt up after a timeout or a transport error, while the     *)
(* service goes on executing what it has received: a command is executed   *)
(* any number of times from 0 to MaxRetries + 1, and also after the call   *)
(* has failed.  The hub spawns a task per signal, so calls overlap.        *)
(***************************************************************************)
EXTENDS ServiceRunner

CONSTANTS
    Clients,    \* the calls of send_command that are ever made
    MaxRetries  \* max_retries

Attempts == 0..MaxRetries

\* Connection <<c, k>> is the one that attempt k of call c opens.
ASSUME ClientAssumption ==
    /\ MaxRetries \in Nat
    /\ Conns = Clients \X Attempts

VARIABLE call   \* per call: how far it is, and the calls over when it began

clientVars == <<vars, call>>

CallPhases == {"idle", "connect", "await", "ok", "refused", "failed", "gone"}

ClientTypeOK ==
    call \in [Clients -> [phase: CallPhases, cmd: AllCmds, attempt: Attempts, prior: SUBSET Clients]]

ClientInit ==
    /\ RunnerInit
    /\ call = [c \in Clients |->
                [phase |-> "idle", cmd |-> "GetStatus", attempt |-> 0, prior |-> {}]]

-----------------------------------------------------------------------------
Over(c) == call[c].phase \in {"ok", "refused", "failed", "gone"}

Socket(c) == <<c, call[c].attempt>>

Begin(c, cmd) ==
    /\ app
    /\ call[c].phase = "idle"
    /\ call' = [call EXCEPT ![c] = [phase |-> "connect", cmd |-> cmd, attempt |-> 0,
                                    prior |-> {d \in Clients: Over(d)}]]
    /\ UNCHANGED vars

\* The connection is made and the command written.
Send(c) ==
    /\ call[c].phase = "connect"
    /\ Arrive(Socket(c), call[c].cmd)
    /\ call' = [call EXCEPT ![c].phase = "await"]

\* A transport error or a timeout: the next attempt, or the end.
GiveUp(c) ==
    IF call[c].attempt < MaxRetries
    THEN call' = [call EXCEPT ![c].phase = "connect", ![c].attempt = @ + 1]
    ELSE call' = [call EXCEPT ![c].phase = "failed"]

\* Nobody listens, or on Windows every pipe instance is taken for the moment.
ConnectFails(c) ==
    /\ call[c].phase = "connect"
    /\ ~listening \/ Windows
    /\ GiveUp(c)
    /\ UNCHANGED vars

\* The timeout races with the answer; a closed connection is an error at once.
AttemptFails(c) ==
    /\ call[c].phase = "await"
    /\ GiveUp(c)
    /\ UNCHANGED vars

\* An answer ends the call; an Error answer is not retried.
Receive(c) ==
    /\ call[c].phase = "await"
    /\ conn[Socket(c)].st = "done"
    /\ call' = [call EXCEPT ![c].phase =
                 IF conn[Socket(c)].answer = "ok" THEN "ok" ELSE "refused"]
    /\ UNCHANGED vars

\* The application goes away with the calls it was making.
AppAborts ==
    /\ AppExits
    /\ call' = [c \in Clients |-> IF Over(c) THEN call[c] ELSE [call[c] EXCEPT !.phase = "gone"]]

\* The connections that were opened before the one call c is waiting on.
Before(c) ==
    {<<c, k>>: k \in 0..(call[c].attempt - 1)} \cup (call[c].prior \X Attempts)

\* A task is polled soon after it is spawned: it joins the queue before a task
\* whose connection was opened after this one had been given up.
HandleInOrder(c) ==
    /\ \A i \in Before(c): conn[i].st # "inbox"
    /\ HandleCommand(Socket(c))
    /\ UNCHANGED call

HandleAbandoned(i) ==
    /\ \/ i[2] < call[i[1]].attempt
       \/ Over(i[1])
    /\ HandleCommand(i)
    /\ UNCHANGED call

CallerStep(c) ==
    \/ Send(c)
    \/ ConnectFails(c)
    \/ AttemptFails(c)
    \/ Receive(c)

ClientNext ==
    \/ \E c \in Clients:
         \/ \E cmd \in Cmds: Begin(c, cmd)
         \/ CallerStep(c)
         \/ HandleInOrder(c)
    \/ \E i \in Conns: HandleAbandoned(i)
    \/ AppAborts
    \/ (TaskStep \/ LifeStep \/ EnvStep) /\ UNCHANGED call

ClientSpec == ClientInit /\ [][ClientNext]_clientVars

-----------------------------------------------------------------------------
\* When a call has succeeded, nothing that was sent before it can still act: no
\* given-up attempt of its own and no call that had ended when it began is going to
\* start or stop a core behind the caller's back.  It rests on the order in which
\* the RwLock is granted, not on anything the client does.
AnswerIsFinal ==
    \A c \in Clients: call[c].phase = "ok" =>
        \A i \in Before(c):
          conn[i].st \in {"inbox", "queued", "held"} => Reads(i)

=============================================================================
