---------------------------- MODULE IpcRequests -----------------------------
(***************************************************************************)
(* The application's requests (clash/client/ipc_request_helper.dart)       *)
(* composed with the hub that carries them out.  Every attempt of a call   *)
(* is a signal with an id of its own and a completer waiting for that id;  *)
(* it is given up by a timeout, while the hub, which has none, goes on.    *)
(***************************************************************************)
EXTENDS IpcPool

CONSTANTS
    Calls,      \* the calls that are ever made
    PutCalls,   \* those of them that are PUT requests
    Attempts    \* per call: _IpcRetryConfig.maxRetries, or fewer

\* Attempt n of call k is the request <<k, n>>.
ASSUME CallAssumption ==
    /\ Attempts \in [Calls -> Nat \ {0}]
    /\ PutCalls \subseteq Calls
    /\ Requests = UNION {{k} \X (1..Attempts[k]): k \in Calls}
    /\ Updates = {r \in Requests: r[1] \in PutCalls}

VARIABLES
    call,    \* per call: what it waits for, its attempt, and how it has ended
    pending, \* the ids with a completer
    heard    \* per request: how many of its IpcResponses have been taken

callVars == <<call, pending, heard>>
allVars == <<vars, callVars>>

CallsTypeOK ==
    /\ call \in [Calls -> [phase: {"idle", "waiting", "pause", "ok", "failed"},
                           attempt: Nat \ {0}, got: SUBSET Tasks]]
    /\ pending \subseteq Requests
    /\ heard \in [Requests -> Nat]

CallsInit ==
    /\ PoolInit
    /\ call = [k \in Calls |-> [phase |-> "idle", attempt |-> 1, got |-> {}]]
    /\ pending = {}
    /\ heard = [r \in Requests |-> 0]

-----------------------------------------------------------------------------
Id(k) == <<k, call[k].attempt>>

Over(k) == call[k].phase \in {"ok", "failed"}

\* _getNextId, the completer, and the signal to the hub.
Send(k) ==
    /\ call[k].phase \in {"idle", "pause"}
    /\ LET n == IF call[k].phase = "idle" THEN 1 ELSE call[k].attempt + 1
       IN /\ call' = [call EXCEPT ![k].phase = "waiting", ![k].attempt = n]
          /\ pending' = pending \cup {<<k, n>>}
          /\ Receive(<<k, n>>)
    /\ UNCHANGED heard

\* A listener that gives a response to whichever call waits.
MutantAnyCompleter(r) ==
    /\ heard[r] < Len(answer[r])
    /\ heard' = [heard EXCEPT ![r] = @ + 1]
    /\ LET said == answer[r][heard[r] + 1]
       IN IF pending = {} THEN UNCHANGED <<call, pending>>
          ELSE \E id \in pending:
            /\ pending' = pending \ {id}
            /\ call' = [call EXCEPT ![id[1]].phase =
                          CASE said.kind = "answer" -> "ok"
                            [] said.kind = "broken" /\ id[2] < Attempts[id[1]] -> "pause"
                            [] OTHER -> "failed",
                        ![id[1]].got = {said.of}]
    /\ UNCHANGED vars

\* An IpcResponse completes the completer of its own id, or is only logged.  A failure
\* is retried unless it says that the core is not ready, and so is an answer whose
\* body is not a JSON object.
HandleResponse(r) ==
    /\ heard[r] < Len(answer[r])
    /\ heard' = [heard EXCEPT ![r] = @ + 1]
    /\ LET said == answer[r][heard[r] + 1]
           k == r[1]
       IN IF r \notin pending THEN UNCHANGED <<call, pending>>
          ELSE \E decoded \in BOOLEAN:
            /\ pending' = pending \ {r}
            /\ call' = [call EXCEPT ![k].phase =
                          CASE said.kind = "answer" /\ decoded -> "ok"
                            [] said.kind # "notReady" /\ r[2] < Attempts[k] -> "pause"
                            [] OTHER -> "failed",
                        ![k].got = {said.of}]
    /\ UNCHANGED vars

\* The 8, 15 or 30 seconds are over; the call is not tried again.
TimesOut(k) ==
    /\ call[k].phase = "waiting" /\ Id(k) \in pending
    /\ call' = [call EXCEPT ![k].phase = "failed"]
    /\ pending' = pending \ {Id(k)}
    /\ UNCHANGED <<vars, heard>>

CallsNext ==
    \/ \E k \in Calls: Send(k) \/ TimesOut(k)
    \/ \E r \in Requests: HandleResponse(r)
    \/ /\ \/ \E r \in Tasks: TaskStep(r)
          \/ \E c \in Conns: CoreStep(c)
          \/ EnvStep
       /\ UNCHANGED callVars

CallsSpec == CallsInit /\ [][CallsNext]_allVars

\* The hub schedules its tasks and the core answers unless it hangs.  Nothing is asked of
\* the application's timers, nor of delay tests, which nothing waits for.
CallsFairSpec ==
    /\ CallsSpec
    /\ \A r \in Requests: WF_allVars(TaskStep(r) /\ UNCHANGED callVars)
    /\ \A c \in Conns: WF_allVars(CoreStep(c) /\ UNCHANGED callVars)

-----------------------------------------------------------------------------
(***************************************************************************)
(* Safety.                                                                 *)
(***************************************************************************)

\* Every connection has one owner: a task, or one place in one pool.  Two tasks on one
\* connection would read each other's answers.
OneOwner ==
    /\ IsInjective(pool["requests"]) /\ IsInjective(pool["tests"])
    /\ ToSet(pool["requests"]) \cap ToSet(pool["tests"]) = {}
    /\ Held \cap Pooled = {}
    /\ \A r, s \in Tasks: task[r].conn = task[s].conn /\ r # s => task[r].conn = NoConn

\* A connection at rest owes nobody an answer, so that the next task on it reads its
\* own: a test that was given up, or a request that broke, takes its connection along.
NothingOwed ==
    \A c \in Pooled: wire[c].asked = <<>> /\ wire[c].said = <<>> /\ ~wire[c].part

\* A call that succeeds has the answer to its own request, which the core has executed,
\* however late the answers of earlier attempts and other calls come in.
OwnAnswer == \A k \in Calls: call[k].phase = "ok" => call[k].got = {Id(k)} /\ executed[Id(k)] > 0

\* A request is answered once, when it ends, and executed at most once per attempt.
AnsweredOnce ==
    \A r \in Requests:
      /\ Len(answer[r]) = (IF task[r].phase = "ended" THEN 1 ELSE 0)
      /\ executed[r] <= MaxRetries + 1

\* The updates of the configuration do not overlap (CONFIG_UPDATE_SEMAPHORE): the core
\* never has two of them to do or to answer, through retries and breaking connections.
OneUpdate ==
    \A c, d \in Conns: \A r, s \in Updates:
      /\ wire[c].open /\ r \in ToSet(wire[c].asked)
      /\ wire[d].open /\ s \in ToSet(wire[d].asked)
      => r = s

\* A request is reported as not ready, which nobody tries again, only when there is no
\* core.  On Windows it is also when its own connection was closed under it, although the
\* core lives: "os error 2" is found in the texts of 232 and 233, too (handlers.rs:146).
NotReadyForAReason ==
    [][\A r \in Requests:
         answer'[r] # answer[r] /\ Last(answer'[r]).kind = "notReady" =>
           \/ core = "down"
           \/ Windows /\ task[r].phase \in {"write", "read"} /\ ~wire[task[r].conn].open]_allVars

(***************************************************************************)
(* Liveness.                                                               *)
(***************************************************************************)

Spinning == \E r \in Requests: task[r].phase = "spin"

\* The hub answers every request, through retries, the queue of the updates and the
\* limit on new connections, unless the core hangs or a broken answer keeps a task.
AnsweredUnlessStuck ==
    \A r \in Requests: task[r].phase = "acquire" ~> answer[r] # <<>> \/ core = "hung" \/ Spinning

\* "The result is returned by a signal" (handlers.rs:164): every request is answered by a
\* core that does not hang.  The code breaks it: read_chunked_body takes the end of the
\* stream for an empty line and reads on for ever.
Answered == \A r \in Requests: task[r].phase = "acquire" ~> answer[r] # <<>>

=============================================================================
