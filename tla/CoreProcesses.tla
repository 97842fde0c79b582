--------------------------- MODULE CoreProcesses -----------------------------
(***************************************************************************)
(* The core without and with the service, as the life cycle of the         *)
(* application sees it: four kinds of requests, one stream of results that *)
(* do not say which request they answer, the child of the hub              *)
(* (native/hub/src/molecules/clash_process/process_manager.rs) and the     *)
(* core of the service (StartClash and StopClash of service_manager.rs).   *)
(***************************************************************************)
EXTENDS Naturals, SequencesExt

CONSTANTS
    Calls,    \* the calls of the application, each of them made once
    NoCall,
    MaxFaults \* bound: how often something fails, a limit passes or a core dies

ASSUME ProcessesAssumption == NoCall \notin Calls /\ MaxFaults \in Nat

VARIABLES
    requests, \* the requests the hub has not answered, in the order of sending
    mail,     \* the results on their way to the application
    child,    \* the process of PROCESS_MANAGER; "leaving": a stop waits for its end
    served,   \* TRUE while the service has a core
    hung,     \* TRUE while a stop of the hub waits for what the core does not do:
              \* its answer to a handshake, or its end
    faults,
    seen      \* what has happened: see Events

processVars == <<requests, mail, child, served, hung, seen>>

ToHub == {"StartClashProcess", "StopClashProcess"}
ToService == {"StartClash", "StopClash"}

\* "foreign": a call took a result that was not its own; "late": a limit passed;
\* "died": a core ended that nobody had stopped; "told": an uninstallation sent a result.
Events == {"foreign", "late", "died", "told"}

Request == [by: Calls \cup {NoCall}, kind: ToHub \cup ToService, phase: {"sent", "cleans", "runs", "done", "failed"}]
\* What the result says is only "ok"; whose it is nobody can see.
Result == [by: Calls \cup {NoCall}, ok: BOOLEAN]

ProcessesTypeOK ==
    /\ requests \in Seq(Request)
    /\ mail \in Seq(Result)
    /\ child \in {"none", "alive", "dead", "leaving"}
    /\ served \in BOOLEAN
    /\ hung \in BOOLEAN
    /\ faults \in 0..MaxFaults
    /\ seen \subseteq Events

\* The API of the core answers, through the hub.
ApiUp == child = "alive" \/ served

Fault == faults < MaxFaults /\ faults' = faults + 1

-----------------------------------------------------------------------------
(***************************************************************************)
(* The hub has one thread: nothing else moves while a stop waits for the   *)
(* child, but it does while a stop waits for the streams to be closed.     *)
(* Requests for the child are handled in the order of their kind.          *)
(***************************************************************************)
Turn(i, kind) ==
    /\ child # "leaving"
    /\ requests[i].kind = kind
    /\ requests[i].phase = "sent"

First(i) == \A j \in 1..(i - 1) : requests[j].kind # requests[i].kind

Answer(i, ok) ==
    /\ mail' = Append(mail, [by |-> requests[i].by, ok |-> ok])
    /\ requests' = RemoveAt(requests, i)

\* A start that is refused and tells nobody.
MutantNoResult(i) ==
    /\ Turn(i, "StartClashProcess") /\ First(i)
    /\ child # "none"
    /\ requests' = RemoveAt(requests, i)
    /\ UNCHANGED <<mail, child, served, hung, seen>>

\* A core that has ended by itself still fills the place.
Refuse(i) ==
    /\ Turn(i, "StartClashProcess") /\ First(i)
    /\ child # "none"
    /\ Answer(i, FALSE)
    /\ UNCHANGED <<child, served, hung, seen>>

Spawn(i) ==
    /\ Turn(i, "StartClashProcess") /\ First(i)
    /\ child = "none"
    /\ child' = "alive"
    /\ Answer(i, TRUE)
    /\ UNCHANGED <<served, hung, seen>>

SpawnFails(i) ==
    /\ Turn(i, "StartClashProcess") /\ First(i)
    /\ child = "none"
    /\ Answer(i, FALSE)
    /\ UNCHANGED <<child, served, hung, seen>>

\* StopClashProcess first has all streams closed, which waits for the lock behind a
\* handshake (WsStreams).
Cleans(i) ==
    /\ Turn(i, "StopClashProcess") /\ First(i)
    /\ requests' = [requests EXCEPT ![i].phase = "cleans"]
    /\ UNCHANGED <<mail, child, served, hung, seen>>

Cleaned(i) == child # "leaving" /\ requests[i].phase = "cleans" /\ ~hung

\* Then it takes the child out, and on Unix waits for its end without limit.
Signal(i) ==
    /\ Cleaned(i)
    /\ child = "alive"
    /\ child' = "leaving"
    /\ requests' = [requests EXCEPT ![i].phase = "runs"]
    /\ UNCHANGED <<mail, served, hung, seen>>

Reaped(i) ==
    /\ child = "leaving" /\ ~hung
    /\ requests[i].phase = "runs"
    /\ child' = "none"
    /\ Answer(i, TRUE)
    /\ UNCHANGED <<served, hung, seen>>

\* There is no child, or wait returns at once.
NothingRuns(i) ==
    /\ Cleaned(i)
    /\ child \in {"none", "dead"}
    /\ child' = "none"
    /\ Answer(i, TRUE)
    /\ UNCHANGED <<served, hung, seen>>

\* A core leaves a handshake without an answer, or does not heed SIGTERM.
Hangs ==
    /\ ~hung
    /\ \E i \in DOMAIN requests :
          \/ requests[i].phase = "cleans" /\ ApiUp
          \/ requests[i].phase = "runs"
    /\ hung' = TRUE
    /\ UNCHANGED <<requests, mail, child, served, seen>>

-----------------------------------------------------------------------------
(***************************************************************************)
(* Each request to the service is a task of its own.  The service may do   *)
(* what it is asked and its answer be lost, or not do it.                  *)
(***************************************************************************)
Executes(i) ==
    \E kind \in ToService :
       /\ Turn(i, kind)
       /\ served' = (kind = "StartClash")
       /\ hung' = FALSE
       /\ requests' = [requests EXCEPT ![i].phase = "done"]
       /\ UNCHANGED <<mail, child, seen>>

Fails(i) ==
    \E kind \in ToService :
       /\ Turn(i, kind)
       /\ served' \in {served, FALSE, kind = "StartClash"}
       /\ hung' = (hung /\ served')
       /\ requests' = [requests EXCEPT ![i].phase = "failed"]
       /\ UNCHANGED <<mail, child, seen>>

Reports(i) ==
    /\ child # "leaving"
    /\ requests[i].phase \in {"done", "failed"}
    /\ Answer(i, requests[i].phase = "done")
    /\ UNCHANGED <<child, served, hung, seen>>

\* A core ends by itself, the service stops it for want of heartbeats, or somebody
\* kills it.
CoreDies ==
    /\ seen' = seen \cup {"died"}
    /\ \/ child = "alive" /\ child' = "dead" /\ UNCHANGED served
       \/ child = "leaving" /\ hung /\ UNCHANGED <<child, served>>
       \/ served /\ served' = FALSE /\ UNCHANGED child
    /\ hung' = FALSE
    /\ UNCHANGED <<requests, mail>>

\* An uninstallation of the service tells the application that the core has stopped, in
\* a result as any other, though it may have stopped none (else CoreDies came before).
\* There is one uninstallation.
UninstallTells ==
    /\ child # "leaving"
    /\ "told" \notin seen
    /\ mail' = Append(mail, [by |-> NoCall, ok |-> TRUE])
    /\ seen' = seen \cup {"told"}
    /\ UNCHANGED <<requests, child, served, hung>>

HubStep ==
    \/ /\ \E i \in DOMAIN requests :
             \/ Refuse(i) \/ Spawn(i)
             \/ Cleans(i) \/ Signal(i) \/ Reaped(i) \/ NothingRuns(i)
             \/ Executes(i) \/ Reports(i)
       /\ UNCHANGED faults
    \/ (\E i \in DOMAIN requests : SpawnFails(i) \/ Fails(i)) /\ Fault
=============================================================================
