------------------------------ MODULE Lifecycle ------------------------------
(***************************************************************************)
(* The life cycle of the core in the application                           *)
(* (lib/clash/manager/lifecycle_manager.dart): start with its two          *)
(* fallbacks, which call startCore again from inside startCore, and stop,  *)
(* by calls that may overlap, in a program of one thread that leaves a     *)
(* call at each await.                                                     *)
(***************************************************************************)
EXTENDS CoreProcesses

VARIABLES
    installed,     \* service mode is installed
    coreState,
    startMode,     \* _currentStartMode
    fallbackRetry, \* _isFallbackRetry
    heartbeat,     \* _serviceHeartbeatTimer is set
    call           \* per call: where it waits, and what it was asked

stateVars == <<coreState, startMode, fallbackRetry, heartbeat>>
lifecycleVars == <<processVars, faults, stateVars, installed, call>>

\* Where a call awaits a result, and with which limit.
Limited == {"service", "stopService"}
Waiting == Limited \cup {"launch", "undo", "stopSidecar"}
Places == Waiting \cup {"idle", "configure", "ready", "init", "validate", "pause", "returned", "ended"}

CallRecord ==
    [kind: {"start", "stop"}, at: Places,
     attempt: {"none", "first", "plain", "default"}, \* the startCore it is in
     overrides: BOOLEAN, config: BOOLEAN,            \* what the first one was given
     answer: {"none", "ok", "bad", "late"},          \* the result it awaits
     api: {"none", "ok", "bad"},                     \* the polling beside it
     ok: BOOLEAN,                                    \* what it has returned
     alone: BOOLEAN]                                 \* refused at once, or no call was under way

LifecycleTypeOK ==
    /\ ProcessesTypeOK
    /\ installed \in BOOLEAN
    /\ coreState \in {"stopped", "starting", "running", "stopping"}
    /\ startMode \in {"none", "service", "sidecar"}
    /\ fallbackRetry \in BOOLEAN
    /\ heartbeat \in BOOLEAN
    /\ call \in [Calls -> CallRecord]

\* Before any call, or after calls of before that ended well.
LifecycleInit ==
    /\ installed \in BOOLEAN
    /\ coreState \in {"stopped", "running"}
    /\ startMode = IF coreState = "stopped" THEN "none" ELSE IF installed THEN "service" ELSE "sidecar"
    /\ heartbeat = (startMode = "service")
    /\ child = IF startMode = "sidecar" THEN "alive" ELSE "none"
    /\ served = (startMode = "service")
    /\ fallbackRetry = FALSE /\ hung = FALSE
    /\ requests = <<>> /\ mail = <<>> /\ faults = 0 /\ seen = {}
    /\ call = [c \in Calls |-> [kind |-> "start", at |-> "idle", attempt |-> "none", overrides |-> FALSE,
                                config |-> FALSE, answer |-> "none", api |-> "none", ok |-> FALSE, alone |-> TRUE]]

Active(c) == call[c].at \notin {"idle", "ended"}

\* A launch that does not wait for the process once the polling has failed.
MutantEager(c) ==
    LET r == call[c] IN
    \/ r.at = "returned"
    \/ r.at \in Waiting /\ r.answer # "none" /\ (r.at = "launch" => r.api # "none")
    \/ r.at = "launch" /\ r.api = "bad"

\* Something that was awaited is there: its continuation runs before any other event.
Due(c) ==
    LET r == call[c] IN
    \/ r.at = "returned"
    \/ r.at \in Waiting \ {"launch"} /\ r.answer # "none"
    \/ r.at = "launch" /\ r.answer # "none" /\ r.api # "none"

AtEvent == \A c \in Calls : ~Due(c)

\* What c does next, in a record that forgets what it has awaited.
Goes(c, at) == [call[c] EXCEPT !.at = at, !.answer = "none", !.api = "none", !.ok = FALSE]
Over(r, ok) == [r EXCEPT !.at = "ended", !.ok = ok, !.attempt = "none", !.overrides = FALSE, !.config = FALSE]
Becomes(c, r) == call' = [call EXCEPT ![c] = r]

Send(c, kind) ==
    /\ requests' = Append(requests, [by |-> c, kind |-> kind, phase |-> "sent"])
    /\ UNCHANGED <<mail, child, served, hung, seen>>

\* What is on its way to c is no longer c's: c has been answered otherwise.
Disown(C, s) == [i \in DOMAIN s |-> IF s[i].by \in C THEN [s[i] EXCEPT !.by = NoCall] ELSE s[i]]

-----------------------------------------------------------------------------
(***************************************************************************)
(* The ways out of startCore and into the next attempt.                    *)
(***************************************************************************)
\* A startCore returns: to whoever made the call, or into the startCore around it.
Left(r, ok) == IF r.attempt = "first" THEN Over(r, ok) ELSE [r EXCEPT !.at = "returned", !.ok = ok]

\* startCore up to its first await; a stop under way does not keep it out.
Enter(c, r) ==
    /\ UNCHANGED <<processVars, startMode, fallbackRetry, heartbeat>>
    /\ \/ /\ coreState \in {"starting", "running"}
          /\ Becomes(c, Left(r, coreState = "running"))
          /\ UNCHANGED coreState
       \/ /\ coreState \in {"stopped", "stopping"}
          /\ coreState' = "starting"
          /\ Becomes(c, [r EXCEPT !.at = "configure"])

\* stopCore of a running core, up to its await.
BeginStop(c, r) ==
    /\ coreState' = "stopping"
    /\ IF startMode = "service"
       THEN heartbeat' = FALSE /\ Send(c, "StopClash") /\ Becomes(c, [r EXCEPT !.at = "stopService"])
       ELSE Send(c, "StopClashProcess") /\ Becomes(c, [r EXCEPT !.at = "stopSidecar"]) /\ UNCHANGED heartbeat
    /\ UNCHANGED startMode

\* A startCore that leaves the state as it is.
MutantNoFinally(c, ok) ==
    /\ Becomes(c, Left(Goes(c, "returned"), ok))
    /\ UNCHANGED <<processVars, coreState, startMode, heartbeat>>

\* The finally of startCore.
GivesBack(c, ok) ==
    /\ coreState' = IF coreState = "starting" THEN "stopped" ELSE coreState
    /\ Becomes(c, Left(Goes(c, "returned"), ok))
    /\ UNCHANGED <<processVars, startMode, heartbeat>>

\* A fallback: stop what runs, wait, and try again.
FallBack(c, attempt) ==
    LET r == [Goes(c, "pause") EXCEPT !.attempt = attempt, !.overrides = FALSE,
                                      !.config = call[c].config /\ attempt = "plain"] IN
    /\ fallbackRetry' = TRUE
    /\ IF coreState = "running" THEN BeginStop(c, r)
       ELSE /\ coreState' = IF attempt = "default" THEN "stopped" ELSE coreState
            /\ Becomes(c, r)
            /\ UNCHANGED <<processVars, startMode, heartbeat>>

MayFallBack(c) == call[c].attempt = "first" /\ ~fallbackRetry

\* The end of an attempt that went well or did not.
Decide(c, ok) ==
    \/ ~ok /\ MayFallBack(c) /\ call[c].overrides /\ FallBack(c, "plain")
    \/ ~ok /\ MayFallBack(c) /\ ~call[c].overrides /\ call[c].config /\ FallBack(c, "default")
    \/ /\ ok \/ ~MayFallBack(c) \/ ~(call[c].overrides \/ call[c].config)
       /\ GivesBack(c, ok)
       /\ UNCHANGED fallbackRetry

-----------------------------------------------------------------------------
(***************************************************************************)
(* A call begins.                                                          *)
(***************************************************************************)
Refused(kind) == IF kind = "start" THEN coreState \in {"starting", "running"} ELSE coreState # "running"
Begun(c, kind) ==
    [Goes(c, "idle") EXCEPT !.kind = kind, !.alone = Refused(kind) \/ \A d \in Calls : ~Active(d)]

BeginStart(c) ==
    /\ AtEvent
    /\ call[c].at = "idle"
    /\ \E overrides, config \in BOOLEAN :
          Enter(c, [Begun(c, "start") EXCEPT !.attempt = "first", !.overrides = overrides, !.config = config])

\* While the core starts, stopCore returns at once and leaves the start alone.
BeginStopCore(c) ==
    /\ AtEvent
    /\ call[c].at = "idle"
    /\ UNCHANGED fallbackRetry
    /\ \/ coreState = "running" /\ BeginStop(c, Begun(c, "stop"))
       \/ /\ coreState # "running"
          /\ Becomes(c, Over(Begun(c, "stop"), coreState # "stopping"))
          /\ UNCHANGED <<processVars, coreState, startMode, heartbeat>>

-----------------------------------------------------------------------------
(***************************************************************************)
(* One attempt to start.                                                   *)
(***************************************************************************)
\* The configuration is written and the core asked for.
Configured(c) ==
    /\ AtEvent
    /\ call[c].at = "configure"
    /\ IF installed THEN Send(c, "StartClash") /\ Becomes(c, Goes(c, "service"))
       ELSE Send(c, "StartClashProcess") /\ Becomes(c, Goes(c, "launch"))
    /\ UNCHANGED stateVars

\* It cannot be written: an exception, after which the overrides are not tried first.
ConfigureFails(c) ==
    /\ AtEvent
    /\ call[c].at = "configure"
    /\ \/ MayFallBack(c) /\ call[c].config /\ FallBack(c, "default")
       \/ /\ ~(MayFallBack(c) /\ call[c].config)
          /\ coreState' = "stopped"
          /\ Becomes(c, Left(Goes(c, "returned"), FALSE))
          /\ UNCHANGED <<processVars, startMode, fallbackRetry, heartbeat>>

\* A result is taken by everyone who waits for one.
Deliver ==
    LET takers == {c \in Calls : call[c].at \in Waiting /\ call[c].answer = "none"}
        others == takers \ {Head(mail).by} IN
    /\ AtEvent
    /\ mail # <<>>
    /\ call' = [c \in Calls |-> IF c \in takers THEN [call[c] EXCEPT !.answer = IF Head(mail).ok THEN "ok" ELSE "bad"]
                                ELSE call[c]]
    /\ mail' = Disown(others, Tail(mail))
    /\ requests' = Disown(others, requests)
    /\ seen' = IF others # {} THEN seen \cup {"foreign"} ELSE seen
    /\ UNCHANGED <<child, served, hung, stateVars>>

\* 30 s for a start, 10 s for a stop, in service mode only.
LimitPasses(c) ==
    /\ AtEvent
    /\ call[c].at \in Limited
    /\ Becomes(c, [call[c] EXCEPT !.answer = "late"])
    /\ mail' = Disown({c}, mail)
    /\ requests' = Disown({c}, requests)
    /\ seen' = seen \cup {"late"}
    /\ UNCHANGED <<child, served, hung, stateVars>>

\* A start by the service goes on whatever the service has answered.
MutantAnyAnswer(c) ==
    /\ call[c].at = "service" /\ Due(c)
    /\ startMode' = "service" /\ Becomes(c, Goes(c, "init"))
    /\ UNCHANGED <<processVars, coreState, fallbackRetry, heartbeat>>

ServiceAnswered(c) ==
    /\ call[c].at = "service" /\ Due(c)
    /\ \/ /\ call[c].answer = "ok"
          /\ startMode' = "service" /\ Becomes(c, Goes(c, "ready"))
          /\ UNCHANGED <<processVars, coreState, fallbackRetry, heartbeat>>
       \/ call[c].answer # "ok" /\ Decide(c, FALSE)

\* waitForReady of a core in the service; its failure leaves that core alone.
Ready(c) ==
    /\ AtEvent
    /\ call[c].at = "ready"
    /\ ApiUp
    /\ Becomes(c, Goes(c, "init"))
    /\ UNCHANGED <<processVars, stateVars>>

NotReady(c) == AtEvent /\ call[c].at = "ready" /\ Decide(c, FALSE)

\* Without the service the API is polled while the process starts.
Polled(c, api) ==
    /\ AtEvent
    /\ call[c].at = "launch" /\ call[c].api = "none"
    /\ api = "ok" => ApiUp
    /\ Becomes(c, [call[c] EXCEPT !.api = api])
    /\ UNCHANGED <<processVars, stateVars>>

\* A failed launch that leaves the process to itself.
MutantNoUndo(c) ==
    /\ call[c].at = "launch" /\ Due(c)
    /\ IF call[c].answer = "ok" /\ call[c].api = "ok"
       THEN startMode' = "sidecar" /\ Becomes(c, Goes(c, "init"))
            /\ UNCHANGED <<processVars, coreState, fallbackRetry, heartbeat>>
       ELSE Decide(c, FALSE)

Launched(c) ==
    /\ call[c].at = "launch" /\ Due(c)
    /\ IF call[c].answer = "ok" /\ call[c].api = "ok"
       THEN startMode' = "sidecar" /\ Becomes(c, Goes(c, "init")) /\ UNCHANGED processVars
       ELSE Send(c, "StopClashProcess") /\ Becomes(c, Goes(c, "undo")) /\ UNCHANGED startMode
    /\ UNCHANGED <<coreState, fallbackRetry, heartbeat>>

Undone(c) == call[c].at = "undo" /\ Due(c) /\ Decide(c, FALSE)

\* The core runs, but nobody tells the service that the application does.
MutantNoHeartbeat(c) ==
    /\ AtEvent
    /\ call[c].at = "init"
    /\ coreState' = "running"
    /\ heartbeat' = (heartbeat \/ (startMode = "service" /\ call[c].attempt = "first"))
    /\ Becomes(c, Goes(c, "validate"))
    /\ UNCHANGED <<processVars, startMode, fallbackRetry>>

\* _initializeAfterStart: the version may stay unknown.
Initialised(c) ==
    /\ AtEvent
    /\ call[c].at = "init"
    /\ coreState' = "running"
    /\ heartbeat' = (heartbeat \/ startMode = "service")
    /\ Becomes(c, Goes(c, "validate"))
    /\ UNCHANGED <<processVars, startMode, fallbackRetry>>

Validated(c) == AtEvent /\ call[c].at = "validate" /\ ApiUp /\ Decide(c, TRUE)

\* A configuration that is not valid always fails the start.
MutantNeverValid(c) == AtEvent /\ call[c].at = "validate" /\ Decide(c, FALSE)

\* A configuration that is not valid counts only if overrides may be its cause.
NotValid(c) ==
    /\ AtEvent
    /\ call[c].at = "validate"
    /\ Decide(c, ~(MayFallBack(c) /\ call[c].overrides))

-----------------------------------------------------------------------------
(***************************************************************************)
(* The end of a stop, and what follows it in its call.                     *)
(***************************************************************************)
\* A service that does not answer: the child of the hub is stopped instead.
StopLate(c) ==
    /\ call[c].at = "stopService" /\ call[c].answer = "late"
    /\ Send(c, "StopClashProcess")
    /\ Becomes(c, Goes(c, "stopSidecar"))
    /\ UNCHANGED stateVars

\* Whatever the result says, the core counts as stopped.
StopOver(c) ==
    /\ call[c].at \in {"stopService", "stopSidecar"} /\ Due(c)
    /\ call[c].answer # "late"
    /\ coreState' = "stopped"
    /\ startMode' = "none"
    /\ Becomes(c, IF call[c].kind = "stop" THEN Over(Goes(c, "ended"), TRUE) ELSE Goes(c, "pause"))
    /\ UNCHANGED <<processVars, fallbackRetry, heartbeat>>

\* The retry without overrides resets the state whatever it has become meanwhile;
\* the one with the default configuration passes startCore's guards.
PauseOver(c) ==
    /\ AtEvent
    /\ call[c].at = "pause"
    /\ \/ /\ call[c].attempt = "plain"
          /\ coreState' = "starting"
          /\ Becomes(c, Goes(c, "configure"))
          /\ UNCHANGED <<processVars, startMode, fallbackRetry, heartbeat>>
       \/ call[c].attempt = "default" /\ Enter(c, Goes(c, "configure"))

\* The inner startCore has returned into the outer one.
Returned(c) ==
    LET r == call[c] IN
    /\ r.at = "returned"
    /\ \/ r.attempt = "plain" /\ ~r.ok /\ r.config /\ FallBack(c, "default")
       \/ /\ r.attempt = "default" \/ r.ok \/ ~r.config
          /\ fallbackRetry' = FALSE
          /\ coreState' = IF coreState = "starting" THEN "stopped" ELSE coreState
          /\ Becomes(c, Over(Goes(c, "ended"), r.ok))
          /\ UNCHANGED <<processVars, startMode, heartbeat>>

-----------------------------------------------------------------------------
GoesOn(c) ==
    \/ Configured(c) \/ ServiceAnswered(c) \/ Ready(c) \/ Polled(c, "ok") \/ Launched(c)
    \/ Undone(c) \/ Initialised(c) \/ Validated(c)
    \/ StopLate(c) \/ StopOver(c) \/ PauseOver(c) \/ Returned(c)

\* What may fail although the core answers counts as a failure.
Continues(c) ==
    /\ UNCHANGED installed
    /\ \/ GoesOn(c) /\ UNCHANGED faults
       \/ (ConfigureFails(c) \/ LimitPasses(c)) /\ Fault
       \/ /\ NotReady(c) \/ Polled(c, "bad") \/ NotValid(c)
          /\ IF ApiUp THEN Fault ELSE UNCHANGED faults

Hub ==
    /\ HubStep \/ ((CoreDies \/ Hangs \/ (installed /\ UninstallTells)) /\ Fault)
    /\ UNCHANGED <<stateVars, installed, call>>
HubGoesOn == HubStep /\ UNCHANGED <<stateVars, installed, call>>
Delivers == Deliver /\ UNCHANGED <<faults, installed>>

LifecycleNext ==
    \/ \E c \in Calls : Continues(c)
    \/ \E c \in Calls : (BeginStart(c) \/ BeginStopCore(c)) /\ UNCHANGED <<faults, installed>>
    \/ Delivers
    \/ Hub

\* Timers fire and awaited futures complete, results are delivered, the hub goes on
\* with what it has, and what a stop of the hub waits for comes unless the core hangs:
\* one of them, while there is one.
Progress == Delivers \/ HubGoesOn \/ \E c \in Calls : Continues(c)

LifecycleSpec == LifecycleInit /\ [][LifecycleNext]_lifecycleVars /\ WF_lifecycleVars(Progress)

-----------------------------------------------------------------------------
Quiet == \A c \in Calls : ~Active(c)

\* A call was taken up beside another one: a start while a stop or the pause of a
\* fallback was under way, or a stop of a core that a start had yet to validate.
Overlapped == \E c \in Calls : ~call[c].alone

\* A state that must pass belongs to a call that is under way, even when calls
\* overlap: the application never stays starting, stopping or in a fallback.
TransientOwned ==
    /\ coreState = "starting" => \E c \in Calls : Active(c) /\ call[c].attempt # "none"
    /\ coreState = "stopping" => \E c \in Calls : call[c].at \in {"stopService", "stopSidecar"}
    /\ fallbackRetry => \E c \in Calls : Active(c) /\ call[c].attempt \in {"plain", "default"}

\* Results do not say whose they are: a call takes one that is not its own only when a call was
\* taken up beside another one, an earlier wait was given up or the service was uninstalled, never
\* after a failed attempt, a fallback or a stop that followed it in order.
OwnResult == "foreign" \in seen => Overlapped \/ "late" \in seen \/ "told" \in seen

\* The application says "running" only of a core there is, unless a call was taken up beside
\* another one, a request was given up that the service executed later, the service was
\* uninstalled, or a core died.
RunningHasCore ==
    coreState = "running" /\ ~Overlapped /\ seen \cap {"late", "told", "died"} = {}
    => \/ startMode = "service" /\ served
       \/ startMode = "sidecar" /\ child = "alive"

\* When all is quiet and the application says "stopped", no child of the hub runs: a failed
\* start takes its process back and a stop waits for its end, also beside calls that were
\* refused.  It is so unless a call was taken up beside another one: startCore lets a start in
\* while a stop is under way (lifecycle_manager.dart:141), which then says "stopped" of the new child.
StoppedHasNoChild ==
    Quiet /\ coreState = "stopped" /\ ~Overlapped
    => child # "alive"

\* The service is told that the application lives while it has the core that the
\* application runs and at no other time, as long as no call was taken up beside another one.
HeartbeatWhileServing ==
    ~Overlapped => (heartbeat <=> coreState = "running" /\ startMode = "service")

\* What a call that was taken up returns is what the application then shows, after all
\* fallbacks and whichever results it was given, if none was taken up beside another one.
ResultIsState ==
    [][\A c \in Calls :
          Active(c) /\ call'[c].at = "ended" /\ ~Overlapped' =>
          \/ call'[c].kind = "stop" /\ call'[c].ok /\ coreState' = "stopped"
          \/ call'[c].kind # "stop" /\ coreState' = IF call'[c].ok THEN "running" ELSE "stopped"]_lifecycleVars

\* A stop of the hub waits for what the core does not do.
StopHangs == hung /\ \E i \in DOMAIN requests : requests[i].phase \in {"cleans", "runs"}

\* Every call ends, though most of its waits have no limit, except one that waits for a
\* result for ever behind a stop that hangs.
CallsEndUnlessHung ==
    \A c \in Calls :
       <>[](StopHangs /\ call[c].at \in Waiting) \/ (Active(c) ~> call[c].at = "ended")
=============================================================================
