----------------------------- MODULE DelayTests -----------------------------
(***************************************************************************)
(* Batch delay tests: the provider that shows them (clash_provider.dart),  *)
(* the service class that waits for one batch (delay_test_service.dart)    *)
(* and the sessions of the hub that run them (delay_testing/tester.rs).    *)
(*                                                                         *)
(* The application and the hub are two single-threaded event loops that    *)
(* exchange signals.  An action is what one of them does between two       *)
(* awaits that really wait; the provider's awaits of a subscription's      *)
(* cancel() are over before its next event.  Signals of different types    *)
(* may overtake each other on the way to the hub, a batch's answers arrive *)
(* in order.                                                               *)
(***************************************************************************)
EXTENDS Naturals, Sequences, FiniteSets

CONSTANTS
    Batches,      \* the request ids of the batches that are ever tested
    NodeCount,    \* how many nodes a batch tests
    Concurrency,  \* how many of them at a time
    None

ASSUME DelayAssumption ==
    /\ None \notin Batches
    /\ NodeCount \in Nat \ {0}
    /\ Concurrency \in Nat \ {0}

Nodes == 1..NodeCount

VARIABLES
    isBatchTesting,  \* _isBatchTestingDelay: the test button is disabled
    active,          \* _activeBatchDelayTestRequestId
    testingNodes,    \* _testingNodes: the nodes shown as being tested
    subscriber,      \* the batch the provider's two subscriptions belong to
    call,            \* per batch: its style and the state of the Dart call
    inbox,           \* BatchDelayTestRequest signals on their way to the hub
    cancelBox,       \* CancelDelayTestsRequest signals on their way to the hub
    answers,         \* per batch: progress and completion on their way back
    sessions,        \* DELAY_TEST_SESSIONS: the registered request ids
    cancelled,       \* the sessions whose cancel flag is set
    batch,           \* per batch: the state of its handler in the hub
    \* History variables, which only SecondOnlyAfterLateEnd looks at.
    displaced,       \* the batches taken off show whose calls still wait
    lateEnds         \* those whose calls have ended while the active batch was on show

past == <<displaced, lateEnds>>
dartVars == <<isBatchTesting, active, testingNodes, subscriber, call, past>>
hubVars == <<sessions, cancelled, batch>>
vars == <<dartVars, inbox, cancelBox, answers, hubVars>>

-----------------------------------------------------------------------------
Styles == {"group", "all"}

\* A progress answer names its node, a completion how the batch ended.
ProgressOf(n) == [kind |-> "progress", node |-> n]
CompletionAs(how) == [kind |-> how]
Answers == {ProgressOf(n) : n \in Nodes} \cup {CompletionAs("done"), CompletionAs("cancelled")}

Progresses(answer) == answer.kind = "progress"

DelayTypeOK ==
    /\ isBatchTesting \in BOOLEAN
    /\ active \in Batches \cup {None}
    /\ testingNodes \subseteq Nodes
    /\ subscriber \in Batches \cup {None}
    /\ call \in [Batches -> [style: Styles, st: {"idle", "waiting", "over"}]]
    /\ inbox \subseteq Batches
    /\ cancelBox \subseteq Batches
    /\ answers \in [Batches -> Seq(Answers)]
    /\ sessions \subseteq Batches
    /\ cancelled \subseteq Batches
    /\ batch \in [Batches -> [st: {"none", "running", "ended"}, started: 0..NodeCount,
                              running: SUBSET Nodes,
                              finished: SUBSET (Nodes \X {"completed", "cancelled"})]]
    /\ displaced \subseteq Batches
    /\ lateEnds \subseteq Batches

DelayInit ==
    /\ isBatchTesting = FALSE
    /\ active = None
    /\ testingNodes = {}
    /\ subscriber = None
    /\ call = [b \in Batches |-> [style |-> "group", st |-> "idle"]]
    /\ inbox = {}
    /\ cancelBox = {}
    /\ answers = [b \in Batches |-> <<>>]
    /\ sessions = {}
    /\ cancelled = {}
    /\ batch = [b \in Batches |-> [st |-> "none", started |-> 0, running |-> {}, finished |-> {}]]
    /\ displaced = {}
    /\ lateEnds = {}

-----------------------------------------------------------------------------
(***************************************************************************)
(* The provider.  testGroupDelays listens through subscriptions of its     *)
(* own, testAllProxiesDelays through two fields of the provider.           *)
(***************************************************************************)
\* History: the batch on show, if there is one, gives way to another or to none.
OffShow ==
    /\ displaced' = displaced \cup ({active} \ {None})
    /\ lateEnds' = {}

\* A button that can be pressed while a batch is tested.
MutantAlwaysEnabled(b, style) ==
    /\ call[b].st = "idle"
    /\ isBatchTesting' = TRUE
    /\ testingNodes' = Nodes
    /\ active' = b
    /\ call' = [call EXCEPT ![b] = [style |-> style, st |-> "waiting"]]
    /\ subscriber' = IF style = "all" THEN b ELSE subscriber
    /\ inbox' = inbox \cup {b}
    /\ OffShow
    /\ UNCHANGED <<cancelBox, answers, hubVars>>

Begin(b, style) ==
    /\ ~isBatchTesting
    /\ call[b].st = "idle"
    /\ isBatchTesting' = TRUE
    /\ testingNodes' = Nodes
    /\ active' = b
    /\ call' = [call EXCEPT ![b] = [style |-> style, st |-> "waiting"]]
    /\ subscriber' = IF style = "all" THEN b ELSE subscriber
    /\ inbox' = inbox \cup {b}
    /\ OffShow
    /\ UNCHANGED <<cancelBox, answers, hubVars>>

EndedCall == [style |-> "group", st |-> "over"]

\* A call that ends, whatever it ended with, closes its subscriptions (a call of
\* the "all" style those in the provider's fields) and resets the provider.
Finally(b) ==
    /\ call' = [call EXCEPT ![b] = EndedCall]
    /\ subscriber' = IF call[b].style = "all" THEN None ELSE subscriber
    /\ active' = IF active = b THEN None ELSE active
    /\ testingNodes' = {}
    /\ isBatchTesting' = FALSE
    /\ displaced' = displaced \ {b}
    /\ lateEnds' = IF active \in {b, None} THEN {} ELSE lateEnds \cup (displaced \cap {b})

\* A call of the "all" style hears nothing once its subscriptions are closed or
\* its request is no longer the active one.
Hears(b) ==
    /\ call[b].st = "waiting"
    /\ call[b].style = "all" => subscriber = b /\ active = b

ReceiveProgress(b) ==
    /\ answers[b] # <<>>
    /\ Progresses(Head(answers[b]))
    /\ answers' = [answers EXCEPT ![b] = Tail(@)]
    /\ testingNodes' = IF Hears(b) /\ active = b
                       THEN testingNodes \ {Head(answers[b]).node}
                       ELSE testingNodes
    /\ UNCHANGED <<isBatchTesting, active, subscriber, call, past, inbox, cancelBox, hubVars>>

ReceiveComplete(b) ==
    /\ answers[b] # <<>>
    /\ ~Progresses(Head(answers[b]))
    /\ answers' = [answers EXCEPT ![b] = Tail(@)]
    /\ IF Hears(b) THEN Finally(b) ELSE UNCHANGED dartVars
    /\ UNCHANGED <<inbox, cancelBox, hubVars>>

\* A call of the "all" style waits without a limit.
MutantWaitForever(b) ==
    /\ call[b] = [style |-> "group", st |-> "waiting"]
    /\ batch[b].st = "ended" /\ answers[b] = <<>>
    /\ Finally(b)
    /\ UNCHANGED <<inbox, cancelBox, answers, hubVars>>

\* The provider waits longer than all tests of a batch one after the other, so
\* only for a batch whose completion it has missed.
WaitTimesOut(b) ==
    /\ call[b].st = "waiting"
    /\ batch[b].st = "ended" /\ answers[b] = <<>>
    /\ Finally(b)
    /\ UNCHANGED <<inbox, cancelBox, answers, hubVars>>

\* cancelAllDelayTests: a new subscription, a reloaded configuration.
CancelAll ==
    /\ active' = None
    /\ cancelBox' = IF active = None THEN cancelBox ELSE cancelBox \cup {active}
    /\ subscriber' = None
    /\ testingNodes' = {}
    /\ isBatchTesting' = FALSE
    /\ OffShow
    /\ UNCHANGED <<call, inbox, answers, hubVars>>

-----------------------------------------------------------------------------
(***************************************************************************)
(* The hub.                                                                *)
(***************************************************************************)
Pending(s) == Cardinality(s.running) + Cardinality(s.finished)

\* The loop of batch_test_delays fills the window unless the batch is cancelled.
Refill(s) ==
    LET room  == IF Pending(s) < Concurrency THEN Concurrency - Pending(s) ELSE 0
        left  == NodeCount - s.started
        n     == IF left < room THEN left ELSE room
    IN [s EXCEPT !.started = @ + n,
                 !.running = @ \cup (s.started + 1)..(s.started + n)]

HandleStart(b) ==
    /\ b \in inbox
    /\ inbox' = inbox \ {b}
    /\ sessions' = sessions \cup {b}
    /\ batch' = [batch EXCEPT ![b] = Refill([@ EXCEPT !.st = "running"])]
    /\ UNCHANGED <<dartVars, cancelBox, answers, cancelled>>

\* A cancel for a request that is not registered is forgotten.
HandleCancel(b) ==
    /\ b \in cancelBox
    /\ cancelBox' = cancelBox \ {b}
    /\ cancelled' = IF b \in sessions THEN cancelled \cup {b} ELSE cancelled
    /\ UNCHANGED <<dartVars, inbox, answers, sessions, batch>>

\* A node's task ends: with an answer or its timeout, or cancelled, for which it
\* looks first.
NodeEnds(b, n) ==
    /\ n \in batch[b].running
    /\ batch' = [batch EXCEPT
         ![b].running = @ \ {n},
         ![b].finished = @ \cup {<<n, IF b \in cancelled THEN "cancelled" ELSE "completed">>}]
    /\ UNCHANGED <<dartVars, inbox, cancelBox, answers, sessions, cancelled>>

Joined(b, n, outcome) ==
    LET rest == [batch[b] EXCEPT !.finished = @ \ {<<n, outcome>>}]
    IN IF b \in cancelled THEN rest ELSE Refill(rest)

\* Reports a node that had its answer before the cancel.
MutantProgressAfterCancel(b, n, outcome) ==
    IF outcome = "completed" THEN <<ProgressOf(n)>> ELSE <<>>

Progress(b, n, outcome) ==
    IF outcome = "completed" /\ b \notin cancelled THEN <<ProgressOf(n)>> ELSE <<>>

\* A loop that ends with the first outcome that finds no node left to start.
MutantJoinEndsEarly(b, n, outcome) ==
    /\ <<n, outcome>> \in batch[b].finished
    /\ LET s == Joined(b, n, outcome)
           over == s.started = NodeCount
           completion == CompletionAs(IF b \in cancelled THEN "cancelled" ELSE "done")
       IN /\ batch' = [batch EXCEPT ![b] = IF over THEN [s EXCEPT !.st = "ended"] ELSE s]
          /\ answers' = [answers EXCEPT ![b] =
               @ \o Progress(b, n, outcome) \o (IF over THEN <<completion>> ELSE <<>>)]
          /\ sessions' = IF over /\ b \notin cancelled THEN sessions \ {b} ELSE sessions
    /\ UNCHANGED <<dartVars, inbox, cancelBox, cancelled>>

\* The batch loop takes one outcome and starts what fits into the window.  Without
\* anything pending it is over; only a batch that was not cancelled is taken out
\* of the sessions.
Join(b, n, outcome) ==
    /\ <<n, outcome>> \in batch[b].finished
    /\ LET s == Joined(b, n, outcome)
           over == Pending(s) = 0
           completion == CompletionAs(IF b \in cancelled THEN "cancelled" ELSE "done")
       IN /\ batch' = [batch EXCEPT ![b] = IF over THEN [s EXCEPT !.st = "ended"] ELSE s]
          /\ answers' = [answers EXCEPT ![b] =
               @ \o Progress(b, n, outcome) \o (IF over THEN <<completion>> ELSE <<>>)]
          /\ sessions' = IF over /\ b \notin cancelled THEN sessions \ {b} ELSE sessions
    /\ UNCHANGED <<dartVars, inbox, cancelBox, cancelled>>

-----------------------------------------------------------------------------
DartStep(b) ==
    \/ ReceiveProgress(b)
    \/ ReceiveComplete(b)
    \/ WaitTimesOut(b)

HubStep(b) ==
    \/ HandleStart(b)
    \/ HandleCancel(b)
    \/ \E n \in Nodes:
         \/ NodeEnds(b, n)
         \/ \E outcome \in {"completed", "cancelled"}: Join(b, n, outcome)

DelayNext ==
    \/ \E b \in Batches:
         \/ \E style \in Styles: Begin(b, style)
         \/ DartStep(b)
         \/ HubStep(b)
    \/ CancelAll

DelaySpec == DelayInit /\ [][DelayNext]_vars

\* Both event loops go on, and a node's test ends by its timeout at the latest.
\* Nobody has to test or to cancel anything.
DelayFairSpec ==
    /\ DelaySpec
    /\ WF_vars(\E b \in Batches: DartStep(b))
    /\ WF_vars(\E b \in Batches: HubStep(b))

-----------------------------------------------------------------------------
(***************************************************************************)
(* Safety.                                                                 *)
(***************************************************************************)

\* When the completion of the batch on show is the next answer, every node of it has
\* been answered and shown: the hub joins all its tasks before it completes a
\* batch, and no answer is lost or overtaken between the two sides.
NothingMissed ==
    \A b \in Batches:
      answers[b] # <<>> /\ Head(answers[b]).kind = "done" /\ Hears(b) /\ active = b
        => testingNodes = {}

\* Whatever tasks are still under way or already joined, a batch that has been
\* cancelled reports no further node, and its completion says so.
NothingAfterCancel ==
    [][\A b \in cancelled:
         \/ answers'[b] \in {answers[b], Append(answers[b], CompletionAs("cancelled"))}
         \/ answers[b] # <<>> /\ answers'[b] = Tail(answers[b])]_vars

\* The comment of batch_test_delays, a sliding window of limited concurrency
\* (tester.rs:399): unless it is cancelled a batch under way keeps as many tests
\* pending as the window holds and there are nodes for, never more.
WindowFull ==
    \A b \in Batches:
      batch[b].st = "running" =>
        /\ Pending(batch[b]) <= Concurrency
        /\ b \notin cancelled /\ batch[b].started < NodeCount
             => Pending(batch[b]) = Concurrency

\* A batch never begins while another is the active one (clash_provider.dart:1412 and
\* :1498 turn such a request down), but for one case the code leaves open: the call of a
\* batch that had been taken off show, by cancelAllDelayTests or by a batch that began so
\* itself, has ended while the present active one was on show, and reset the flag that is
\* not its own.  A call that ends in its time excuses nothing.
SecondOnlyAfterLateEnd ==
    [][\A b \in Batches:
         call[b].st = "idle" /\ call'[b].st = "waiting" =>
           active = None \/ lateEnds # {}]_vars

(***************************************************************************)
(* Liveness.                                                               *)
(***************************************************************************)

\* Every call for a batch ends, also one whose subscriptions were closed under it.
BatchesEnd ==
    \A b \in Batches: call[b].st = "waiting" ~> call[b].st = "over"

=============================================================================
