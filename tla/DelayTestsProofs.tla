-------------------------- MODULE DelayTestsProofs ---------------------------
(***************************************************************************)
(* Proofs about DelayTests, for any number of batches and nodes and any    *)
(* concurrency.                                                            *)
(***************************************************************************)
EXTENDS DelayTests, FiniteSetTheorems, SequenceTheorems, TLAPS

-----------------------------------------------------------------------------
(***************************************************************************)
(* The window of one batch.                                                *)
(***************************************************************************)
Session ==
    [st: {"none", "running", "ended"}, started: 0..NodeCount, running: SUBSET Nodes,
     finished: SUBSET (Nodes \X {"completed", "cancelled"})]

NoSession == [st |-> "none", started |-> 0, running |-> {}, finished |-> {}]

\* No node is at two places, and none that was not started is at any.
Disjoint(s) ==
    /\ IsFiniteSet(s.running) /\ IsFiniteSet(s.finished)
    /\ \A n \in s.running : n <= s.started
    /\ \A p \in s.finished : p[1] <= s.started /\ p[1] \notin s.running

\* The window is not too full, and full if it is open.
Fills(s, isOpen) ==
    /\ Pending(s) <= Concurrency
    /\ isOpen /\ s.started < NodeCount => Pending(s) = Concurrency

\* The tests that are pending are counted.
LEMMA PendingCounts ==
    ASSUME NEW s \in Session, Disjoint(s)
    PROVE  /\ Cardinality(s.running) \in Nat /\ Cardinality(s.finished) \in Nat
           /\ Pending(s) \in Nat
BY FS_CardinalityType DEF Disjoint, Pending

\* The loop fills the window as far as there are nodes, each of which it starts once.
LEMMA RefillFills ==
    ASSUME NEW s \in Session, Disjoint(s), Pending(s) <= Concurrency
    PROVE  /\ Refill(s) \in Session /\ Refill(s).st = s.st
           /\ Disjoint(Refill(s)) /\ Fills(Refill(s), TRUE)
<1> DEFINE room == IF Pending(s) < Concurrency THEN Concurrency - Pending(s) ELSE 0
           left == NodeCount - s.started
           n == IF left < room THEN left ELSE room
           new == (s.started + 1)..(s.started + n)
           t == [s EXCEPT !.started = @ + n, !.running = @ \cup new]
<1>1. Refill(s) = t
  BY DEF Refill
<1>2. s.started \in 0..NodeCount /\ s.running \subseteq Nodes /\ NodeCount \in Nat /\ Concurrency \in Nat
  BY DelayAssumption DEF Session, DelayAssumption
<1>3. Pending(s) \in Nat /\ Cardinality(s.running) \in Nat /\ Cardinality(s.finished) \in Nat
  BY PendingCounts
<1>4. n \in Nat /\ s.started + n \in 0..NodeCount
  BY <1>2, <1>3
<1>5. IsFiniteSet(new) /\ Cardinality(new) = n
  <2>1. s.started \in Nat
    BY <1>2
  <2> HIDE DEF n
  <2>2. s.started + 1 \in Int /\ s.started + n \in Int
    BY <1>4, <2>1
  <2>3. Cardinality(new) = IF s.started + 1 > s.started + n THEN 0 ELSE (s.started + n) - (s.started + 1) + 1
    BY <2>2, FS_Interval
  <2>4. IsFiniteSet(new)
    BY <2>2, FS_Interval
  <2> QED
    BY <1>4, <2>1, <2>3, <2>4
<1>6. new \subseteq Nodes /\ s.running \cap new = {}
  BY <1>2, <1>4 DEF Nodes, Disjoint
<1>7. IsFiniteSet(s.running \cup new) /\ Cardinality(s.running \cup new) = Cardinality(s.running) + n
  <2>1. IsFiniteSet(s.running)
    BY DEF Disjoint
  <2>2. /\ IsFiniteSet(s.running \cup new)
        /\ Cardinality(s.running \cup new) = Cardinality(s.running) + Cardinality(new) - Cardinality(s.running \cap new)
    BY <1>5, <2>1, FS_Union
  <2>3. Cardinality(s.running \cap new) = 0
    BY <1>6, FS_EmptySet
  <2> HIDE DEF new, n
  <2> QED
    BY <1>3, <1>4, <1>5, <2>2, <2>3
<1>8. /\ t \in Session /\ t.st = s.st /\ t.started = s.started + n
      /\ t.running = s.running \cup new /\ t.finished = s.finished
  <2> HIDE DEF n, new
  <2> QED
    BY <1>2, <1>4, <1>6 DEF Session
<1>9. Pending(t) = Pending(s) + n
  <2> HIDE DEF n, new, t
  <2> QED
    BY <1>3, <1>4, <1>7, <1>8 DEF Pending
<1>10. Disjoint(t)
  <2>1. \A k \in new : k \in Nat /\ k > s.started /\ k <= s.started + n
    BY <1>2, <1>4
  <2>2. \A k \in s.running : k \in Nat /\ k <= s.started
    BY <1>2 DEF Disjoint, Nodes
  <2>3. \A p \in s.finished : p[1] \in Nat /\ p[1] <= s.started /\ p[1] \notin s.running
    BY DEF Disjoint, Session, Nodes
  <2> HIDE DEF n, new, t
  <2> QED
    BY <1>2, <1>4, <1>7, <1>8, <2>1, <2>2, <2>3 DEF Disjoint
<1>11. Fills(t, TRUE)
  <2> HIDE DEF t
  <2> QED
    BY <1>2, <1>3, <1>8, <1>9 DEF Fills
<1> HIDE DEF t
<1> QED
  BY <1>1, <1>8, <1>10, <1>11

\* A node that ends is pending until it is joined.
LEMMA EndsPending ==
    ASSUME NEW s \in Session, Disjoint(s), NEW n \in s.running, NEW o \in {"completed", "cancelled"}
    PROVE  LET t == [s EXCEPT !.running = @ \ {n}, !.finished = @ \cup {<<n, o>>}] IN
           /\ t \in Session /\ t.st = s.st /\ t.started = s.started
           /\ Disjoint(t) /\ Pending(t) = Pending(s)
<1> DEFINE t == [s EXCEPT !.running = @ \ {n}, !.finished = @ \cup {<<n, o>>}]
<1>1. /\ t \in Session /\ t.st = s.st /\ t.started = s.started
      /\ t.running = s.running \ {n} /\ t.finished = s.finished \cup {<<n, o>>}
  <2>1. s.running \ {n} \in SUBSET Nodes
    BY DEF Session
  <2>2. s.finished \cup {<<n, o>>} \in SUBSET (Nodes \X {"completed", "cancelled"})
    BY DEF Session
  <2> QED
    BY <2>1, <2>2 DEF Session
<1>2. <<n, o>> \notin s.finished /\ IsFiniteSet(s.running) /\ IsFiniteSet(s.finished)
  BY DEF Disjoint
<1>3. IsFiniteSet(t.running) /\ Cardinality(t.running) = Cardinality(s.running) - 1
  BY <1>1, <1>2, FS_RemoveElement
<1>4. IsFiniteSet(t.finished) /\ Cardinality(t.finished) = Cardinality(s.finished) + 1
  BY <1>1, <1>2, FS_AddElement
<1>5. Pending(t) = Pending(s)
  <2> HIDE DEF t
  <2> QED
    BY <1>3, <1>4, PendingCounts DEF Pending
<1>6. Disjoint(t)
  <2> HIDE DEF t
  <2> QED
    BY <1>1, <1>3, <1>4 DEF Disjoint
<1> QED
  BY <1>1, <1>5, <1>6

\* An outcome that is joined is no longer pending.
LEMMA JoinTakes ==
    ASSUME NEW s \in Session, Disjoint(s), NEW p \in s.finished
    PROVE  LET t == [s EXCEPT !.finished = @ \ {p}] IN
           /\ t \in Session /\ t.st = s.st /\ t.started = s.started
           /\ Disjoint(t) /\ Pending(t) = Pending(s) - 1
<1> DEFINE t == [s EXCEPT !.finished = @ \ {p}]
<1>1. /\ t \in Session /\ t.st = s.st /\ t.started = s.started
      /\ t.running = s.running /\ t.finished = s.finished \ {p}
  BY DEF Session
<1>2. IsFiniteSet(t.finished) /\ Cardinality(t.finished) = Cardinality(s.finished) - 1
  BY <1>1, FS_RemoveElement DEF Disjoint
<1>3. Pending(t) = Pending(s) - 1
  <2> HIDE DEF t
  <2> QED
    BY <1>1, <1>2, PendingCounts DEF Pending
<1>4. Disjoint(t)
  <2> HIDE DEF t
  <2> QED
    BY <1>1, <1>2 DEF Disjoint
<1> QED
  BY <1>1, <1>3, <1>4

-----------------------------------------------------------------------------
(***************************************************************************)
(* The invariant.                                                          *)
(***************************************************************************)
\* A batch whose request is not made, or not handled, has no session.
Unhandled ==
    \A b \in Batches :
       /\ call[b].st = "idle" => b \notin inbox
       /\ call[b].st = "idle" \/ b \in inbox => batch[b] = NoSession

\* With a batch that is the active one and a button that is enabled, a displaced call
\* has ended beside it.  A call that goes on off show was displaced.
LateEnd ==
    /\ ~isBatchTesting /\ active # None => lateEnds # {}
    /\ \A c \in Batches : call[c].st = "waiting" => c = active \/ c \in displaced

Windows ==
    \A b \in Batches :
       /\ Disjoint(batch[b])
       /\ batch[b].st = "running" => Fills(batch[b], b \notin cancelled)
       /\ batch[b].st # "running" => batch[b].running = {} /\ batch[b].finished = {}

DelayInv == DelayTypeOK /\ Unhandled /\ LateEnd /\ Windows

\* The invariant holds at the beginning.
LEMMA InvInit == DelayInit => DelayInv
<1> SUFFICES ASSUME DelayInit PROVE DelayInv
  OBVIOUS
<1>1. DelayTypeOK
  <2>1. NoSession \in Session
    BY DelayAssumption DEF NoSession, Session, DelayAssumption
  <2>2. batch \in [Batches -> Session]
    BY <2>1 DEF DelayInit, NoSession
  <2>3. call \in [Batches -> [style: Styles, st: {"idle", "waiting", "over"}]]
    BY DEF DelayInit, Styles
  <2>4. answers \in [Batches -> Seq(Answers)]
    BY DEF DelayInit
  <2> QED
    BY <2>2, <2>3, <2>4 DEF DelayInit, DelayTypeOK, Session
<1>2. Unhandled /\ LateEnd
  BY DEF DelayInit, Unhandled, LateEnd, NoSession
<1>3. Windows
  BY FS_EmptySet DEF DelayInit, Windows, Disjoint
<1> QED
  BY <1>1, <1>2, <1>3 DEF DelayInv

\* The answers that a join sends.
LEMMA AnswersSent ==
    ASSUME NEW b \in Batches, NEW n \in Nodes, NEW o \in {"completed", "cancelled"}, NEW s \in Seq(Answers),
           NEW over \in BOOLEAN
    PROVE  s \o Progress(b, n, o)
             \o (IF over THEN <<CompletionAs(IF b \in cancelled THEN "cancelled" ELSE "done")>> ELSE <<>>) \in Seq(Answers)
<1>1. Progress(b, n, o) \in Seq(Answers)
  <2>1. ProgressOf(n) \in Answers
    BY DEF Answers
  <2> QED
    BY <2>1 DEF Progress
<1>2. (IF over THEN <<CompletionAs(IF b \in cancelled THEN "cancelled" ELSE "done")>> ELSE <<>>) \in Seq(Answers)
  <2>1. CompletionAs("cancelled") \in Answers /\ CompletionAs("done") \in Answers
    BY DEF Answers
  <2> QED
    BY <2>1
<1> QED
  BY <1>1, <1>2, ConcatProperties

\* A step of the provider: the hub's part stays.
LEMMA DartSteps ==
    ASSUME DelayInv, DelayTypeOK', Unhandled', LateEnd', UNCHANGED hubVars
    PROVE  DelayInv'
BY DEF DelayInv, Windows, hubVars

\* A step of one session.
LEMMA SessionSteps ==
    ASSUME DelayInv, NEW b \in Batches, NEW s \in Session, batch' = [batch EXCEPT ![b] = s],
           DelayTypeOK', UNCHANGED <<dartVars, cancelled>>, inbox' \subseteq inbox,
           call[b].st # "idle", b \notin inbox',
           Disjoint(s), s.st = "running" => Fills(s, b \notin cancelled),
           s.st # "running" => s.running = {} /\ s.finished = {}
    PROVE  DelayInv'
<1>1. batch'[b] = s /\ \A d \in Batches : d # b => batch'[d] = batch[d]
  BY DEF DelayInv, DelayTypeOK
<1>2. Unhandled'
  BY <1>1 DEF DelayInv, Unhandled, dartVars
<1>3. LateEnd'
  BY DEF DelayInv, LateEnd, dartVars, past
<1>4. Windows'
  BY <1>1 DEF DelayInv, Windows
<1> QED
  BY <1>2, <1>3, <1>4 DEF DelayInv

\* What a call that ends resets.
LEMMA FinallyType ==
    ASSUME DelayInv, NEW b \in Batches, call[b].st = "waiting", Finally(b), UNCHANGED <<inbox, cancelBox, hubVars>>,
           answers' \in [Batches -> Seq(Answers)]
    PROVE  DelayInv'
<1>1. call[b] \in [style: Styles, st: {"idle", "waiting", "over"}]
  BY DEF DelayInv, DelayTypeOK
<1>2. call' \in [Batches -> [style: Styles, st: {"idle", "waiting", "over"}]]
  BY <1>1 DEF Finally, EndedCall, Styles, DelayInv, DelayTypeOK
<1>3. call'[b].st = "over" /\ \A d \in Batches : d # b => call'[d] = call[d]
  BY <1>1 DEF Finally, EndedCall, DelayInv, DelayTypeOK
<1>4. DelayTypeOK'
  <2>1. lateEnds' \subseteq Batches /\ displaced' \subseteq Batches
    BY DEF Finally, DelayInv, DelayTypeOK
  <2> QED
    BY <1>2, <2>1 DEF Finally, DelayInv, DelayTypeOK, hubVars
<1>5. Unhandled'
  BY <1>3 DEF DelayInv, Unhandled, hubVars
<1>6. LateEnd'
  <2>1. active \notin {b, None} => b \in displaced
    BY DEF LateEnd, DelayInv
  <2>2. ~isBatchTesting' /\ active' # None => lateEnds' # {}
    BY <2>1 DEF Finally
  <2>3. \A c \in Batches : call'[c].st = "waiting" => c = active' \/ c \in displaced'
    BY <1>3 DEF LateEnd, Finally, DelayInv
  <2> QED
    BY <2>2, <2>3 DEF LateEnd
<1> QED
  BY <1>4, <1>5, <1>6, DartSteps

\* Every step keeps the invariant.
LEMMA InvStep == DelayInv /\ [DelayNext]_vars => DelayInv'
<1> SUFFICES ASSUME DelayInv, [DelayNext]_vars PROVE DelayInv'
  OBVIOUS
<1>1. DelayTypeOK /\ Unhandled /\ LateEnd /\ Windows
  BY DEF DelayInv
<1>2. ASSUME NEW b \in Batches, NEW style \in Styles, Begin(b, style) PROVE DelayInv'
  <2>1. [style |-> style, st |-> "waiting"] \in [style: Styles, st: {"idle", "waiting", "over"}]
    OBVIOUS
  <2>2. DelayTypeOK'
    BY <1>1, <1>2, <2>1 DEF Begin, OffShow, DelayTypeOK, hubVars
  <2>3. call'[b].st = "waiting" /\ \A d \in Batches : d # b => call'[d] = call[d]
    BY <1>1, <1>2 DEF Begin, DelayTypeOK
  <2>4. Unhandled'
    BY <1>1, <1>2, <2>3 DEF Begin, Unhandled, hubVars
  <2>5. LateEnd'
    <3>1. isBatchTesting' /\ active' = b /\ displaced' = displaced \cup ({active} \ {None})
      BY <1>2 DEF Begin, OffShow
    <3>2. \A c \in Batches : call[c].st = "waiting" => c \in displaced'
      BY <1>1, <3>1, DelayAssumption DEF LateEnd, DelayAssumption
    <3> QED
      BY <2>3, <3>1, <3>2 DEF LateEnd
  <2> QED
    BY <1>2, <2>2, <2>4, <2>5, DartSteps DEF Begin
<1>3. ASSUME NEW b \in Batches, ReceiveProgress(b) PROVE DelayInv'
  <2>1. answers' \in [Batches -> Seq(Answers)]
    <3>1. Tail(answers[b]) \in Seq(Answers)
      BY <1>1, <1>3 DEF ReceiveProgress, DelayTypeOK
    <3> QED
      BY <1>1, <1>3, <3>1 DEF ReceiveProgress, DelayTypeOK
  <2>2. testingNodes' \subseteq testingNodes /\ UNCHANGED <<isBatchTesting, active, subscriber, call, past, inbox, cancelBox, hubVars>>
    BY <1>3 DEF ReceiveProgress
  <2>3. DelayTypeOK'
    BY <1>1, <2>1, <2>2 DEF DelayTypeOK, hubVars, past
  <2>4. Unhandled' /\ LateEnd'
    BY <1>1, <2>2 DEF Unhandled, LateEnd, hubVars, past
  <2> QED
    BY <2>2, <2>3, <2>4, DartSteps
<1>4. ASSUME NEW b \in Batches, ReceiveComplete(b) PROVE DelayInv'
  <2>1. answers' \in [Batches -> Seq(Answers)]
    <3>1. Tail(answers[b]) \in Seq(Answers)
      BY <1>1, <1>4 DEF ReceiveComplete, DelayTypeOK
    <3> QED
      BY <1>1, <1>4, <3>1 DEF ReceiveComplete, DelayTypeOK
  <2>2. UNCHANGED <<inbox, cancelBox, hubVars>>
    BY <1>4 DEF ReceiveComplete
  <2>3. CASE Hears(b) /\ Finally(b)
    BY <2>1, <2>2, <2>3, FinallyType DEF Hears
  <2>4. CASE UNCHANGED dartVars
    <3>1. DelayTypeOK' /\ Unhandled' /\ LateEnd'
      BY <1>1, <2>1, <2>2, <2>4 DEF DelayTypeOK, Unhandled, LateEnd, dartVars, hubVars, past
    <3> QED
      BY <2>2, <3>1, DartSteps
  <2> QED
    BY <1>4, <2>3, <2>4 DEF ReceiveComplete
<1>5. ASSUME NEW b \in Batches, WaitTimesOut(b) PROVE DelayInv'
  BY <1>1, <1>5, FinallyType DEF WaitTimesOut, DelayTypeOK
<1>6. CASE CancelAll
  <2>1. DelayTypeOK'
    BY <1>1, <1>6 DEF CancelAll, OffShow, DelayTypeOK, hubVars
  <2>2. Unhandled'
    BY <1>1, <1>6 DEF CancelAll, Unhandled, hubVars
  <2>3. LateEnd'
    <3>1. active' = None /\ UNCHANGED call /\ displaced' = displaced \cup ({active} \ {None})
      BY <1>6 DEF CancelAll, OffShow
    <3> QED
      BY <1>1, <3>1, DelayAssumption DEF LateEnd, DelayAssumption
  <2> QED
    BY <1>6, <2>1, <2>2, <2>3, DartSteps DEF CancelAll
<1>7. ASSUME NEW b \in Batches, HandleStart(b) PROVE DelayInv'
  <2> DEFINE r == [batch[b] EXCEPT !.st = "running"]
  <2>1. b \in inbox /\ batch[b] = NoSession /\ call[b].st # "idle"
    BY <1>1, <1>7 DEF HandleStart, Unhandled
  <2>2. r = [st |-> "running", started |-> 0, running |-> {}, finished |-> {}]
    BY <2>1 DEF NoSession
  <2>3. r \in Session /\ Disjoint(r) /\ Pending(r) = 0
    <3>1. r.running = {} /\ r.finished = {} /\ r.started = 0
      BY <2>2
    <3>2. r \in Session
      BY <2>2, DelayAssumption DEF Session, DelayAssumption
    <3> HIDE DEF r
    <3>3. Disjoint(r) /\ Pending(r) = 0
      BY <3>1, FS_EmptySet DEF Disjoint, Pending
    <3> QED
      BY <3>2, <3>3
  <2>4. /\ Refill(r) \in Session /\ Refill(r).st = "running" /\ Disjoint(Refill(r)) /\ Fills(Refill(r), TRUE)
    <3>1. Pending(r) <= Concurrency
      BY <2>3, DelayAssumption DEF DelayAssumption
    <3>2. r.st = "running"
      BY <2>2
    <3> HIDE DEF r
    <3> QED
      BY <2>3, <3>1, <3>2, RefillFills
  <2>5. batch' = [batch EXCEPT ![b] = Refill(r)] /\ inbox' = inbox \ {b} /\ UNCHANGED <<dartVars, cancelBox, answers, cancelled>>
    BY <1>7 DEF HandleStart
  <2> HIDE DEF r
  <2>6. DelayTypeOK'
    <3>1. batch' \in [Batches -> Session]
      BY <1>1, <2>4, <2>5 DEF DelayTypeOK, Session
    <3>2. sessions' = sessions \cup {b}
      BY <1>7 DEF HandleStart
    <3> QED
      BY <1>1, <2>5, <3>1, <3>2 DEF DelayTypeOK, Session, dartVars, past
  <2>7. Fills(Refill(r), b \notin cancelled)
    BY <2>4 DEF Fills
  <2> QED
    BY <2>1, <2>4, <2>5, <2>6, <2>7, SessionSteps
<1>8. ASSUME NEW b \in Batches, HandleCancel(b) PROVE DelayInv'
  <2>1. DelayTypeOK'
    BY <1>1, <1>8 DEF HandleCancel, DelayTypeOK, dartVars, past
  <2>2. Unhandled' /\ LateEnd'
    BY <1>1, <1>8 DEF HandleCancel, Unhandled, LateEnd, dartVars, past
  <2>3. UNCHANGED batch /\ cancelled \subseteq cancelled'
    BY <1>8 DEF HandleCancel
  <2>4. Windows'
    BY <1>1, <2>3 DEF Windows, Fills
  <2> QED
    BY <2>1, <2>2, <2>4 DEF DelayInv
<1>9. ASSUME NEW b \in Batches, NEW n \in Nodes, NodeEnds(b, n) PROVE DelayInv'
  <2>1. n \in batch[b].running /\ batch[b] \in Session /\ Disjoint(batch[b])
    BY <1>1, <1>9 DEF NodeEnds, DelayTypeOK, Session, Windows
  <2>2. batch[b].st = "running" /\ batch[b] # NoSession /\ Fills(batch[b], b \notin cancelled)
    BY <1>1, <2>1 DEF Windows, NoSession
  <2>3. call[b].st # "idle" /\ b \notin inbox
    BY <1>1, <2>2 DEF Unhandled
  <2>4. PICK o \in {"completed", "cancelled"} :
           batch' = [batch EXCEPT ![b] = [batch[b] EXCEPT !.running = @ \ {n}, !.finished = @ \cup {<<n, o>>}]]
    BY <1>9 DEF NodeEnds
  <2> DEFINE t == [batch[b] EXCEPT !.running = @ \ {n}, !.finished = @ \cup {<<n, o>>}]
  <2>5. /\ t \in Session /\ t.st = "running" /\ t.started = batch[b].started
        /\ Disjoint(t) /\ Pending(t) = Pending(batch[b])
    BY <2>1, <2>2, EndsPending
  <2>6. batch' = [batch EXCEPT ![b] = t]
    BY <2>4
  <2> HIDE DEF t
  <2>7. Fills(t, b \notin cancelled)
    BY <2>2, <2>5 DEF Fills
  <2>8. UNCHANGED <<dartVars, inbox, cancelBox, answers, sessions, cancelled>>
    BY <1>9 DEF NodeEnds
  <2>9. DelayTypeOK'
    BY <1>1, <2>5, <2>6, <2>8 DEF DelayTypeOK, Session, dartVars, past
  <2> QED
    BY <2>3, <2>5, <2>6, <2>7, <2>8, <2>9, SessionSteps
<1>10. ASSUME NEW b \in Batches, NEW n \in Nodes, NEW o \in {"completed", "cancelled"}, Join(b, n, o) PROVE DelayInv'
  <2>1. <<n, o>> \in batch[b].finished /\ batch[b] \in Session /\ Disjoint(batch[b])
    BY <1>1, <1>10 DEF Join, DelayTypeOK, Session, Windows
  <2>2. batch[b].st = "running" /\ batch[b] # NoSession /\ Pending(batch[b]) <= Concurrency
    BY <1>1, <2>1 DEF Windows, NoSession, Fills
  <2>3. call[b].st # "idle" /\ b \notin inbox
    BY <1>1, <2>2 DEF Unhandled
  <2> DEFINE rest == [batch[b] EXCEPT !.finished = @ \ {<<n, o>>}]
             s == Joined(b, n, o)
             t == IF Pending(s) = 0 THEN [s EXCEPT !.st = "ended"] ELSE s
  <2>4. /\ rest \in Session /\ rest.st = "running"
        /\ Disjoint(rest) /\ Pending(rest) = Pending(batch[b]) - 1
    BY <2>1, <2>2, JoinTakes
  <2>5. Pending(batch[b]) \in Nat /\ Concurrency \in Nat
    BY <2>1, PendingCounts, DelayAssumption DEF DelayAssumption
  <2>6. Pending(rest) <= Concurrency
    BY <2>2, <2>4, <2>5
  <2>7. s = IF b \in cancelled THEN rest ELSE Refill(rest)
    BY DEF Joined
  <2> HIDE DEF rest, s
  <2>8. s \in Session /\ s.st = "running" /\ Disjoint(s) /\ Fills(s, b \notin cancelled)
    <3>1. CASE b \in cancelled
      BY <2>4, <2>6, <2>7, <3>1 DEF Fills
    <3>2. CASE b \notin cancelled
      BY <2>4, <2>6, <2>7, <3>2, RefillFills DEF Fills
    <3> QED
      BY <3>1, <3>2
  <2>9. /\ t \in Session /\ t.running = s.running /\ t.finished = s.finished /\ t.started = s.started
        /\ t.st = IF Pending(s) = 0 THEN "ended" ELSE "running"
    BY <2>8 DEF Session
  <2>10. Pending(s) = 0 => s.running = {} /\ s.finished = {}
    <3>1. Cardinality(s.running) \in Nat /\ Cardinality(s.finished) \in Nat
      BY <2>8, PendingCounts
    <3>2. Pending(s) = 0 => Cardinality(s.running) = 0 /\ Cardinality(s.finished) = 0
      BY <3>1 DEF Pending
    <3> QED
      BY <2>8, <3>2, FS_EmptySet DEF Disjoint
  <2>11. /\ batch' = [batch EXCEPT ![b] = t]
         /\ UNCHANGED <<dartVars, inbox, cancelBox, cancelled>>
         /\ sessions' \subseteq sessions
    BY <1>10 DEF Join, s
  <2>12. answers' \in [Batches -> Seq(Answers)]
    <3>1. answers[b] \in Seq(Answers)
      BY <1>1 DEF DelayTypeOK
    <3>2. PICK over \in BOOLEAN : answers' = [answers EXCEPT ![b] =
             answers[b] \o Progress(b, n, o)
               \o (IF over THEN <<CompletionAs(IF b \in cancelled THEN "cancelled" ELSE "done")>> ELSE <<>>)]
      BY <1>10 DEF Join
    <3> QED
      BY <1>1, <3>1, <3>2, AnswersSent DEF DelayTypeOK
  <2>13. Disjoint(t) /\ (t.st = "running" => Fills(t, b \notin cancelled))
         /\ (t.st # "running" => t.running = {} /\ t.finished = {})
    BY <2>8, <2>9, <2>10 DEF Disjoint, Fills, Pending
  <2> HIDE DEF t
  <2>14. DelayTypeOK'
    BY <1>1, <2>9, <2>11, <2>12 DEF DelayTypeOK, Session, dartVars, past
  <2> QED
    BY <2>3, <2>9, <2>11, <2>13, <2>14, SessionSteps
<1>11. CASE UNCHANGED vars
  BY <1>11 DEF vars, dartVars, hubVars, DelayInv, DelayTypeOK, Unhandled, LateEnd, Windows, past
<1> QED
  BY <1>2, <1>3, <1>4, <1>5, <1>6, <1>7, <1>8, <1>9, <1>10, <1>11 DEF DelayNext, DartStep, HubStep

-----------------------------------------------------------------------------
\* The sessions, the provider's flags and the requests that are not handled agree.
THEOREM DelayInductive == DelaySpec => []DelayInv
BY InvInit, InvStep, PTL DEF DelaySpec

\* The variables keep their types, for any number of batches and nodes.
THEOREM DelayTypeCorrect == DelaySpec => []DelayTypeOK
<1>1. DelayInv => DelayTypeOK
  BY DEF DelayInv
<1> QED
  BY <1>1, DelayInductive, PTL

\* A batch under way keeps its window full while it may start nodes, and never has
\* more tests pending than fit into it, for any number of nodes and any concurrency.
THEOREM WindowAlwaysFull == DelaySpec => []WindowFull
<1>1. DelayInv => WindowFull
  BY DEF DelayInv, Windows, Fills, WindowFull
<1> QED
  BY <1>1, DelayInductive, PTL

\* The action of SecondOnlyAfterLateEnd.
SecondAfterLateEnd ==
    \A b \in Batches:
       call[b].st = "idle" /\ call'[b].st = "waiting" =>
         active = None \/ lateEnds # {}

\* A second batch begins beside the active one only after a call whose batch had been
\* taken off show has ended while that same active batch was on show.
THEOREM SecondAlwaysAfterLateEnd == DelaySpec => SecondOnlyAfterLateEnd
<1>1. DelayInv /\ [DelayNext]_vars => [SecondAfterLateEnd]_vars
  <2> SUFFICES ASSUME DelayInv, DelayNext, NEW b \in Batches, call[b].st = "idle", call'[b].st = "waiting"
               PROVE  active = None \/ lateEnds # {}
    BY DEF SecondAfterLateEnd
  <2>1. CASE \E d \in Batches, style \in Styles : Begin(d, style)
    BY <2>1 DEF Begin, DelayInv, DelayTypeOK, LateEnd
  <2>2. CASE \E d \in Batches : Finally(d)
    BY <2>2 DEF Finally, EndedCall, DelayInv, DelayTypeOK
  <2>3. CASE UNCHANGED call
    BY <2>3
  <2> QED
    BY <2>1, <2>2, <2>3 DEF DelayNext, DartStep, HubStep, ReceiveProgress, ReceiveComplete, WaitTimesOut, CancelAll,
       HandleStart, HandleCancel, NodeEnds, Join, dartVars
<1>2. [][SecondAfterLateEnd]_vars => SecondOnlyAfterLateEnd
  BY PTL DEF SecondAfterLateEnd, SecondOnlyAfterLateEnd
<1> QED
  BY <1>1, <1>2, DelayInductive, PTL DEF DelaySpec

\* The action of NothingAfterCancel.
SilentWhenCancelled ==
    \A b \in cancelled:
       \/ answers'[b] \in {answers[b], Append(answers[b], CompletionAs("cancelled"))}
       \/ answers[b] # <<>> /\ answers'[b] = Tail(answers[b])

\* A batch that has been cancelled reports no further node, whatever tests of it are
\* under way or already joined, and its completion says that it was cancelled.
THEOREM NothingEverAfterCancel == DelaySpec => NothingAfterCancel
<1>1. DelayInv /\ [DelayNext]_vars => [SilentWhenCancelled]_vars
  <2> SUFFICES ASSUME DelayInv, DelayNext, NEW b \in cancelled
               PROVE  \/ answers'[b] \in {answers[b], Append(answers[b], CompletionAs("cancelled"))}
                      \/ answers[b] # <<>> /\ answers'[b] = Tail(answers[b])
    BY DEF SilentWhenCancelled
  <2>1. b \in Batches /\ answers \in [Batches -> Seq(Answers)]
    BY DEF DelayInv, DelayTypeOK
  <2>2. CASE \E d \in Batches : ReceiveProgress(d) \/ ReceiveComplete(d)
    BY <2>1, <2>2 DEF ReceiveProgress, ReceiveComplete
  <2>3. ASSUME NEW d \in Batches, NEW n \in Nodes, NEW o \in {"completed", "cancelled"}, Join(d, n, o)
        PROVE  answers'[b] \in {answers[b], Append(answers[b], CompletionAs("cancelled"))}
    <3>1. CASE d # b
      BY <2>1, <2>3, <3>1 DEF Join
    <3>2. CASE d = b
      <4>1. Progress(b, n, o) = <<>>
        BY DEF Progress
      <4>2. PICK over \in BOOLEAN :
               answers'[b] = answers[b] \o <<>> \o (IF over THEN <<CompletionAs("cancelled")>> ELSE <<>>)
        BY <2>1, <2>3, <3>2, <4>1 DEF Join
      <4>3. answers[b] \in Seq(Answers) /\ CompletionAs("cancelled") \in Answers
        BY <2>1 DEF Answers
      <4>4. answers[b] \o <<>> = answers[b]
        BY <4>3, ConcatEmptySeq
      <4>5. answers[b] \o <<CompletionAs("cancelled")>> = Append(answers[b], CompletionAs("cancelled"))
        BY <4>3, AppendIsConcat
      <4> QED
        BY <4>2, <4>4, <4>5
    <3> QED
      BY <3>1, <3>2
  <2>4. CASE UNCHANGED answers
    BY <2>4
  <2> QED
    BY <2>2, <2>3, <2>4 DEF DelayNext, DartStep, HubStep, Begin, WaitTimesOut, CancelAll,
       HandleStart, HandleCancel, NodeEnds
<1>2. [][SilentWhenCancelled]_vars => NothingAfterCancel
  BY PTL DEF SilentWhenCancelled, NothingAfterCancel
<1> QED
  BY <1>1, <1>2, DelayInductive, PTL DEF DelaySpec

-----------------------------------------------------------------------------
(***************************************************************************)
(* What is shown and what is on its way.                                   *)
(***************************************************************************)
Sent(b, a) == \E k \in DOMAIN answers[b] : answers[b][k] = a

\* The answer for a node of a batch is still to come, unless the batch is cancelled.
StillDue(b, n) ==
    \/ n > batch[b].started
    \/ n \in batch[b].running
    \/ <<n, "completed">> \in batch[b].finished
    \/ Sent(b, ProgressOf(n))
    \/ b \in cancelled

ShownIsDue ==
    \A b \in Batches :
       Hears(b) /\ active = b => \A n \in testingNodes : StillDue(b, n)

\* What a sequence of answers says of its batch: a completion is the last of them, and
\* one that says "done" comes from a batch that has tested every node and that nobody
\* can cancel any more.
Ends(b, sent) ==
    \A k \in DOMAIN sent :
       ~Progresses(sent[k]) =>
          /\ k = Len(sent)
          /\ batch[b].st = "ended"
          /\ sent[k].kind = "done" =>
               b \notin cancelled /\ b \notin sessions /\ batch[b].started = NodeCount

EndIsLast == \A b \in Batches : Ends(b, answers[b])

AnswersInv == ShownIsDue /\ EndIsLast

\* The loop that fills the window loses no node.
LEMMA RefillKeeps ==
    ASSUME NEW s \in Session, Disjoint(s), NEW k \in Nodes, k > s.started \/ k \in s.running
    PROVE  k > Refill(s).started \/ k \in Refill(s).running
<1> DEFINE room == IF Pending(s) < Concurrency THEN Concurrency - Pending(s) ELSE 0
           left == NodeCount - s.started
           n == IF left < room THEN left ELSE room
<1>1. Refill(s).started = s.started + n /\ Refill(s).running = s.running \cup (s.started + 1)..(s.started + n)
  BY DEF Refill, Session
<1>2. s.started \in Nat /\ k \in Nat
  BY DelayAssumption DEF Session, Nodes, DelayAssumption
<1>3. n \in Int
  BY PendingCounts, DelayAssumption DEF DelayAssumption, Session
<1> HIDE DEF n
<1> QED
  BY <1>1, <1>2, <1>3

\* What the join of one outcome does to its batch and to the answers.
LEMMA JoinDoes ==
    ASSUME DelayInv, NEW b \in Batches, NEW n \in Nodes, NEW o \in {"completed", "cancelled"}, Join(b, n, o)
    PROVE  /\ batch[b].st = "running" /\ batch'[b].st \in {"running", "ended"}
           /\ batch'[b].finished = batch[b].finished \ {<<n, o>>}
           /\ \A k \in Nodes : k > batch[b].started \/ k \in batch[b].running
                             => k > batch'[b].started \/ k \in batch'[b].running
           /\ \A d \in Batches : d # b => batch'[d] = batch[d] /\ answers'[d] = answers[d]
           /\ batch'[b].st = "ended" /\ b \notin cancelled =>
                b \notin sessions' /\ batch'[b].started = NodeCount
           /\ sessions' \in {sessions, sessions \ {b}}
           /\ answers'[b] =
                LET told == IF o = "completed" /\ b \notin cancelled
                            THEN Append(answers[b], ProgressOf(n)) ELSE answers[b]
                IN IF batch'[b].st = "ended"
                   THEN Append(told, CompletionAs(IF b \in cancelled THEN "cancelled" ELSE "done"))
                   ELSE told
<1> DEFINE rest == [batch[b] EXCEPT !.finished = @ \ {<<n, o>>}]
           s == Joined(b, n, o)
           over == Pending(s) = 0
           t == IF over THEN [s EXCEPT !.st = "ended"] ELSE s
           completion == CompletionAs(IF b \in cancelled THEN "cancelled" ELSE "done")
           told == IF o = "completed" /\ b \notin cancelled THEN Append(answers[b], ProgressOf(n)) ELSE answers[b]
<1>1. <<n, o>> \in batch[b].finished /\ batch[b] \in Session /\ Disjoint(batch[b])
  BY DEF Join, DelayInv, DelayTypeOK, Session, Windows
<1>2. batch[b].st = "running" /\ Pending(batch[b]) <= Concurrency
  BY <1>1 DEF DelayInv, Windows, Fills
<1>3. /\ rest \in Session /\ rest.st = "running" /\ rest.started = batch[b].started
      /\ rest.running = batch[b].running /\ rest.finished = batch[b].finished \ {<<n, o>>}
      /\ Disjoint(rest) /\ Pending(rest) = Pending(batch[b]) - 1
  BY <1>1, <1>2, JoinTakes DEF Session
<1>4. Pending(batch[b]) \in Nat /\ Concurrency \in Nat \ {0}
  BY <1>1, PendingCounts, DelayAssumption DEF DelayAssumption
<1>5. Pending(rest) <= Concurrency
  BY <1>2, <1>3, <1>4
<1>6. s = IF b \in cancelled THEN rest ELSE Refill(rest)
  BY DEF Joined
<1> HIDE DEF rest, s
<1>7. /\ s \in Session /\ s.st = "running" /\ s.finished = rest.finished
      /\ \A k \in Nodes : k > rest.started \/ k \in rest.running => k > s.started \/ k \in s.running
      /\ b \notin cancelled => Fills(s, TRUE)
  <2>1. Refill(rest).finished = rest.finished
    BY <1>3 DEF Refill, Session
  <2>2. CASE b \in cancelled
    BY <1>3, <1>6, <2>2
  <2>3. CASE b \notin cancelled
    BY <1>3, <1>5, <1>6, <2>1, <2>3, RefillFills, RefillKeeps
  <2> QED
    BY <2>2, <2>3
<1>8. s.started = NodeCount \/ b \in cancelled \/ Pending(s) # 0
  BY <1>4, <1>7, DelayAssumption DEF Fills, Session, DelayAssumption
<1>9. /\ t \in Session /\ t.running = s.running /\ t.finished = s.finished /\ t.started = s.started
      /\ t.st = IF over THEN "ended" ELSE "running"
  BY <1>7 DEF Session
<1>10. /\ batch' = [batch EXCEPT ![b] = t]
       /\ answers' = [answers EXCEPT ![b] =
            answers[b] \o Progress(b, n, o) \o (IF over THEN <<completion>> ELSE <<>>)]
       /\ sessions' = IF over /\ b \notin cancelled THEN sessions \ {b} ELSE sessions
  BY DEF Join, s
<1>11. /\ batch'[b] = t
       /\ \A d \in Batches : d # b => batch'[d] = batch[d] /\ answers'[d] = answers[d]
       /\ answers'[b] = answers[b] \o Progress(b, n, o) \o (IF over THEN <<completion>> ELSE <<>>)
  BY <1>10 DEF DelayInv, DelayTypeOK
<1>12. /\ answers[b] \in Seq(Answers) /\ ProgressOf(n) \in Answers /\ completion \in Answers
  BY DEF DelayInv, DelayTypeOK, Answers
<1>13. answers[b] \o Progress(b, n, o) = told /\ told \in Seq(Answers)
  <2>1. answers[b] \o <<>> = answers[b]
    BY <1>12, ConcatEmptySeq
  <2>2. answers[b] \o <<ProgressOf(n)>> = Append(answers[b], ProgressOf(n))
    BY <1>12, AppendIsConcat
  <2>3. Append(answers[b], ProgressOf(n)) \in Seq(Answers)
    BY <1>12
  <2> QED
    BY <1>12, <2>1, <2>2, <2>3 DEF Progress
<1> HIDE DEF told, completion, t
<1>14. told \o (IF over THEN <<completion>> ELSE <<>>) = IF over THEN Append(told, completion) ELSE told
  <2>1. told \o <<>> = told /\ told \o <<completion>> = Append(told, completion)
    BY <1>12, <1>13, ConcatEmptySeq, AppendIsConcat
  <2> QED
    BY <2>1
<1>15. answers'[b] = IF batch'[b].st = "ended" THEN Append(told, completion) ELSE told
  BY <1>9, <1>11, <1>13, <1>14
<1>16. batch'[b].st = "ended" /\ b \notin cancelled => b \notin sessions' /\ batch'[b].started = NodeCount
  BY <1>8, <1>9, <1>10, <1>11
<1>17. batch'[b].st \in {"running", "ended"} /\ batch'[b].finished = batch[b].finished \ {<<n, o>>}
  BY <1>3, <1>7, <1>9, <1>11
<1>18. \A k \in Nodes : k > batch[b].started \/ k \in batch[b].running
                     => k > batch'[b].started \/ k \in batch'[b].running
  BY <1>3, <1>7, <1>9, <1>11
<1>19. sessions' \in {sessions, sessions \ {b}}
  BY <1>10
<1> QED
  BY <1>2, <1>11, <1>15, <1>16, <1>17, <1>18, <1>19 DEF told, completion


\* What has been sent and is not the head is still sent afterwards.
LEMMA SentTail ==
    ASSUME NEW b \in Batches, answers \in [Batches -> Seq(Answers)], answers[b] # <<>>,
           answers' = [answers EXCEPT ![b] = Tail(@)], NEW d \in Batches, NEW a, Sent(d, a)
    PROVE  Sent(d, a)' \/ (d = b /\ a = Head(answers[b]))
<1>1. CASE d # b
  BY <1>1 DEF Sent
<1>2. CASE d = b
  <2>1. PICK k \in DOMAIN answers[b] : answers[b][k] = a
    BY <1>2 DEF Sent
  <2>2. answers[b] \in Seq(Answers) /\ answers'[b] = Tail(answers[b])
    OBVIOUS
  <2>3. CASE k = 1
    BY <1>2, <2>1, <2>2, <2>3
  <2>4. CASE k # 1
    <3>1. k - 1 \in DOMAIN Tail(answers[b]) /\ Tail(answers[b])[k - 1] = answers[b][k]
      BY <2>1, <2>2, <2>4
    <3> QED
      BY <1>2, <2>1, <2>2, <3>1 DEF Sent
  <2> QED
    BY <2>3, <2>4
<1> QED
  BY <1>1, <1>2

\* A step that shows no more nodes, makes no other batch heard and takes nothing from
\* what is due keeps the rule.
LEMMA ShownKept ==
    ASSUME ShownIsDue, testingNodes' \subseteq testingNodes,
           \A b \in Batches : Hears(b)' /\ active' = b =>
              /\ Hears(b) /\ active = b
              /\ \A n \in testingNodes' : StillDue(b, n) => StillDue(b, n)'
    PROVE  ShownIsDue'
BY DEF ShownIsDue

\* Whatever is shown as being tested is due.
LEMMA ShownStep ==
    ASSUME DelayInv, ShownIsDue, [DelayNext]_vars
    PROVE  ShownIsDue'
<1>t. /\ DelayTypeOK
      /\ answers \in [Batches -> Seq(Answers)] /\ testingNodes \subseteq Nodes
      /\ \A b \in Batches : batch[b] \in Session
  BY DEF DelayInv, DelayTypeOK, Session
<1>0. testingNodes' = {} => ShownIsDue'
  BY DEF ShownIsDue
<1>s. ASSUME dartVars' = dartVars,
             \A b \in Batches, n \in Nodes : StillDue(b, n) => StillDue(b, n)'
      PROVE  ShownIsDue'
  BY <1>t, <1>s, ShownKept DEF dartVars, Hears
<1>1. ASSUME NEW b \in Batches, NEW style \in Styles, Begin(b, style)
      PROVE  ShownIsDue'
  <2>1. testingNodes' = Nodes /\ active' = b /\ batch' = batch /\ batch[b] = NoSession
    BY <1>1 DEF Begin, DelayInv, Unhandled, hubVars
  <2>2. \A n \in Nodes : StillDue(b, n)'
    BY <2>1 DEF StillDue, NoSession, Nodes
  <2> QED
    BY <2>1, <2>2 DEF ShownIsDue
<1>2. ASSUME NEW b \in Batches, ReceiveProgress(b)
      PROVE  ShownIsDue'
  <2>1. /\ answers[b] # <<>> /\ answers' = [answers EXCEPT ![b] = Tail(@)]
        /\ UNCHANGED <<active, subscriber, call, batch, cancelled>>
        /\ testingNodes' \subseteq testingNodes
        /\ Hears(b) /\ active = b => testingNodes' = testingNodes \ {Head(answers[b]).node}
    BY <1>2 DEF ReceiveProgress, hubVars
  <2>2. ASSUME NEW d \in Batches, Hears(d)' /\ active' = d, NEW n \in testingNodes', StillDue(d, n)
        PROVE  StillDue(d, n)'
    <3>1. Hears(d) /\ active = d
      BY <2>1, <2>2 DEF Hears
    <3>2. d = b => ProgressOf(n) # Head(answers[b])
      BY <2>1, <2>2, <3>1 DEF ProgressOf
    <3>3. Sent(d, ProgressOf(n)) => Sent(d, ProgressOf(n))'
      BY <1>t, <2>1, <3>2, SentTail
    <3> QED
      BY <2>1, <2>2, <3>3 DEF StillDue
  <2>3. \A d \in Batches : Hears(d)' = Hears(d) /\ active' = active
    BY <2>1 DEF Hears
  <2> QED
    BY <2>1, <2>2, <2>3, ShownKept
<1>3. ASSUME NEW b \in Batches, ReceiveComplete(b)
      PROVE  ShownIsDue'
  <2>1. CASE Hears(b)
    BY <1>0, <1>3, <2>1 DEF ReceiveComplete, Finally
  <2>2. CASE ~Hears(b)
    <3>1. /\ answers' = [answers EXCEPT ![b] = Tail(@)] /\ dartVars' = dartVars
          /\ UNCHANGED <<batch, cancelled>>
      BY <1>3, <2>2 DEF ReceiveComplete, hubVars
    <3>2. \A d \in Batches : Hears(d)' = Hears(d) /\ (d # b => answers'[d] = answers[d])
      BY <1>t, <3>1 DEF Hears, dartVars
    <3>3. ASSUME NEW d \in Batches, Hears(d)', NEW n \in testingNodes', StillDue(d, n)
          PROVE  StillDue(d, n)'
      <4>1. answers'[d] = answers[d]
        BY <2>2, <3>2, <3>3
      <4> QED
        BY <3>1, <3>3, <4>1 DEF StillDue, Sent
    <3> QED
      BY <3>1, <3>2, <3>3, ShownKept DEF dartVars
  <2> QED
    BY <2>1, <2>2
<1>4. CASE CancelAll \/ \E b \in Batches : WaitTimesOut(b)
  BY <1>0, <1>4 DEF WaitTimesOut, CancelAll, Finally
<1>5. ASSUME NEW b \in Batches, HandleStart(b)
      PROVE  ShownIsDue'
  <2> DEFINE r == [batch[b] EXCEPT !.st = "running"]
  <2>1. /\ r \in Session /\ r.started = batch[b].started /\ r.running = batch[b].running
        /\ r.finished = batch[b].finished /\ Disjoint(r)
    BY <1>t DEF Session, DelayInv, Windows, Disjoint
  <2>2. /\ batch' = [batch EXCEPT ![b] = Refill(r)] /\ dartVars' = dartVars
        /\ UNCHANGED <<answers, cancelled>>
    BY <1>5 DEF HandleStart
  <2> HIDE DEF r
  <2>3. batch'[b] = Refill(r) /\ \A d \in Batches : d # b => batch'[d] = batch[d]
    BY <1>t, <2>2 DEF DelayTypeOK
  <2>4. Refill(r).finished = batch[b].finished
    BY <2>1 DEF Refill, Session
  <2>5. ASSUME NEW d \in Batches, NEW n \in Nodes, StillDue(d, n)
        PROVE  StillDue(d, n)'
    <3>1. CASE d = b
      BY <2>1, <2>2, <2>3, <2>4, <2>5, <3>1, RefillKeeps DEF StillDue, Sent
    <3>2. CASE d # b
      BY <2>2, <2>3, <2>5, <3>2 DEF StillDue, Sent
    <3> QED
      BY <3>1, <3>2
  <2> QED
    BY <1>s, <2>2, <2>5
<1>6. ASSUME NEW b \in Batches, HandleCancel(b)
      PROVE  ShownIsDue'
  <2>1. dartVars' = dartVars /\ UNCHANGED <<answers, batch>> /\ cancelled \subseteq cancelled'
    BY <1>6 DEF HandleCancel
  <2> QED
    BY <1>s, <2>1 DEF StillDue, Sent
<1>7. ASSUME NEW b \in Batches, NEW k \in Nodes, NodeEnds(b, k)
      PROVE  ShownIsDue'
  <2>1. /\ dartVars' = dartVars /\ UNCHANGED <<answers, cancelled>>
        /\ batch' = [batch EXCEPT
             ![b].running = @ \ {k},
             ![b].finished = @ \cup {<<k, IF b \in cancelled THEN "cancelled" ELSE "completed">>}]
    BY <1>7 DEF NodeEnds
  <2>2. /\ batch'[b].started = batch[b].started /\ batch'[b].running = batch[b].running \ {k}
        /\ batch'[b].finished =
             batch[b].finished \cup {<<k, IF b \in cancelled THEN "cancelled" ELSE "completed">>}
        /\ \A d \in Batches : d # b => batch'[d] = batch[d]
    BY <1>t, <2>1 DEF DelayTypeOK
  <2>3. ASSUME NEW d \in Batches, NEW n \in Nodes, StillDue(d, n)
        PROVE  StillDue(d, n)'
    BY <2>1, <2>2, <2>3 DEF StillDue, Sent
  <2> QED
    BY <1>s, <2>1, <2>3
<1>8. ASSUME NEW b \in Batches, NEW k \in Nodes, NEW o \in {"completed", "cancelled"}, Join(b, k, o)
      PROVE  ShownIsDue'
  <2>1. dartVars' = dartVars /\ cancelled' = cancelled
    BY <1>8 DEF Join
  <2>2. answers[b] \in Seq(Answers) /\ ProgressOf(k) \in Answers
    BY <1>t DEF Answers
  <2> DEFINE told == IF o = "completed" /\ b \notin cancelled
                     THEN Append(answers[b], ProgressOf(k)) ELSE answers[b]
  <2>3. /\ told \in Seq(Answers)
        /\ \A i \in DOMAIN answers[b] : i \in DOMAIN told /\ told[i] = answers[b][i]
        /\ o = "completed" /\ b \notin cancelled => \E i \in DOMAIN told : told[i] = ProgressOf(k)
    <3> DEFINE longer == Append(answers[b], ProgressOf(k))
    <3>1. /\ longer \in Seq(Answers)
          /\ \A i \in DOMAIN answers[b] : i \in DOMAIN longer /\ longer[i] = answers[b][i]
          /\ Len(answers[b]) + 1 \in DOMAIN longer /\ longer[Len(answers[b]) + 1] = ProgressOf(k)
      BY <2>2
    <3> HIDE DEF longer
    <3>2. told = longer \/ told = answers[b]
      BY DEF longer
    <3>3. o = "completed" /\ b \notin cancelled => told = longer
      BY DEF longer
    <3> HIDE DEF told
    <3> QED
      BY <2>2, <3>1, <3>2, <3>3
  <2>4. /\ batch'[b].finished = batch[b].finished \ {<<k, o>>}
        /\ \A n \in Nodes : n > batch[b].started \/ n \in batch[b].running
                          => n > batch'[b].started \/ n \in batch'[b].running
        /\ \A d \in Batches : d # b => batch'[d] = batch[d] /\ answers'[d] = answers[d]
        /\ answers'[b] \in {told, Append(told, CompletionAs("cancelled")), Append(told, CompletionAs("done"))}
    <3>1. answers'[b] = IF batch'[b].st = "ended"
                        THEN Append(told, CompletionAs(IF b \in cancelled THEN "cancelled" ELSE "done"))
                        ELSE told
      BY <1>8, JoinDoes
    <3> HIDE DEF told
    <3>2. answers'[b] \in {told, Append(told, CompletionAs("cancelled")), Append(told, CompletionAs("done"))}
      BY <3>1
    <3> QED
      BY <1>8, <3>2, JoinDoes
  <2> HIDE DEF told
  <2>5. \A i \in DOMAIN told : i \in DOMAIN answers'[b] /\ answers'[b][i] = told[i]
    BY <2>3, <2>4
  <2>6. \A a : Sent(b, a) \/ (a = ProgressOf(k) /\ o = "completed" /\ b \notin cancelled) => Sent(b, a)'
    BY <2>3, <2>5 DEF Sent
  <2>7. ASSUME NEW d \in Batches, NEW n \in Nodes, StillDue(d, n)
        PROVE  StillDue(d, n)'
    <3>1. CASE d = b
      <4>1. CASE <<n, "completed">> \in batch[b].finished \ batch'[b].finished
        BY <2>1, <2>4, <2>6, <3>1, <4>1 DEF StillDue
      <4> QED
        BY <2>1, <2>4, <2>6, <2>7, <3>1, <4>1 DEF StillDue
    <3>2. CASE d # b
      BY <2>1, <2>4, <2>7, <3>2 DEF StillDue, Sent
    <3> QED
      BY <3>1, <3>2
  <2> QED
    BY <1>s, <2>1, <2>7
<1>9. CASE UNCHANGED vars
  BY <1>9 DEF vars, dartVars, hubVars, ShownIsDue, Hears, StillDue, Sent
<1> QED
  BY <1>1, <1>2, <1>3, <1>4, <1>5, <1>6, <1>7, <1>8, <1>9 DEF DelayNext, DartStep, HubStep

\* A completion stays the last answer of a batch that is over.
LEMMA EndStep ==
    ASSUME DelayInv, EndIsLast, [DelayNext]_vars
    PROVE  EndIsLast'
<1>t. /\ DelayTypeOK
      /\ answers \in [Batches -> Seq(Answers)]
      /\ \A b \in Batches : batch[b] \in Session
  BY DEF DelayInv, DelayTypeOK, Session
<1>s. ASSUME NEW b \in Batches, answers'[b] = answers[b],
             batch[b].st = "ended" => batch'[b] = batch[b],
             b \in cancelled' \/ b \in sessions' => b \in cancelled \/ b \in sessions
      PROVE  Ends(b, answers[b])'
  BY <1>s DEF EndIsLast, Ends
<1>1. ASSUME UNCHANGED <<answers, hubVars>>
      PROVE  EndIsLast'
  BY <1>1, <1>s DEF EndIsLast, hubVars
<1>2. ASSUME NEW b \in Batches, ReceiveProgress(b) \/ ReceiveComplete(b)
      PROVE  EndIsLast'
  <2>1. /\ answers[b] # <<>> /\ answers' = [answers EXCEPT ![b] = Tail(@)]
        /\ UNCHANGED <<batch, sessions, cancelled>>
    BY <1>2 DEF ReceiveProgress, ReceiveComplete, hubVars
  <2>2. answers[b] \in Seq(Answers) /\ answers'[b] = Tail(answers[b])
    BY <1>t, <2>1
  <2>3. ASSUME NEW k \in DOMAIN Tail(answers[b])
        PROVE  /\ k + 1 \in DOMAIN answers[b] /\ Tail(answers[b])[k] = answers[b][k + 1]
               /\ k + 1 = Len(answers[b]) => k = Len(Tail(answers[b]))
    BY <2>1, <2>2, <2>3
  <2>4. Ends(b, answers[b])'
    BY <2>1, <2>2, <2>3 DEF EndIsLast, Ends
  <2>5. ASSUME NEW d \in Batches, d # b
        PROVE  Ends(d, answers[d])'
    <3>1. answers'[d] = answers[d]
      BY <1>t, <2>1, <2>5
    <3> QED
      BY <1>s, <2>1, <3>1
  <2> QED
    BY <2>4, <2>5 DEF EndIsLast
<1>3. ASSUME NEW b \in Batches, HandleStart(b)
      PROVE  EndIsLast'
  <2>1. /\ answers' = answers /\ cancelled' = cancelled /\ sessions' = sessions \cup {b}
        /\ batch[b] = NoSession /\ \A d \in Batches : d # b => batch'[d] = batch[d]
    BY <1>t, <1>3 DEF HandleStart, DelayInv, Unhandled, DelayTypeOK
  <2>2. batch[b].st # "ended"
    BY <2>1 DEF NoSession
  <2>3. Ends(b, answers[b])'
    BY <2>1, <2>2 DEF EndIsLast, Ends
  <2>4. ASSUME NEW d \in Batches, d # b
        PROVE  Ends(d, answers[d])'
    BY <1>s, <2>1, <2>4
  <2> QED
    BY <2>3, <2>4 DEF EndIsLast
<1>4. ASSUME NEW b \in Batches, HandleCancel(b)
      PROVE  EndIsLast'
  <2>1. /\ answers' = answers /\ batch' = batch /\ sessions' = sessions
        /\ cancelled' = IF b \in sessions THEN cancelled \cup {b} ELSE cancelled
    BY <1>4 DEF HandleCancel
  <2> QED
    BY <1>s, <2>1 DEF EndIsLast
<1>5. ASSUME NEW b \in Batches, NEW n \in Nodes, NodeEnds(b, n)
      PROVE  EndIsLast'
  <2>1. batch[b].st # "ended"
    BY <1>5 DEF NodeEnds, DelayInv, Windows
  <2>2. /\ answers' = answers /\ sessions' = sessions /\ cancelled' = cancelled
        /\ \A d \in Batches : d # b => batch'[d] = batch[d]
    BY <1>t, <1>5 DEF NodeEnds, DelayTypeOK
  <2> QED
    BY <1>s, <2>1, <2>2 DEF EndIsLast
<1>6. ASSUME NEW b \in Batches, NEW n \in Nodes, NEW o \in {"completed", "cancelled"}, Join(b, n, o)
      PROVE  EndIsLast'
  <2> DEFINE told == IF o = "completed" /\ b \notin cancelled
                     THEN Append(answers[b], ProgressOf(n)) ELSE answers[b]
             completion == CompletionAs(IF b \in cancelled THEN "cancelled" ELSE "done")
  <2>1. /\ batch[b].st = "running" /\ batch'[b].st \in {"running", "ended"}
        /\ \A d \in Batches : d # b => batch'[d] = batch[d] /\ answers'[d] = answers[d]
        /\ batch'[b].st = "ended" /\ b \notin cancelled =>
             b \notin sessions' /\ batch'[b].started = NodeCount
        /\ sessions' \subseteq sessions
        /\ answers'[b] = IF batch'[b].st = "ended" THEN Append(told, completion) ELSE told
    BY <1>6, JoinDoes
  <2>2. cancelled' = cancelled /\ answers[b] \in Seq(Answers) /\ ProgressOf(n) \in Answers
    BY <1>t, <1>6 DEF Join, Answers
  <2>3. \A k \in DOMAIN answers[b] : Progresses(answers[b][k])
    BY <2>1 DEF EndIsLast, Ends
  <2>4. Progresses(ProgressOf(n))
    BY DEF Progresses, ProgressOf
  <2>5. told \in Seq(Answers) /\ \A k \in DOMAIN told : Progresses(told[k])
    BY <2>2, <2>3, <2>4
  <2>6. completion.kind = IF b \in cancelled THEN "cancelled" ELSE "done"
    BY DEF CompletionAs
  <2> HIDE DEF told, completion
  <2>7. /\ Len(Append(told, completion)) = Len(told) + 1
        /\ \A k \in DOMAIN Append(told, completion) :
             \/ Progresses(Append(told, completion)[k])
             \/ k = Len(told) + 1 /\ Append(told, completion)[k] = completion
    BY <2>5
  <2>8. Ends(b, answers[b])'
    <3>1. CASE batch'[b].st = "ended"
      BY <2>1, <2>2, <2>6, <2>7, <3>1 DEF Ends
    <3>2. CASE batch'[b].st # "ended"
      BY <2>1, <2>5, <3>2 DEF Ends
    <3> QED
      BY <3>1, <3>2
  <2>9. ASSUME NEW d \in Batches, d # b
        PROVE  Ends(d, answers[d])'
    BY <1>s, <2>1, <2>2, <2>9
  <2> QED
    BY <2>8, <2>9 DEF EndIsLast
<1>7. CASE UNCHANGED vars
  BY <1>1, <1>7 DEF vars
<1> QED
  BY <1>1, <1>2, <1>3, <1>4, <1>5, <1>6, <1>7 DEF DelayNext, DartStep, HubStep, Begin, WaitTimesOut, CancelAll

\* What is shown is due and a completion is the last answer, in every reachable state.
THEOREM AnswersInductive == DelaySpec => []AnswersInv
<1>1. DelayInit => AnswersInv
  BY DEF DelayInit, AnswersInv, ShownIsDue, EndIsLast, Ends
<1>2. DelayInv /\ AnswersInv /\ [DelayNext]_vars => AnswersInv'
  BY ShownStep, EndStep DEF AnswersInv
<1> QED
  BY <1>1, <1>2, DelayInductive, PTL DEF DelaySpec

\* A batch that completes on show has shown the result of each of its nodes, for any
\* number of nodes and any concurrency.
THEOREM NothingEverMissed == DelaySpec => []NothingMissed
<1>1. ASSUME DelayInv, AnswersInv
      PROVE  NothingMissed
  <2> SUFFICES ASSUME NEW b \in Batches, answers[b] # <<>>, Head(answers[b]).kind = "done",
                      Hears(b), active = b, NEW n \in testingNodes
               PROVE  FALSE
    BY DEF NothingMissed
  <2>1. answers[b] \in Seq(Answers) /\ batch[b] \in Session /\ n \in Nodes
    BY <1>1 DEF DelayInv, DelayTypeOK, Session
  <2>2. 1 \in DOMAIN answers[b] /\ answers[b][1].kind = "done" /\ ~Progresses(answers[b][1])
    BY <2>1 DEF Progresses
  <2>3. Len(answers[b]) = 1 /\ batch[b].st = "ended" /\ b \notin cancelled /\ batch[b].started = NodeCount
    BY <1>1, <2>2 DEF AnswersInv, EndIsLast, Ends
  <2>4. batch[b].running = {} /\ batch[b].finished = {}
    BY <1>1, <2>3 DEF DelayInv, Windows
  <2>5. ~Sent(b, ProgressOf(n))
    BY <2>1, <2>2, <2>3 DEF Sent, ProgressOf
  <2>6. ~(n > batch[b].started)
    BY <2>1, <2>3, DelayAssumption DEF Nodes, DelayAssumption
  <2> QED
    BY <1>1, <2>3, <2>4, <2>5, <2>6 DEF AnswersInv, ShownIsDue, StillDue
<1> QED
  BY <1>1, DelayInductive, AnswersInductive, PTL

=============================================================================
