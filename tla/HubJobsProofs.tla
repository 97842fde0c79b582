--------------------------- MODULE HubJobsProofs ----------------------------
(***************************************************************************)
(* Proofs about the jobs of the hub (HubJobs), for any number of calls, of *)
(* failures, of changes of the preferences and of chunks of an archive,    *)
(* and on both kinds of systems.                                           *)
(***************************************************************************)
EXTENDS HubJobs, SequenceTheorems, TLAPS

CallRecord == [kind: Kinds, phase: {"idle", "waits", "answered", "timedOut", "over"},
               from: Calls \cup {NoCall}]

-----------------------------------------------------------------------------
(***************************************************************************)
(* What a step does to the calls and to the tasks, whatever their plans    *)
(* are.                                                                    *)
(***************************************************************************)
CallsAre(plans) ==
    /\ call \in [Calls -> CallRecord]
    /\ task \in [Calls -> [todo: plans, ok: BOOLEAN, alone: BOOLEAN]]
    /\ mail \in Seq(Calls)
    /\ faults \in Nat

\* A call that was made, of the channel of another kind.
Mate(c, kind) == call[c].phase # "idle" /\ Channel(call[c].kind) = Channel(kind)

\* A call is made.
LEMMA Asked ==
    ASSUME NEW T, CallsAre(T), NEW c \in Calls, NEW kind \in Kinds, NEW plan \in T, Ask(c, kind, plan)
    PROVE  /\ CallsAre(T)' /\ UNCHANGED <<mail, faults>>
           /\ call[c].phase = "idle" /\ call'[c] = [kind |-> kind, phase |-> "waits", from |-> NoCall]
           /\ task'[c].todo = plan /\ task'[c].ok
           /\ task'[c].alone => \A d \in Calls : Mate(d, kind) => ~Running(d) /\ ~Waits(d)
           /\ \A d \in Calls \ {c} :
                 /\ call'[d] = call[d]
                 /\ task'[d].todo = task[d].todo /\ task'[d].ok = task[d].ok
                 /\ task'[d].alone => task[d].alone /\ ~Mate(d, kind)
<1> DEFINE mates == {d \in Calls : Mate(d, kind)}
           first == \A m \in mates : ~Running(m) /\ ~Waits(m)
<1>1. /\ call' = [call EXCEPT ![c] = [kind |-> kind, phase |-> "waits", from |-> NoCall]]
      /\ task' = [d \in Calls |-> IF d = c THEN [todo |-> plan, ok |-> TRUE, alone |-> first]
                                  ELSE [task[d] EXCEPT !.alone = @ /\ d \notin mates]]
      /\ call[c].phase = "idle" /\ mail' = mail /\ faults' = faults
  BY DEF Ask, Mate
<1>2. [kind |-> kind, phase |-> "waits", from |-> NoCall] \in CallRecord
  BY DEF CallRecord
<1>3. first \in BOOLEAN
  OBVIOUS
<1>4. first => \A d \in Calls : Mate(d, kind) => ~Running(d) /\ ~Waits(d)
  OBVIOUS
<1>5. \A d \in Calls : d \in mates <=> Mate(d, kind)
  OBVIOUS
<1> HIDE DEF mates, first
<1>6. /\ task'[c] = [todo |-> plan, ok |-> TRUE, alone |-> first]
      /\ \A d \in Calls \ {c} : task'[d] = [task[d] EXCEPT !.alone = @ /\ d \notin mates]
  BY <1>1
<1>7. /\ call' \in [Calls -> CallRecord] /\ call'[c] = [kind |-> kind, phase |-> "waits", from |-> NoCall]
      /\ \A d \in Calls \ {c} : call'[d] = call[d]
  BY <1>1, <1>2 DEF CallsAre
<1>8. task'[c] \in [todo: T, ok: BOOLEAN, alone: BOOLEAN] /\ task'[c].todo = plan /\ task'[c].ok /\ task'[c].alone = first
  BY <1>3, <1>6
<1>9. ASSUME NEW d \in Calls \ {c}
      PROVE  /\ task'[d] \in [todo: T, ok: BOOLEAN, alone: BOOLEAN]
             /\ task'[d].todo = task[d].todo /\ task'[d].ok = task[d].ok
             /\ task'[d].alone = (task[d].alone /\ d \notin mates)
  <2>1. task[d] \in [todo: T, ok: BOOLEAN, alone: BOOLEAN]
    BY DEF CallsAre
  <2> QED
    BY <1>6, <2>1
<1>10. task' \in [Calls -> [todo: T, ok: BOOLEAN, alone: BOOLEAN]]
  <2>1. \A d \in Calls : task'[d] \in [todo: T, ok: BOOLEAN, alone: BOOLEAN]
    BY <1>8, <1>9
  <2>2. task' = [d \in Calls |-> task'[d]]
    BY <1>1
  <2> QED
    BY <2>1, <2>2
<1>11. CallsAre(T)'
  BY <1>1, <1>7, <1>10 DEF CallsAre
<1> QED
  BY <1>1, <1>4, <1>5, <1>7, <1>8, <1>9, <1>11

\* A task goes on or ends.
LEMMA Gone ==
    ASSUME NEW T, CallsAre(T), NEW c \in Calls, NEW steps \in T, NEW ok \in BOOLEAN, GoTo(c, steps, ok),
           faults' \in Nat
    PROVE  /\ CallsAre(T)' /\ call' = call
           /\ task'[c].todo = steps /\ task'[c].ok = ok /\ task'[c].alone = task[c].alone
           /\ \A d \in Calls \ {c} : task'[d] = task[d]
           /\ mail' = IF steps = <<>> THEN Append(mail, c) ELSE mail
<1> DEFINE next == [task[c] EXCEPT !.todo = steps, !.ok = ok]
<1>1. /\ call' = call /\ task' = [task EXCEPT ![c] = next]
      /\ mail' = IF steps = <<>> THEN Append(mail, c) ELSE mail
  BY DEF GoTo
<1>2. task[c] \in [todo: T, ok: BOOLEAN, alone: BOOLEAN]
  BY DEF CallsAre
<1>3. next \in [todo: T, ok: BOOLEAN, alone: BOOLEAN] /\ next.todo = steps /\ next.ok = ok /\ next.alone = task[c].alone
  BY <1>2
<1>4. mail' \in Seq(Calls)
  BY <1>1 DEF CallsAre
<1> HIDE DEF next
<1> QED
  BY <1>1, <1>3, <1>4 DEF CallsAre

\* Only the task that takes a step sends a result.
LEMMA SendsOwn ==
    ASSUME NEW T, CallsAre(T), NEW c \in Calls, NEW steps \in T, NEW ok \in BOOLEAN, GoTo(c, steps, ok), faults' \in Nat
    PROVE  \A d \in Calls : Sends(d) => d = c /\ steps = <<>>
BY Gone DEF Sends, Running

\* A result is taken by every call of its channel that waits.
LEMMA Delivered ==
    ASSUME NEW T, CallsAre(T), Deliver
    PROVE  /\ CallsAre(T)' /\ UNCHANGED <<task, faults>>
           /\ mail # <<>> /\ mail' = Tail(mail) /\ Head(mail) \in Calls
           /\ \A d \in Calls :
                 IF Waits(d) /\ Channel(call[d].kind) = Channel(call[Head(mail)].kind)
                 THEN call'[d].kind = call[d].kind /\ call'[d].phase = "answered" /\ call'[d].from = Head(mail)
                 ELSE call'[d] = call[d]
<1> DEFINE r == Head(mail)
           hears(d) == Waits(d) /\ Channel(call[d].kind) = Channel(call[r].kind)
<1>1. /\ mail # <<>> /\ mail' = Tail(mail) /\ task' = task /\ faults' = faults
      /\ call' = [d \in Calls |-> IF hears(d) THEN [call[d] EXCEPT !.phase = "answered", !.from = r] ELSE call[d]]
  BY DEF Deliver
<1>2. mail' \in Seq(Calls) /\ r \in Calls
  <2>1. mail \in Seq(Calls) /\ mail # <<>> /\ mail' = Tail(mail)
    BY <1>1 DEF CallsAre
  <2> QED
    BY <2>1
<1>3. ASSUME NEW d \in Calls
      PROVE  /\ call'[d] \in CallRecord
             /\ IF hears(d)
                THEN call'[d].kind = call[d].kind /\ call'[d].phase = "answered" /\ call'[d].from = r
                ELSE call'[d] = call[d]
  <2> HIDE DEF r
  <2>1. call[d] \in CallRecord
    BY DEF CallsAre
  <2>2. LET new == [call[d] EXCEPT !.phase = "answered", !.from = r]
        IN  new \in CallRecord /\ new.kind = call[d].kind /\ new.phase = "answered" /\ new.from = r
    BY <1>2, <2>1 DEF CallRecord
  <2> HIDE DEF hears
  <2>3. call'[d] = IF hears(d) THEN [call[d] EXCEPT !.phase = "answered", !.from = r] ELSE call[d]
    BY <1>1
  <2> QED
    BY <2>1, <2>2, <2>3
<1>4. call' \in [Calls -> CallRecord]
  <2> HIDE DEF r, hears
  <2>1. \A d \in Calls : call'[d] \in CallRecord
    BY <1>3
  <2>2. call' = [d \in Calls |-> call'[d]]
    BY <1>1
  <2> QED
    BY <2>1, <2>2
<1> QED
  BY <1>1, <1>2, <1>3, <1>4 DEF CallsAre

\* The limit of a call passes.
LEMMA Limited ==
    ASSUME NEW T, CallsAre(T), NEW c \in Calls, TimeOut(c)
    PROVE  /\ CallsAre(T)' /\ UNCHANGED <<task, mail, faults>>
           /\ Waits(c) /\ call'[c].kind = call[c].kind /\ call'[c].phase = "timedOut" /\ call'[c].from = call[c].from
           /\ \A d \in Calls \ {c} : call'[d] = call[d]
<1>1. /\ Waits(c) /\ call' = [call EXCEPT ![c] = [call[c] EXCEPT !.phase = "timedOut"]]
      /\ task' = task /\ mail' = mail /\ faults' = faults
  BY DEF TimeOut
<1>2. call[c] \in CallRecord
  BY DEF CallsAre
<1> DEFINE new == [call[c] EXCEPT !.phase = "timedOut"]
<1>3. new \in CallRecord /\ new.kind = call[c].kind /\ new.phase = "timedOut" /\ new.from = call[c].from
  BY <1>2 DEF CallRecord
<1> HIDE DEF new
<1>4. call' = [call EXCEPT ![c] = new]
  BY <1>1 DEF new
<1> QED
  BY <1>1, <1>3, <1>4 DEF CallsAre

\* The application is killed.
LEMMA Killed ==
    ASSUME NEW T, CallsAre(T), <<>> \in T, AppEnds
    PROVE  /\ CallsAre(T)' /\ mail' = <<>> /\ faults' = faults + 1
           /\ \A d \in Calls :
                 /\ task'[d].todo = <<>> /\ task'[d].alone = task[d].alone /\ task'[d].ok = task[d].ok
                 /\ call'[d].kind = call[d].kind /\ call'[d].from = call[d].from
                 /\ call'[d].phase = IF call[d].phase = "idle" THEN "idle" ELSE "over"
<1>1. /\ call' = [c \in Calls |-> IF call[c].phase = "idle" THEN call[c] ELSE [call[c] EXCEPT !.phase = "over"]]
      /\ task' = [c \in Calls |-> [task[c] EXCEPT !.todo = <<>>]]
      /\ mail' = <<>> /\ faults' = faults + 1
  BY DEF AppEnds, Breaks
<1>2. ASSUME NEW d \in Calls
      PROVE  /\ task'[d] \in [todo: T, ok: BOOLEAN, alone: BOOLEAN] /\ call'[d] \in CallRecord
             /\ task'[d].todo = <<>> /\ task'[d].alone = task[d].alone /\ task'[d].ok = task[d].ok
             /\ call'[d].kind = call[d].kind /\ call'[d].from = call[d].from
             /\ call'[d].phase = IF call[d].phase = "idle" THEN "idle" ELSE "over"
  <2>1. task[d] \in [todo: T, ok: BOOLEAN, alone: BOOLEAN] /\ call[d] \in CallRecord
    BY DEF CallsAre
  <2>2. /\ task'[d] = [task[d] EXCEPT !.todo = <<>>]
        /\ call'[d] = IF call[d].phase = "idle" THEN call[d] ELSE [call[d] EXCEPT !.phase = "over"]
    BY <1>1
  <2> QED
    BY <2>1, <2>2 DEF CallRecord
<1>3. call' \in [Calls -> CallRecord] /\ task' \in [Calls -> [todo: T, ok: BOOLEAN, alone: BOOLEAN]]
  <2>1. \A d \in Calls : task'[d] \in [todo: T, ok: BOOLEAN, alone: BOOLEAN] /\ call'[d] \in CallRecord
    BY <1>2
  <2>2. call' = [d \in Calls |-> call'[d]] /\ task' = [d \in Calls |-> task'[d]]
    BY <1>1
  <2> QED
    BY <2>1, <2>2
<1> QED
  BY <1>1, <1>2, <1>3 DEF CallsAre

\* Beside a task that is alone no other of its channel runs.
Apart ==
    \A c, d \in Calls :
       /\ c # d /\ task[c].alone /\ call[c].phase # "idle" /\ call[d].phase # "idle"
       /\ Channel(call[c].kind) = Channel(call[d].kind)
       => ~Running(d)

\* A step in which no task begins.
LEMMA ApartKept ==
    ASSUME Apart,
           \A d \in Calls : /\ call'[d].kind = call[d].kind
                            /\ call'[d].phase # "idle" => call[d].phase # "idle"
                            /\ Running(d)' => Running(d)
                            /\ task'[d].alone /\ call[d].phase # "idle" => task[d].alone
    PROVE  Apart'
BY DEF Apart

\* A task begins: it is alone if no other of its channel runs, and no other stays alone.
LEMMA ApartAsked ==
    ASSUME NEW T, CallsAre(T), Apart, NEW c \in Calls, NEW kind \in Kinds, NEW plan \in T, Ask(c, kind, plan)
    PROVE  Apart'
<1>1. /\ call'[c] = [kind |-> kind, phase |-> "waits", from |-> NoCall]
      /\ task'[c].alone => \A d \in Calls : Mate(d, kind) => ~Running(d)
      /\ \A d \in Calls \ {c} : /\ call'[d] = call[d]
                                /\ task'[d].todo = task[d].todo
                                /\ task'[d].alone => task[d].alone /\ ~Mate(d, kind)
  BY Asked
<1> SUFFICES ASSUME NEW e \in Calls, NEW d \in Calls, e # d, task'[e].alone,
                    call'[e].phase # "idle", call'[d].phase # "idle",
                    Channel(call'[e].kind) = Channel(call'[d].kind)
             PROVE  ~Running(d)'
  BY DEF Apart, Channel
<1>2. call'[c].kind = kind
  BY <1>1
<1>3. CASE e = c
  BY <1>1, <1>2, <1>3 DEF Mate, Running
<1>4. CASE d = c
  BY <1>1, <1>2, <1>4 DEF Mate
<1>5. CASE e # c /\ d # c
  BY <1>1, <1>5 DEF Apart, Running
<1> QED
  BY <1>3, <1>4, <1>5

-----------------------------------------------------------------------------
(***************************************************************************)
(* The plans of updates.                                                   *)
(***************************************************************************)
\* What is left of a replacement, of its roll back, and of a download.
Forward ==
    IF Unix THEN {<<"look", "rename", "open", "fill", "permit">>, <<"rename", "open", "fill", "permit">>,
                  <<"open", "fill", "permit">>, <<"fill", "permit">>, <<"permit">>}
    ELSE {<<"look", "rename", "open", "fill">>, <<"rename", "open", "fill">>, <<"open", "fill">>, <<"fill">>}
Back == {<<"undo">>, <<"remove", "rollBack">>, <<"rollBack">>}
Fetching == {<<"release", "fetch">>, <<"fetch">>}
UpdatePlans == Forward \cup Back \cup Fetching \cup {<<>>}

\* The plans and what is done first of them.
LEMMA PlanHeads ==
    /\ \A p \in Forward : /\ p # <<>> /\ Head(p) \in {"look", "rename", "open", "fill", "permit"}
                          /\ p \notin Back \cup Fetching
    /\ \A p \in Back : p # <<>> /\ Head(p) \in {"undo", "remove", "rollBack"} /\ p \notin Fetching
    /\ \A p \in Fetching : p # <<>> /\ Head(p) \in {"release", "fetch"}
BY DEF Forward, Back, Fetching

\* What follows a step of a plan.
LEMMA PlanTails ==
    /\ \A p \in Forward :
          /\ Head(p) = "look" => /\ Tail(p) \in Forward /\ Head(Tail(p)) = "rename"
                                 /\ Tail(Tail(p)) \in Forward /\ Head(Tail(Tail(p))) = "open"
          /\ Head(p) = "rename" => Tail(p) \in Forward /\ Head(Tail(p)) = "open"
          /\ Head(p) = "open" => Tail(p) \in Forward /\ Head(Tail(p)) = "fill"
          /\ Head(p) = "fill" => IF Unix THEN Tail(p) \in Forward /\ Head(Tail(p)) = "permit" ELSE Tail(p) = <<>>
          /\ Head(p) = "permit" => Unix /\ Tail(p) = <<>>
    /\ \A p \in Back : Head(p) = "remove" => Tail(p) \in Back
    /\ \A p \in Fetching : Tail(p) \in Fetching \cup {<<>>}
<1>1. /\ Tail(<<"look", "rename", "open", "fill", "permit">>) = <<"rename", "open", "fill", "permit">>
      /\ Tail(<<"rename", "open", "fill", "permit">>) = <<"open", "fill", "permit">>
      /\ Tail(<<"open", "fill", "permit">>) = <<"fill", "permit">>
      /\ Tail(<<"fill", "permit">>) = <<"permit">>
      /\ Tail(<<"look", "rename", "open", "fill">>) = <<"rename", "open", "fill">>
      /\ Tail(<<"rename", "open", "fill">>) = <<"open", "fill">>
      /\ Tail(<<"open", "fill">>) = <<"fill">>
      /\ Tail(<<"remove", "rollBack">>) = <<"rollBack">>
      /\ Tail(<<"release", "fetch">>) = <<"fetch">>
  OBVIOUS
<1>2. /\ Tail(<<"permit">>) = <<>> /\ Tail(<<"fill">>) = <<>> /\ Tail(<<"fetch">>) = <<>>
  OBVIOUS
<1>3. /\ Head(<<"look", "rename", "open", "fill", "permit">>) = "look"
      /\ Head(<<"rename", "open", "fill", "permit">>) = "rename"
      /\ Head(<<"open", "fill", "permit">>) = "open"
      /\ Head(<<"fill", "permit">>) = "fill"
      /\ Head(<<"permit">>) = "permit"
  OBVIOUS
<1>4. /\ Head(<<"look", "rename", "open", "fill">>) = "look"
      /\ Head(<<"rename", "open", "fill">>) = "rename"
      /\ Head(<<"open", "fill">>) = "open"
      /\ Head(<<"fill">>) = "fill"
      /\ Head(<<"undo">>) = "undo"
      /\ Head(<<"remove", "rollBack">>) = "remove"
      /\ Head(<<"rollBack">>) = "rollBack"
  OBVIOUS
<1>5. ASSUME Unix, NEW p \in Forward
      PROVE  /\ Head(p) = "look" => /\ Tail(p) \in Forward /\ Head(Tail(p)) = "rename"
                                    /\ Tail(Tail(p)) \in Forward /\ Head(Tail(Tail(p))) = "open"
             /\ Head(p) = "rename" => Tail(p) \in Forward /\ Head(Tail(p)) = "open"
             /\ Head(p) = "open" => Tail(p) \in Forward /\ Head(Tail(p)) = "fill"
             /\ Head(p) = "fill" => Tail(p) \in Forward /\ Head(Tail(p)) = "permit"
             /\ Head(p) = "permit" => Tail(p) = <<>>
  BY <1>1, <1>2, <1>3, <1>5, Zenon DEF Forward
<1>6. ASSUME ~Unix, NEW p \in Forward
      PROVE  /\ Head(p) = "look" => /\ Tail(p) \in Forward /\ Head(Tail(p)) = "rename"
                                    /\ Tail(Tail(p)) \in Forward /\ Head(Tail(Tail(p))) = "open"
             /\ Head(p) = "rename" => Tail(p) \in Forward /\ Head(Tail(p)) = "open"
             /\ Head(p) = "open" => Tail(p) \in Forward /\ Head(Tail(p)) = "fill"
             /\ Head(p) = "fill" => Tail(p) = <<>>
             /\ Head(p) # "permit"
  BY <1>1, <1>2, <1>4, <1>6, Zenon DEF Forward
<1>7. \A p \in Back : Head(p) = "remove" => Tail(p) \in Back
  BY <1>1, <1>4, Zenon DEF Back
<1>8. \A p \in Fetching : Tail(p) \in Fetching \cup {<<>>}
  BY <1>1, <1>2, Zenon DEF Fetching
<1> QED
  BY <1>5, <1>6, <1>7, <1>8

\* A task does what it was asked for, when it was.
Plans ==
    /\ \A c \in Calls : call[c].phase = "idle" => task[c].todo = <<>>
    /\ \A c \in Calls : task[c].todo \in Forward \cup Back => call[c].kind = "replace"
    /\ \A c \in Calls : task[c].todo \in Fetching => call[c].kind = "download"

Types ==
    /\ CallsAre(UpdatePlans)
    /\ {core, backup} \subseteq Files \cup {NoFile}
    /\ whole \subseteq Files /\ exec \subseteq Files
    /\ fd \in [Calls -> Files \cup {NoFile}]
    /\ had \in [Calls -> Files \cup {NoFile}]
    /\ crowded \in BOOLEAN

\* Where a task is tells what it does.
LEMMA Positions ==
    ASSUME Types, Plans, NEW d \in Calls
    PROVE  /\ task[d].todo \in UpdatePlans
           /\ Doing(d, "look") \/ Doing(d, "rename") \/ Doing(d, "open") \/ Doing(d, "fill") \/ Doing(d, "permit")
                 => Replaces(d) /\ task[d].todo \in Forward
           /\ Doing(d, "undo") \/ Doing(d, "remove") \/ Doing(d, "rollBack")
                 => Replaces(d) /\ task[d].todo \in Back
           /\ Replaces(d) => task[d].todo \in Forward \cup Back
           /\ task[d].todo \in Forward \cup Back => Replaces(d)
<1>1. task[d].todo \in UpdatePlans
  BY DEF Types, CallsAre
<1> QED
  BY <1>1, PlanHeads DEF UpdatePlans, Plans, Replaces, Running, Doing

-----------------------------------------------------------------------------
(***************************************************************************)
(* Where the program that can be executed is while it is replaced.         *)
(***************************************************************************)
\* The file of a call that has not opened one is nowhere, and what is written is a file.
Unmade(c) == call[c].phase = "idle" \/ Doing(c, "look") \/ Doing(c, "rename") \/ Doing(c, "open")
Made ==
    /\ \A c \in Calls : Unmade(c) => c \notin whole /\ core # c /\ backup # c
    /\ \A c, d \in Calls : Unmade(c) => fd[d] # c
    /\ \A c \in Calls : Doing(c, "fill") => fd[c] \in Files

\* As long as nothing has gone wrong: when there is no core a replacement is about to make
\* it, what the core lacks a replacement is about to give it, and none is undone.
Pending ==
    faults = 0 =>
       /\ \A c \in Calls : task[c].todo \notin Back
       /\ core = NoFile => \E c \in Calls : Doing(c, "open")
       /\ core # NoFile /\ core \notin whole => \E c \in Calls : Doing(c, "fill") /\ fd[c] = core
       /\ core # NoFile /\ core \notin exec => Unix /\ \E c \in Calls : Doing(c, "fill") \/ Doing(c, "permit")

\* Where the two files are at each place of a replacement that is beside no other: the
\* core that it found stays in its place until it is renamed, then it is the backup,
\* unless two things have gone wrong.
Saved(c) == backup = had[c] /\ Usable(backup)
Place(c) ==
    /\ Doing(c, "look") \/ Doing(c, "rename") => had[c] = core
    /\ Doing(c, "look") \/ Doing(c, "rename") => (faults = 0 => Usable(core))
    /\ Doing(c, "rename") => core # NoFile
    /\ Doing(c, "open") => core = NoFile
    /\ Doing(c, "fill") => core = c /\ fd[c] = c /\ (~Unix => c \in exec)
    /\ Doing(c, "fill") => \A d \in Calls \ {c} : fd[d] # c
    /\ Doing(c, "permit") => core = c /\ c \in whole
    /\ (Doing(c, "open") \/ Doing(c, "fill") \/ Doing(c, "permit")) /\ faults = 0 => Saved(c)
    /\ task[c].todo \in Back /\ faults = 1 => Saved(c)
Lone ==
    ~crowded =>
       /\ \A c, d \in Calls : Replaces(c) /\ Replaces(d) => c = d
       /\ faults = 1 /\ ~Replacing => Restorable
       /\ \A c \in Calls : Replaces(c) => Place(c)

FilesInv == Types /\ Plans /\ Made /\ Pending /\ Lone

ReplaceInv ==
    /\ page \in {"backup", "update"}
    /\ page = "backup" => core = Original /\ Usable(core)
    /\ page = "update" => FilesInv

\* The action of ReplaceDoes.
ReplaceResult ==
    \A c \in Calls : (call[c].kind = "replace" /\ Sends(c) /\ ~crowded) =>
       IF task'[c].ok THEN core' = c /\ Usable(c)'
       ELSE faults' = 1 /\ ~Doing(c, "permit") => core' = had[c]

\* None of the files is none.
LEMMA NoFileIsNone == NoFile \notin Files /\ Original \in Files /\ Calls \subseteq Files /\ Original \notin Calls
BY UpdateAssumption DEF Files

LEMMA InvInit == JobsInit => ReplaceInv
<1> SUFFICES ASSUME JobsInit PROVE ReplaceInv
  OBVIOUS
<1>1. /\ core = Original /\ backup = NoFile /\ whole = {Original} /\ exec = {Original}
      /\ fd = [c \in Calls |-> NoFile] /\ had = [c \in Calls |-> core] /\ crowded = FALSE /\ faults = 0
      /\ call = [c \in Calls |-> [kind |-> "create", phase |-> "idle", from |-> NoCall]]
      /\ task = [c \in Calls |-> [todo |-> <<>>, ok |-> TRUE, alone |-> TRUE]]
      /\ mail = <<>>
  BY DEF JobsInit, UpdateInit, CallsInit
<1>2. CallsAre(UpdatePlans)
  <2>1. [kind |-> "create", phase |-> "idle", from |-> NoCall] \in CallRecord
    BY DEF CallRecord, Kinds
  <2> QED
    BY <1>1, <2>1 DEF CallsAre, UpdatePlans
<1>3. Types
  BY <1>1, <1>2, NoFileIsNone DEF Types
<1>4. \A c \in Calls : task[c].todo = <<>>
  BY <1>1
<1>5. Plans
  BY <1>4, PlanHeads DEF Plans
<1>6. \A c \in Calls : ~Replaces(c) /\ task[c].todo \notin Back
  BY <1>4, PlanHeads DEF Replaces, Running
<1>7. Usable(core)
  BY <1>1 DEF Usable
<1>8. Made
  <2>1. \A c \in Calls : ~Doing(c, "fill")
    BY <1>4 DEF Doing, Running
  <2> QED
    BY <1>1, <2>1, NoFileIsNone DEF Made
<1>9. Pending /\ Lone
  BY <1>1, <1>6, <1>7, NoFileIsNone DEF Pending, Lone, Usable
<1> QED
  BY <1>1, <1>3, <1>5, <1>7, <1>8, <1>9 DEF ReplaceInv, JobsInit, FilesInv

\* A step of a task of an update: where the tasks are after it.
LEMMA TaskMoves ==
    ASSUME CallsAre(UpdatePlans), Plans, NEW c \in Calls, NEW steps \in UpdatePlans, NEW ok \in BOOLEAN,
           GoTo(c, steps, ok), faults' \in Nat, Running(c),
           \/ steps = <<>>
           \/ steps \in Forward \cup Back /\ task[c].todo \in Forward \cup Back
           \/ steps \in Fetching /\ task[c].todo \in Fetching
    PROVE  /\ CallsAre(UpdatePlans)' /\ Plans' /\ call' = call
           /\ task'[c].todo = steps /\ task'[c].ok = ok
           /\ \A s : Doing(c, s)' <=> steps # <<>> /\ Head(steps) = s
           /\ Replaces(c)' <=> Replaces(c) /\ steps # <<>>
           /\ \A d \in Calls \ {c} :
                 /\ task'[d] = task[d]
                 /\ \A s : Doing(d, s)' <=> Doing(d, s)
                 /\ Replaces(d)' <=> Replaces(d)
                 /\ Unmade(d)' <=> Unmade(d)
           /\ \A d \in Calls : Sends(d) => d = c /\ steps = <<>>
<1>1. /\ CallsAre(UpdatePlans)' /\ call' = call
      /\ task'[c].todo = steps /\ task'[c].ok = ok
      /\ \A d \in Calls \ {c} : task'[d] = task[d]
  BY Gone
<1>2. \A s : Doing(c, s)' <=> steps # <<>> /\ Head(steps) = s
  BY <1>1 DEF Doing, Running
<1>3. \A d \in Calls \ {c} : /\ \A s : Doing(d, s)' <=> Doing(d, s)
                             /\ Replaces(d)' <=> Replaces(d)
                             /\ Unmade(d)' <=> Unmade(d)
  BY <1>1 DEF Doing, Replaces, Running, Unmade
<1>4. Plans'
  BY <1>1, PlanHeads DEF Plans, Running
<1>5. \A d \in Calls : Sends(d) => d = c /\ steps = <<>>
  BY <1>1 DEF Sends, Running
<1> QED
  BY <1>1, <1>2, <1>3, <1>4, <1>5 DEF Replaces, Running

\* What is left to show of a step of a replacement: its files, and, when it is beside no
\* other, its own place.
LEMMA ReplacingStep ==
    ASSUME FilesInv, NEW c \in Calls, Running(c), task[c].todo \in Forward \cup Back,
           NEW steps \in Forward \cup Back \cup {<<>>}, NEW ok \in BOOLEAN, GoTo(c, steps, ok), faults' \in Nat,
           UNCHANGED <<had, crowded>>,
           {core', backup'} \subseteq Files \cup {NoFile}, whole' \subseteq Files, exec' \subseteq Files,
           fd' \in [Calls -> Files \cup {NoFile}],
           Made', Pending',
           ~crowded /\ steps # <<>> => Place(c)',
           ~crowded /\ steps = <<>> => /\ faults' = 1 => Restorable'
                                       /\ IF ok THEN core' = c /\ Usable(c)'
                                          ELSE faults' = 1 /\ ~Doing(c, "permit") => core' = had[c]
    PROVE  FilesInv' /\ ReplaceResult
<1>1. steps \in UpdatePlans /\ Types /\ Plans /\ CallsAre(UpdatePlans)
  BY DEF UpdatePlans, FilesInv, Types
<1>2. /\ CallsAre(UpdatePlans)' /\ Plans' /\ call' = call
      /\ task'[c].todo = steps /\ task'[c].ok = ok
      /\ Replaces(c)' <=> Replaces(c) /\ steps # <<>>
      /\ \A d \in Calls \ {c} : Replaces(d)' <=> Replaces(d)
      /\ \A d \in Calls : Sends(d) => d = c /\ steps = <<>>
  BY <1>1, TaskMoves
<1>3. Types'
  BY <1>1, <1>2 DEF Types
<1>4. Replaces(c)
  BY <1>1, Positions
<1>5. ASSUME ~crowded PROVE \A d \in Calls \ {c} : ~Replaces(d)
  BY <1>4, <1>5 DEF FilesInv, Lone
<1>6. Lone'
  <2> SUFFICES ASSUME ~crowded
               PROVE  /\ \A d, e \in Calls : Replaces(d)' /\ Replaces(e)' => d = e
                      /\ faults' = 1 /\ ~Replacing' => Restorable'
                      /\ \A d \in Calls : Replaces(d)' => Place(d)'
    BY DEF Lone
  <2>1. \A d \in Calls \ {c} : ~Replaces(d)'
    BY <1>2, <1>5
  <2>2. ~Replacing' => steps = <<>>
    BY <1>2, <1>4 DEF Replacing
  <2> QED
    BY <1>2, <2>1, <2>2
<1>7. ReplaceResult
  BY <1>2 DEF ReplaceResult
<1> QED
  BY <1>2, <1>3, <1>6, <1>7 DEF FilesInv

\* A step that leaves the files and the replacements as they are.
LEMMA Aside ==
    ASSUME FilesInv, UNCHANGED <<filesVars, had, crowded>>, CallsAre(UpdatePlans)', Plans',
           faults' \in {faults, faults + 1},
           \A d \in Calls : /\ Unmade(d)' => Unmade(d)
                            /\ \A s \in {"look", "rename", "open", "fill", "permit"} : Doing(d, s)' <=> Doing(d, s)
                            /\ Replaces(d)' <=> Replaces(d)
                            /\ task'[d].todo \in Back <=> task[d].todo \in Back
    PROVE  FilesInv'
<1>1. faults \in Nat /\ Types
  BY DEF FilesInv, Types, CallsAre
<1>2. UNCHANGED core /\ UNCHANGED backup /\ UNCHANGED whole /\ UNCHANGED exec /\ UNCHANGED fd
  BY DEF filesVars
<1>3. Types'
  BY <1>1, <1>2 DEF Types
<1>4. Made'
  BY <1>2 DEF FilesInv, Made
<1>5. faults' = 0 => faults = 0
  BY <1>1
<1>6. Pending'
  BY <1>2, <1>5 DEF FilesInv, Pending
<1>7. Replacing' <=> Replacing
  BY DEF Replacing
<1>8. faults = 0 /\ ~Replacing => Usable(core)
  BY <1>1, Positions DEF FilesInv, Pending, Replacing, Usable
<1>9. Lone'
  <2> SUFFICES ASSUME ~crowded
               PROVE  /\ \A d, e \in Calls : Replaces(d)' /\ Replaces(e)' => d = e
                      /\ faults' = 1 /\ ~Replacing' => Restorable'
                      /\ \A d \in Calls : Replaces(d)' => Place(d)'
    BY DEF Lone
  <2>1. Lone /\ Pending
    BY DEF FilesInv
  <2>2. Restorable' <=> Restorable
    BY <1>2 DEF Restorable, Usable
  <2>3. faults' = 1 /\ ~Replacing' => Restorable'
    BY <1>1, <1>7, <1>8, <2>1, <2>2 DEF Lone, Restorable
  <2>4. ASSUME NEW d \in Calls, Replaces(d)' PROVE Place(d)'
    <3>1. Place(d)
      BY <2>1, <2>4 DEF Lone
    <3>2. task[d].todo \in Back /\ faults' = 1 => faults = 1
      BY <1>1, <2>1 DEF Pending
    <3> QED
      BY <1>2, <1>5, <3>1, <3>2 DEF Place, Saved, Usable
  <2> QED
    BY <2>1, <2>3, <2>4 DEF Lone
<1> QED
  BY <1>3, <1>4, <1>6, <1>9 DEF FilesInv

\* A file that exists is looked for.
LEMMA LookStep == ASSUME FilesInv, NEW c \in Calls, Look(c), UNCHANGED <<had, crowded>> PROVE FilesInv' /\ ReplaceResult
<1> DEFINE p == task[c].todo
           steps == IF core = NoFile THEN Tail(Tail(p)) ELSE Tail(p)
<1>1. Types /\ Plans /\ Made /\ Pending /\ Lone /\ CallsAre(UpdatePlans) /\ faults \in Nat
  BY DEF FilesInv, Types, CallsAre
<1>2. Running(c) /\ p \in Forward /\ Doing(c, "look") /\ Replaces(c)
  BY <1>1, Positions DEF Look, Doing
<1>3. /\ steps \in Forward /\ steps # <<>> /\ steps \in UpdatePlans /\ steps \notin Back
      /\ Head(steps) = IF core = NoFile THEN "open" ELSE "rename"
  BY <1>2, PlanHeads, PlanTails DEF Doing, UpdatePlans
<1>4. GoTo(c, steps, TRUE) /\ faults' = faults /\ UNCHANGED filesVars
  BY DEF Look
<1> HIDE DEF p, steps
<1>5. /\ call' = call /\ task'[c].todo = steps
      /\ \A s : Doing(c, s)' <=> Head(steps) = s
      /\ \A d \in Calls \ {c} : /\ task'[d] = task[d]
                                /\ \A s : Doing(d, s)' <=> Doing(d, s)
                                /\ Unmade(d)' <=> Unmade(d)
  BY <1>1, <1>2, <1>3, <1>4, TaskMoves DEF p
<1>6. UNCHANGED core /\ UNCHANGED backup /\ UNCHANGED whole /\ UNCHANGED exec /\ UNCHANGED fd
  BY <1>4 DEF filesVars
<1>7. ~Doing(c, "open") /\ ~Doing(c, "fill") /\ ~Doing(c, "permit") /\ Unmade(c)
  BY <1>2 DEF Doing, Unmade
<1>8. ~Doing(c, "fill")' /\ ~Doing(c, "permit")' /\ ~Doing(c, "look")'
  BY <1>3, <1>5
<1>9. Made'
  BY <1>1, <1>5, <1>6, <1>7, <1>8 DEF Made
<1>10. Pending'
  BY <1>1, <1>3, <1>4, <1>5, <1>6, <1>7, <1>8 DEF Pending
<1>11. ~crowded => Place(c)'
  <2> SUFFICES ASSUME ~crowded PROVE Place(c)'
    OBVIOUS
  <2>1. Place(c)
    BY <1>1, <1>2 DEF Lone
  <2>2. faults = 0 => core # NoFile
    BY <1>1, <1>2, <2>1, NoFileIsNone DEF Place, Usable, Types
  <2> QED
    BY <1>2, <1>3, <1>4, <1>5, <1>6, <1>8, <2>1, <2>2 DEF Place, Usable
<1> QED
  BY <1>1, <1>2, <1>3, <1>4, <1>6, <1>9, <1>10, <1>11, ReplacingStep DEF p, Types

\* The core is renamed.
LEMMA RenameStep == ASSUME FilesInv, NEW c \in Calls, Rename(c), UNCHANGED <<had, crowded>> PROVE FilesInv' /\ ReplaceResult
<1> DEFINE next == Tail(task[c].todo)
<1>1. Types /\ Plans /\ Made /\ Pending /\ Lone /\ CallsAre(UpdatePlans) /\ faults \in Nat
  BY DEF FilesInv, Types, CallsAre
<1>2. Running(c) /\ task[c].todo \in Forward /\ Doing(c, "rename") /\ Replaces(c)
  BY <1>1, Positions DEF Rename, Doing
<1>3. next \in Forward /\ next # <<>> /\ next \in UpdatePlans /\ next \notin Back /\ Head(next) = "open"
  BY <1>2, PlanHeads, PlanTails DEF Doing, UpdatePlans
<1>4. UNCHANGED whole /\ UNCHANGED exec /\ UNCHANGED fd /\ faults' = faults
  BY DEF Rename, StepDone, Refuse
<1>5. ~Doing(c, "open") /\ ~Doing(c, "fill") /\ ~Doing(c, "permit") /\ Unmade(c)
  BY <1>2 DEF Doing, Unmade
<1>6. <<>> \in UpdatePlans /\ <<>> \notin Back
  BY PlanHeads DEF UpdatePlans
<1> HIDE DEF next
<1>7. CASE core = NoFile
  <2>1. GoTo(c, <<>>, FALSE) /\ UNCHANGED core /\ UNCHANGED backup
    BY <1>7 DEF Rename, Refuse
  <2>2. /\ call' = call /\ task'[c].todo = <<>>
        /\ \A s : ~Doing(c, s)'
        /\ \A d \in Calls \ {c} : /\ task'[d] = task[d]
                                  /\ \A s : Doing(d, s)' <=> Doing(d, s)
                                  /\ Unmade(d)' <=> Unmade(d)
    BY <1>1, <1>2, <1>4, <1>6, <2>1, TaskMoves
  <2>3. Made'
    BY <1>1, <1>4, <1>5, <2>1, <2>2 DEF Made
  <2>4. Pending'
    BY <1>1, <1>4, <1>5, <1>6, <2>1, <2>2 DEF Pending
  <2>5. ~crowded => FALSE
    BY <1>1, <1>2, <1>7 DEF Lone, Place
  <2> QED
    BY <1>1, <1>2, <1>4, <2>1, <2>3, <2>4, <2>5, ReplacingStep DEF Types
<1>8. CASE core # NoFile
  <2>1. GoTo(c, next, TRUE) /\ core' = NoFile /\ backup' = core
    BY <1>8 DEF Rename, StepDone, next
  <2>2. /\ call' = call /\ task'[c].todo = next
        /\ \A s : Doing(c, s)' <=> s = "open"
        /\ \A d \in Calls \ {c} : /\ task'[d] = task[d]
                                  /\ \A s : Doing(d, s)' <=> Doing(d, s)
                                  /\ Unmade(d)' <=> Unmade(d)
    BY <1>1, <1>2, <1>3, <1>4, <2>1, TaskMoves
  <2>3. \A d \in Calls : d # NoFile
    BY NoFileIsNone
  <2>4. Made'
    BY <1>1, <1>4, <1>5, <2>1, <2>2, <2>3 DEF Made
  <2>5. Pending'
    BY <1>1, <1>3, <1>4, <2>1, <2>2 DEF Pending
  <2>6. ~crowded => Place(c)'
    <3> SUFFICES ASSUME ~crowded PROVE Place(c)'
      OBVIOUS
    <3>1. Place(c)
      BY <1>1, <1>2 DEF Lone
    <3> QED
      BY <1>2, <1>3, <1>4, <2>1, <2>2, <3>1 DEF Place, Saved, Usable
  <2> QED
    BY <1>1, <1>2, <1>3, <1>4, <2>1, <2>4, <2>5, <2>6, ReplacingStep DEF Types
<1> QED
  BY <1>7, <1>8

\* The file of the core is opened.
LEMMA OpenStep == ASSUME FilesInv, NEW c \in Calls, Open(c), UNCHANGED <<had, crowded>> PROVE FilesInv' /\ ReplaceResult
<1> DEFINE next == Tail(task[c].todo)
           made == core = NoFile
           f == IF made THEN c ELSE core
<1>1. Types /\ Plans /\ Made /\ Pending /\ Lone /\ CallsAre(UpdatePlans) /\ faults \in Nat
  BY DEF FilesInv, Types, CallsAre
<1>2. Running(c) /\ task[c].todo \in Forward /\ Doing(c, "open") /\ Replaces(c)
  BY <1>1, Positions DEF Open, Doing
<1>3. next \in Forward /\ next # <<>> /\ next \in UpdatePlans /\ next \notin Back /\ Head(next) = "fill"
  BY <1>2, PlanHeads, PlanTails DEF Doing, UpdatePlans
<1>4. /\ GoTo(c, next, TRUE) /\ faults' = faults /\ backup' = backup
      /\ core' = f /\ fd' = [fd EXCEPT ![c] = f] /\ whole' = whole \ {f}
      /\ exec' = IF made /\ ~Unix THEN exec \cup {f} ELSE exec
  BY DEF Open, StepDone
<1>5. f \in Files /\ f # NoFile /\ (f = c \/ f = core)
  BY <1>1, NoFileIsNone DEF Types
<1>6. fd'[c] = f /\ (\A d \in Calls \ {c} : fd'[d] = fd[d]) /\ fd' \in [Calls -> Files \cup {NoFile}]
  BY <1>1, <1>4, <1>5 DEF Types
<1>7. Unmade(c) /\ ~Doing(c, "fill") /\ ~Doing(c, "permit")
  BY <1>2 DEF Unmade, Doing
<1> HIDE DEF next, f
<1>8. /\ call' = call /\ task'[c].todo = next
      /\ \A s : Doing(c, s)' <=> s = "fill"
      /\ \A d \in Calls \ {c} : /\ task'[d] = task[d]
                                /\ \A s : Doing(d, s)' <=> Doing(d, s)
                                /\ Unmade(d)' <=> Unmade(d)
  BY <1>1, <1>2, <1>3, <1>4, TaskMoves
<1>9. ~Unmade(c)'
  <2>1. call[c].phase # "idle"
    BY <1>1, <1>2 DEF Plans, Running
  <2> QED
    BY <1>8, <2>1 DEF Unmade
<1>10. Made'
  <2>1. \A d \in Calls : Unmade(d)' => f # d
    BY <1>1, <1>5, <1>8, <1>9 DEF Made
  <2>2. ASSUME NEW d \in Calls, Unmade(d)' PROVE d \notin whole' /\ core' # d /\ backup' # d /\ \A e \in Calls : fd'[e] # d
    BY <1>1, <1>4, <1>6, <1>8, <1>9, <2>1, <2>2 DEF Made
  <2>3. \A d \in Calls : Doing(d, "fill")' => fd'[d] \in Files
    BY <1>1, <1>5, <1>6, <1>8 DEF Made
  <2> QED
    BY <2>2, <2>3 DEF Made
<1>11. Pending'
  <2> SUFFICES ASSUME faults = 0 PROVE Pending'
    BY <1>4 DEF Pending
  <2>1. core' \notin exec' => Unix
    BY <1>1, <1>4, <1>5 DEF Pending, f
  <2> QED
    BY <1>1, <1>3, <1>4, <1>5, <1>6, <1>8, <2>1 DEF Pending
<1>12. ~crowded => Place(c)'
  <2> SUFFICES ASSUME ~crowded PROVE Place(c)'
    OBVIOUS
  <2>1. Place(c)
    BY <1>1, <1>2 DEF Lone
  <2>2. core = NoFile /\ f = c
    BY <1>2, <2>1 DEF Place, f
  <2>3. c \notin whole
    BY <1>1, <1>7 DEF Made
  <2>4. faults = 0 => Saved(c)'
    BY <1>2, <1>4, <2>1, <2>2, <2>3 DEF Place, Saved, Usable
  <2>5. \A d \in Calls \ {c} : fd[d] # c
    BY <1>1, <1>7 DEF Made
  <2> QED
    BY <1>3, <1>4, <1>6, <1>8, <2>2, <2>4, <2>5 DEF Place
<1>13. whole' \subseteq Files /\ exec' \subseteq Files /\ {core', backup'} \subseteq Files \cup {NoFile}
  BY <1>1, <1>4, <1>5 DEF Types
<1> QED
  BY <1>1, <1>2, <1>3, <1>4, <1>6, <1>10, <1>11, <1>12, <1>13, ReplacingStep

\* The bytes are written.
LEMMA FillStep == ASSUME FilesInv, NEW c \in Calls, Fill(c), UNCHANGED <<had, crowded>> PROVE FilesInv' /\ ReplaceResult
<1> DEFINE next == Tail(task[c].todo)
<1>1. Types /\ Plans /\ Made /\ Pending /\ Lone /\ CallsAre(UpdatePlans) /\ faults \in Nat
  BY DEF FilesInv, Types, CallsAre
<1>2. Running(c) /\ task[c].todo \in Forward /\ Doing(c, "fill") /\ Replaces(c) /\ ~Doing(c, "permit")
  BY <1>1, Positions DEF Fill, Doing
<1>3. /\ next \in Forward \cup {<<>>} /\ next \in UpdatePlans /\ next \notin Back
      /\ next # <<>> <=> Unix
      /\ next # <<>> => Head(next) = "permit"
  BY <1>2, PlanHeads, PlanTails DEF Doing, UpdatePlans
<1>4. /\ GoTo(c, next, TRUE) /\ faults' = faults
      /\ UNCHANGED core /\ UNCHANGED backup /\ UNCHANGED exec /\ UNCHANGED fd
      /\ \/ whole' = whole \cup {fd[c]}
         \/ /\ \E d \in Calls \ {c} : fd[d] = fd[c] /\ (Doing(d, "fill") \/ faults > 0)
            /\ whole' = whole
  BY DEF Fill, StepDone
<1> HIDE DEF next
<1>5. /\ call' = call /\ task'[c].todo = next
      /\ \A s : Doing(c, s)' <=> next # <<>> /\ s = "permit"
      /\ \A d \in Calls \ {c} : /\ task'[d] = task[d]
                                /\ \A s : Doing(d, s)' <=> Doing(d, s)
                                /\ Unmade(d)' <=> Unmade(d)
  BY <1>1, <1>2, <1>3, <1>4, TaskMoves
<1>6. ~Unmade(c)'
  <2>1. call[c].phase # "idle"
    BY <1>1, <1>2 DEF Plans, Running
  <2> QED
    BY <1>5, <2>1 DEF Unmade
<1>7. fd[c] \in Files /\ whole' \subseteq Files /\ whole \subseteq whole' /\ whole' \subseteq whole \cup {fd[c]}
  BY <1>1, <1>2, <1>4 DEF Made, Types
<1>8. Made'
  BY <1>1, <1>4, <1>5, <1>6, <1>7 DEF Made
<1>9. Pending'
  <2> SUFFICES ASSUME faults = 0 PROVE Pending'
    BY <1>4 DEF Pending
  <2>1. \A d \in Calls : task'[d].todo \notin Back
    BY <1>1, <1>3, <1>5 DEF Pending
  <2>2. core = NoFile => \E d \in Calls : Doing(d, "open")'
    BY <1>1, <1>2, <1>5 DEF Pending, Doing
  <2>3. ASSUME core # NoFile, core \notin whole' PROVE \E d \in Calls : Doing(d, "fill")' /\ fd[d] = core
    <3>1. core \notin whole
      BY <1>7, <2>3
    <3>2. PICK d \in Calls : Doing(d, "fill") /\ fd[d] = core
      BY <1>1, <2>3, <3>1 DEF Pending
    <3>3. CASE d # c
      BY <1>5, <3>2, <3>3
    <3>4. CASE d = c
      <4>1. PICK e \in Calls \ {c} : fd[e] = fd[c] /\ Doing(e, "fill")
        BY <1>4, <2>3, <3>2, <3>4
      <4> QED
        BY <1>5, <3>2, <3>4, <4>1
    <3> QED
      BY <3>3, <3>4
  <2>4. ASSUME core # NoFile, core \notin exec
        PROVE  Unix /\ \E d \in Calls : Doing(d, "fill")' \/ Doing(d, "permit")'
    BY <1>1, <1>3, <1>5, <2>4 DEF Pending
  <2> QED
    BY <1>4, <2>1, <2>2, <2>3, <2>4 DEF Pending
<1>10. ASSUME ~crowded
       PROVE  /\ Place(c)
              /\ next # <<>> => Place(c)'
              /\ next = <<>> => core' = c /\ Usable(c)' /\ Restorable'
  <2>1. Place(c) /\ core = c /\ fd[c] = c /\ (~Unix => c \in exec) /\ \A d \in Calls \ {c} : fd[d] # c
    BY <1>1, <1>2, <1>10 DEF Lone, Place
  <2>2. c \in whole'
    BY <1>4, <2>1
  <2>3. faults = 0 => Saved(c)'
    BY <1>2, <1>4, <1>7, <2>1 DEF Place, Saved, Usable
  <2> QED
    BY <1>3, <1>4, <1>5, <2>1, <2>2, <2>3 DEF Place, Usable, Restorable
<1> QED
  BY <1>1, <1>2, <1>3, <1>4, <1>7, <1>8, <1>9, <1>10, ReplacingStep DEF Types

\* The core gets its permissions.
LEMMA PermitStep == ASSUME FilesInv, NEW c \in Calls, Permit(c), UNCHANGED <<had, crowded>> PROVE FilesInv' /\ ReplaceResult
<1>1. Types /\ Plans /\ Made /\ Pending /\ Lone /\ CallsAre(UpdatePlans) /\ faults \in Nat
  BY DEF FilesInv, Types, CallsAre
<1>2. Running(c) /\ task[c].todo \in Forward /\ Doing(c, "permit") /\ Replaces(c)
  BY <1>1, Positions DEF Permit, Doing
<1>3. Tail(task[c].todo) = <<>> /\ <<>> \in UpdatePlans /\ <<>> \notin Back
  BY <1>2, PlanHeads, PlanTails DEF Doing, UpdatePlans
<1>4. PICK ok \in BOOLEAN :
         /\ GoTo(c, <<>>, ok) /\ ok = (core # NoFile)
         /\ exec' = IF ok THEN exec \cup {core} ELSE exec
  BY <1>3 DEF Permit, StepDone, Refuse
<1>5. faults' = faults /\ UNCHANGED core /\ UNCHANGED backup /\ UNCHANGED whole /\ UNCHANGED fd
  BY DEF Permit, StepDone, Refuse
<1>6. /\ call' = call /\ task'[c].todo = <<>>
      /\ \A s : ~Doing(c, s)'
      /\ \A d \in Calls \ {c} : /\ task'[d] = task[d]
                                /\ \A s : Doing(d, s)' <=> Doing(d, s)
                                /\ Unmade(d)' <=> Unmade(d)
  BY <1>1, <1>2, <1>3, <1>4, <1>5, TaskMoves
<1>7. ~Unmade(c)' /\ ~Doing(c, "open") /\ ~Doing(c, "fill")
  <2>1. call[c].phase # "idle"
    BY <1>1, <1>2 DEF Plans, Running
  <2> QED
    BY <1>2, <1>6, <2>1 DEF Unmade, Doing
<1>8. Made'
  BY <1>1, <1>5, <1>6, <1>7 DEF Made
<1>9. core' # NoFile => core' \in exec'
  BY <1>4, <1>5
<1>10. Pending'
  BY <1>1, <1>3, <1>5, <1>6, <1>7, <1>9 DEF Pending
<1>11. exec' \subseteq Files
  BY <1>1, <1>4 DEF Types
<1>12. ASSUME ~crowded PROVE ok /\ core' = c /\ Usable(c)' /\ Restorable'
  <2>1. core = c /\ c \in whole
    BY <1>1, <1>2, <1>12 DEF Lone, Place
  <2> QED
    BY <1>4, <1>5, <2>1, NoFileIsNone DEF Usable, Restorable
<1> QED
  BY <1>1, <1>2, <1>4, <1>5, <1>8, <1>10, <1>11, <1>12, ReplacingStep DEF Types

\* A step that leaves the files, fails with something that goes wrong and is the first
\* of the roll back or the end.
LEMMA FailStep ==
    ASSUME FilesInv, NEW c \in Calls, Running(c), task[c].todo \in Forward \cup Back,
           NEW steps \in {<<"undo">>, <<>>}, GoTo(c, steps, FALSE), faults' = faults + 1,
           UNCHANGED <<filesVars, had, crowded>>,
           steps # <<>> => Doing(c, "open") \/ Doing(c, "fill"),
           steps = <<>> => Doing(c, "rename") \/ Doing(c, "permit") \/ Doing(c, "rollBack")
    PROVE  FilesInv' /\ ReplaceResult
<1>1. Types /\ Plans /\ Made /\ Pending /\ Lone /\ CallsAre(UpdatePlans) /\ faults \in Nat
  BY DEF FilesInv, Types, CallsAre
<1>2. UNCHANGED core /\ UNCHANGED backup /\ UNCHANGED whole /\ UNCHANGED exec /\ UNCHANGED fd
  BY DEF filesVars
<1>3. /\ steps \in UpdatePlans /\ steps \in Back \cup {<<>>} /\ faults' \in Nat /\ faults' # 0
      /\ <<"undo">> # <<>> /\ Head(<<"undo">>) = "undo"
  BY <1>1 DEF UpdatePlans, Back
<1>4. Replaces(c) /\ call[c].phase # "idle"
  BY <1>1, Positions DEF Plans, Running
<1>5. /\ call' = call /\ task'[c].todo = steps
      /\ \A s : Doing(c, s)' => s = "undo"
      /\ \A d \in Calls \ {c} : /\ task'[d] = task[d]
                                /\ \A s : Doing(d, s)' <=> Doing(d, s)
                                /\ Unmade(d)' <=> Unmade(d)
  BY <1>1, <1>3, TaskMoves
<1>6. ~Unmade(c)'
  BY <1>4, <1>5 DEF Unmade
<1>7. Made'
  BY <1>1, <1>2, <1>5, <1>6 DEF Made
<1>8. Pending'
  BY <1>3 DEF Pending
<1>9. ASSUME ~crowded
      PROVE  /\ steps # <<>> => Place(c)'
             /\ steps = <<>> /\ faults' = 1 => Restorable' /\ (~Doing(c, "permit") => core' = had[c])
  <2>1. Place(c)
    BY <1>1, <1>4, <1>9 DEF Lone
  <2>2. ASSUME faults' = 1 PROVE faults = 0 /\ task[c].todo \notin Back
    BY <1>1, <2>2 DEF Pending
  <2>3. faults' = 1 => ~Doing(c, "rollBack")
    BY <1>1, <2>2, Positions
  <2>4. steps # <<>> /\ faults' = 1 => Saved(c)'
    BY <1>2, <2>1, <2>2 DEF Place, Saved, Usable
  <2>5. steps # <<>> => Place(c)'
    BY <1>5, <2>4 DEF Place
  <2>6. steps = <<>> /\ faults' = 1 => Restorable' /\ (~Doing(c, "permit") => core' = had[c])
    BY <1>2, <2>1, <2>2, <2>3 DEF Place, Saved, Usable, Restorable
  <2> QED
    BY <2>5, <2>6
<1> QED
  BY <1>1, <1>2, <1>3, <1>7, <1>8, <1>9, ReplacingStep DEF Types

\* The roll back: the looks before it, the removal and the renaming.
LEMMA UndoStep == ASSUME FilesInv, NEW c \in Calls, Undo(c), UNCHANGED <<had, crowded>> PROVE FilesInv' /\ ReplaceResult
<1> DEFINE steps == IF backup = NoFile THEN <<>> ELSE IF core = NoFile THEN <<"rollBack">> ELSE <<"remove", "rollBack">>
<1>1. Types /\ Plans /\ Made /\ Pending /\ Lone /\ CallsAre(UpdatePlans) /\ faults \in Nat
  BY DEF FilesInv, Types, CallsAre
<1>2. Running(c) /\ task[c].todo \in Back /\ Replaces(c) /\ call[c].phase # "idle"
  BY <1>1, Positions DEF Undo, Doing, Plans, Running
<1>3. /\ steps \in Back \cup {<<>>} /\ steps \in UpdatePlans
      /\ steps = <<>> <=> backup = NoFile
      /\ steps # <<>> => Head(steps) \in {"remove", "rollBack"}
  BY DEF Back, UpdatePlans
<1>4. GoTo(c, steps, FALSE) /\ faults' = faults /\ UNCHANGED filesVars
  BY DEF Undo
<1> HIDE DEF steps
<1>5. UNCHANGED core /\ UNCHANGED backup /\ UNCHANGED whole /\ UNCHANGED exec /\ UNCHANGED fd
  BY <1>4 DEF filesVars
<1>6. /\ call' = call /\ task'[c].todo = steps
      /\ \A s : Doing(c, s)' => s \in {"remove", "rollBack"}
      /\ \A d \in Calls \ {c} : /\ task'[d] = task[d]
                                /\ \A s : Doing(d, s)' <=> Doing(d, s)
                                /\ Unmade(d)' <=> Unmade(d)
  BY <1>1, <1>2, <1>3, <1>4, TaskMoves
<1>7. Made'
  BY <1>1, <1>2, <1>5, <1>6 DEF Made, Unmade
<1>8. faults # 0
  BY <1>1, <1>2 DEF Pending
<1>9. Pending'
  BY <1>4, <1>8 DEF Pending
<1>10. ASSUME ~crowded PROVE Place(c)' /\ (steps = <<>> => faults # 1)
  <2>1. Place(c)
    BY <1>1, <1>2, <1>10 DEF Lone
  <2>2. faults = 1 => Saved(c) /\ backup # NoFile
    BY <1>1, <1>2, <2>1, NoFileIsNone DEF Place, Saved, Usable, Types
  <2>3. faults = 1 => Saved(c)'
    BY <1>5, <2>2 DEF Saved, Usable
  <2> QED
    BY <1>3, <1>4, <1>6, <2>2, <2>3 DEF Place
<1> QED
  BY <1>1, <1>2, <1>3, <1>4, <1>5, <1>7, <1>8, <1>9, <1>10, ReplacingStep DEF Types

LEMMA RemoveStep == ASSUME FilesInv, NEW c \in Calls, RemovePart(c), UNCHANGED <<had, crowded>> PROVE FilesInv' /\ ReplaceResult
<1> DEFINE next == Tail(task[c].todo)
<1>1. Types /\ Plans /\ Made /\ Pending /\ Lone /\ CallsAre(UpdatePlans) /\ faults \in Nat
  BY DEF FilesInv, Types, CallsAre
<1>2. Running(c) /\ task[c].todo \in Back /\ Replaces(c) /\ call[c].phase # "idle"
  BY <1>1, Positions DEF RemovePart, Doing, Plans, Running
<1>3. next \in Back /\ next \in UpdatePlans /\ next # <<>> /\ Head(next) \in {"undo", "remove", "rollBack"}
  BY <1>2, PlanHeads, PlanTails DEF RemovePart, Doing, UpdatePlans
<1>4. /\ GoTo(c, next, FALSE) /\ faults' \in {faults, faults + 1}
      /\ core' \in {core, NoFile} /\ UNCHANGED backup /\ UNCHANGED whole /\ UNCHANGED exec /\ UNCHANGED fd
  BY DEF RemovePart, Breaks
<1> HIDE DEF next
<1>5. faults # 0 /\ faults' \in Nat /\ faults' # 0 /\ (faults' = 1 => faults = 1)
  BY <1>1, <1>2, <1>4 DEF Pending
<1>6. /\ call' = call /\ task'[c].todo = next
      /\ \A s : Doing(c, s)' => s \in {"undo", "remove", "rollBack"}
      /\ \A d \in Calls \ {c} : /\ task'[d] = task[d]
                                /\ \A s : Doing(d, s)' <=> Doing(d, s)
                                /\ Unmade(d)' <=> Unmade(d)
  BY <1>1, <1>2, <1>3, <1>4, <1>5, TaskMoves
<1>7. \A d \in Calls : d # NoFile
  BY NoFileIsNone
<1>8. Made'
  BY <1>1, <1>2, <1>4, <1>6, <1>7 DEF Made, Unmade
<1>9. Pending'
  BY <1>5 DEF Pending
<1>10. ASSUME ~crowded PROVE Place(c)'
  <2>1. Place(c)
    BY <1>1, <1>2, <1>10 DEF Lone
  <2>2. faults' = 1 => Saved(c)'
    BY <1>2, <1>4, <1>5, <2>1 DEF Place, Saved, Usable
  <2> QED
    BY <1>6, <2>2 DEF Place
<1> QED
  BY <1>1, <1>2, <1>3, <1>4, <1>5, <1>8, <1>9, <1>10, ReplacingStep DEF Types

LEMMA RollBackStep == ASSUME FilesInv, NEW c \in Calls, RollBack(c), UNCHANGED <<had, crowded>> PROVE FilesInv' /\ ReplaceResult
<1>1. Types /\ Plans /\ Made /\ Pending /\ Lone /\ CallsAre(UpdatePlans) /\ faults \in Nat
  BY DEF FilesInv, Types, CallsAre
<1>2. Running(c) /\ task[c].todo \in Back /\ Replaces(c) /\ call[c].phase # "idle"
  BY <1>1, Positions DEF RollBack, Doing, Plans, Running
<1>3. /\ GoTo(c, <<>>, FALSE) /\ faults' = faults
      /\ IF backup = NoFile THEN core' = core /\ backup' = backup ELSE core' = backup /\ backup' = NoFile
      /\ UNCHANGED whole /\ UNCHANGED exec /\ UNCHANGED fd
  BY DEF RollBack, Refuse
<1>4. faults # 0 /\ <<>> \in UpdatePlans
  BY <1>1, <1>2 DEF Pending, UpdatePlans
<1>5. /\ call' = call /\ \A s : ~Doing(c, s)'
      /\ \A d \in Calls \ {c} : /\ task'[d] = task[d]
                                /\ \A s : Doing(d, s)' <=> Doing(d, s)
                                /\ Unmade(d)' <=> Unmade(d)
  BY <1>1, <1>2, <1>3, <1>4, TaskMoves
<1>6. \A d \in Calls : d # NoFile
  BY NoFileIsNone
<1>7. Made'
  BY <1>1, <1>2, <1>3, <1>5, <1>6 DEF Made, Unmade
<1>8. Pending'
  BY <1>3, <1>4 DEF Pending
<1>9. ASSUME ~crowded, faults = 1 PROVE Restorable' /\ core' = had[c]
  <2>1. Place(c)
    BY <1>1, <1>2, <1>9 DEF Lone
  <2>2. backup = had[c] /\ Usable(backup) /\ backup # NoFile
    BY <1>1, <1>2, <1>9, <2>1, NoFileIsNone DEF Place, Saved, Usable, Types
  <2> QED
    BY <1>3, <2>2 DEF Restorable, Usable
<1> QED
  BY <1>1, <1>2, <1>3, <1>7, <1>8, <1>9, ReplacingStep DEF Types

\* The steps of a replacement.
LEMMA ReplaceStep == ASSUME FilesInv, NEW c \in Calls, Replace(c) PROVE FilesInv' /\ ReplaceResult
<1>1. UNCHANGED <<had, crowded>> /\ Types /\ Plans
  BY DEF Replace, FilesInv
<1>2. CASE WriteBreaks(c)
  <2>1. /\ Running(c) /\ (Doing(c, "open") \/ Doing(c, "fill")) /\ faults' = faults + 1
        /\ GoTo(c, <<"undo">>, FALSE) /\ UNCHANGED filesVars
    BY <1>2 DEF WriteBreaks, Breaks, Doing
  <2>2. task[c].todo \in Forward \cup Back /\ <<"undo">> # <<>>
    BY <1>1, <2>1, Positions
  <2> QED
    BY <1>1, <2>1, <2>2, FailStep
<1>3. CASE ReplaceFails(c)
  <2>1. /\ Running(c) /\ (Doing(c, "rename") \/ Doing(c, "permit") \/ Doing(c, "rollBack")) /\ faults' = faults + 1
        /\ GoTo(c, <<>>, FALSE) /\ UNCHANGED filesVars
    BY <1>3 DEF ReplaceFails, StepBreaks, Breaks, Doing
  <2>2. task[c].todo \in Forward \cup Back
    BY <1>1, <2>1, Positions
  <2> QED
    BY <1>1, <2>1, <2>2, FailStep
<1> QED
  BY <1>1, <1>2, <1>3, LookStep, RenameStep, OpenStep, FillStep, PermitStep, UndoStep, RemoveStep, RollBackStep DEF Replace

\* The steps of a download, which leave the files.
LEMMA DownloadStep == ASSUME FilesInv, NEW c \in Calls, Download(c) PROVE FilesInv'
<1>1. Types /\ Plans /\ CallsAre(UpdatePlans) /\ faults \in Nat
  BY DEF FilesInv, Types, CallsAre
<1>2. task[c].todo \in Fetching /\ Running(c) /\ call[c].kind = "download" /\ call[c].phase # "idle"
  <2>1. task[c].todo \in UpdatePlans /\ Running(c) /\ Head(task[c].todo) \in {"release", "fetch"}
    BY <1>1, Positions DEF Download, GetRelease, Fetch, Extract, DownloadFails, Doing
  <2> QED
    BY <1>1, <2>1, PlanHeads DEF UpdatePlans, Plans, Running
<1>3. PICK steps \in {Tail(task[c].todo), task[c].todo, <<>>}, ok \in BOOLEAN :
         GoTo(c, steps, ok) /\ faults' \in {faults, faults + 1}
  BY DEF Download, GetRelease, Fetch, Extract, DownloadFails, StepDone, Refuse, StepBreaks, Breaks
<1>4. steps \in Fetching \cup {<<>>} /\ steps \in UpdatePlans /\ faults' \in Nat
  <2>1. Tail(task[c].todo) \in Fetching \cup {<<>>}
    BY <1>2, PlanTails
  <2>2. steps \in Fetching \cup {<<>>}
    BY <1>2, <1>3, <2>1
  <2>3. faults' \in Nat
    BY <1>1, <1>3
  <2> QED
    BY <2>2, <2>3 DEF UpdatePlans
<1>5. /\ CallsAre(UpdatePlans)' /\ Plans' /\ call' = call /\ task'[c].todo = steps
      /\ \A s : Doing(c, s)' <=> steps # <<>> /\ Head(steps) = s
      /\ Replaces(c)' <=> Replaces(c) /\ steps # <<>>
      /\ \A d \in Calls \ {c} : /\ task'[d] = task[d]
                                /\ \A s : Doing(d, s)' <=> Doing(d, s)
                                /\ Replaces(d)' <=> Replaces(d)
                                /\ Unmade(d)' <=> Unmade(d)
  BY <1>1, <1>2, <1>3, <1>4, TaskMoves
<1>6. ~Replaces(c) /\ task[c].todo \notin Back /\ steps \notin Back
  BY <1>2, <1>4, PlanHeads DEF Replaces
<1>7. \A s \in {"look", "rename", "open", "fill", "permit"} : ~Doing(c, s)' /\ ~Doing(c, s)
  BY <1>2, <1>4, <1>5, PlanHeads DEF Doing
<1>8. ~Unmade(c)'
  BY <1>2, <1>5, <1>7 DEF Unmade
<1> QED
  BY <1>3, <1>5, <1>6, <1>7, <1>8, Aside DEF Download

\* A download is asked for.
LEMMA AskDownloadStep == ASSUME FilesInv, NEW c \in Calls, AskDownload(c) PROVE FilesInv'
<1> DEFINE plan == <<"release", "fetch">>
<1>1. plan \in UpdatePlans /\ plan \in Fetching /\ plan # <<>> /\ Head(plan) = "release" /\ "download" \in Kinds
  BY DEF UpdatePlans, Fetching, Kinds
<1>2. Ask(c, "download", plan) /\ UNCHANGED <<filesVars, had, crowded>>
  BY DEF AskDownload, updateVars
<1> HIDE DEF plan
<1>3. Types /\ Plans /\ CallsAre(UpdatePlans)
  BY DEF FilesInv, Types
<1>4. /\ CallsAre(UpdatePlans)' /\ faults' = faults
      /\ call[c].phase = "idle" /\ call'[c] = [kind |-> "download", phase |-> "waits", from |-> NoCall]
      /\ task'[c].todo = plan
      /\ \A d \in Calls \ {c} : call'[d] = call[d] /\ task'[d].todo = task[d].todo
  BY <1>1, <1>2, <1>3, Asked
<1>5. call'[c].kind = "download" /\ call'[c].phase = "waits" /\ task[c].todo = <<>>
  BY <1>3, <1>4 DEF Plans
<1>6. Plans'
  BY <1>1, <1>3, <1>4, <1>5, PlanHeads DEF Plans
<1>7. /\ \A s \in {"look", "rename", "open", "fill", "permit"} : ~Doing(c, s)' /\ ~Doing(c, s)
      /\ ~Replaces(c) /\ ~Replaces(c)' /\ ~Unmade(c)' /\ task[c].todo \notin Back /\ task'[c].todo \notin Back
  BY <1>1, <1>4, <1>5, PlanHeads DEF Doing, Running, Replaces, Unmade
<1>8. \A d \in Calls \ {c} : /\ \A s : Doing(d, s)' <=> Doing(d, s)
                             /\ Replaces(d)' <=> Replaces(d)
                             /\ Unmade(d)' <=> Unmade(d)
                             /\ task'[d].todo \in Back <=> task[d].todo \in Back
  BY <1>4 DEF Doing, Running, Replaces, Unmade
<1> QED
  BY <1>2, <1>4, <1>6, <1>7, <1>8, Aside

\* A replacement is asked for.
LEMMA AskReplaceStep == ASSUME FilesInv, NEW c \in Calls, AskReplace(c) PROVE FilesInv'
<1> DEFINE plan == IF Unix THEN <<"look", "rename", "open", "fill", "permit">> ELSE <<"look", "rename", "open", "fill">>
<1>1. plan \in Forward /\ Head(plan) = "look" /\ "replace" \in Kinds
  <2>1. plan \in Forward
    BY DEF Forward
  <2>2. /\ Head(<<"look", "rename", "open", "fill", "permit">>) = "look"
        /\ Head(<<"look", "rename", "open", "fill">>) = "look"
    OBVIOUS
  <2> QED
    BY <2>1, <2>2, Zenon DEF Kinds
<1>2. Ask(c, "replace", plan) /\ had' = [had EXCEPT ![c] = core] /\ crowded' = Replacing /\ UNCHANGED filesVars
  BY DEF AskReplace
<1> HIDE DEF plan
<1>3. Types /\ Plans /\ Made /\ Pending /\ Lone /\ CallsAre(UpdatePlans) /\ plan \in UpdatePlans /\ plan \notin Back /\ plan # <<>>
  BY <1>1, PlanHeads DEF FilesInv, Types, UpdatePlans
<1>4. /\ CallsAre(UpdatePlans)' /\ faults' = faults
      /\ call[c].phase = "idle" /\ call'[c] = [kind |-> "replace", phase |-> "waits", from |-> NoCall]
      /\ task'[c].todo = plan
      /\ \A d \in Calls \ {c} : call'[d] = call[d] /\ task'[d].todo = task[d].todo
  BY <1>1, <1>2, <1>3, Asked
<1>5. call'[c].kind = "replace" /\ call'[c].phase = "waits" /\ task[c].todo = <<>>
  BY <1>3, <1>4 DEF Plans
<1>6. Plans'
  BY <1>1, <1>3, <1>4, <1>5, PlanHeads DEF Plans
<1>7. /\ \A s : Doing(c, s)' <=> s = "look"
      /\ \A s : ~Doing(c, s)
      /\ Replaces(c)' /\ ~Replaces(c) /\ Unmade(c)
  BY <1>1, <1>3, <1>4, <1>5 DEF Doing, Running, Replaces, Unmade
<1>8. \A d \in Calls \ {c} : /\ \A s : Doing(d, s)' <=> Doing(d, s)
                             /\ Replaces(d)' <=> Replaces(d)
                             /\ Unmade(d)' <=> Unmade(d)
  BY <1>4 DEF Doing, Running, Replaces, Unmade
<1>9. UNCHANGED core /\ UNCHANGED backup /\ UNCHANGED whole /\ UNCHANGED exec /\ UNCHANGED fd
  BY <1>2 DEF filesVars
<1>10. had'[c] = core /\ had' \in [Calls -> Files \cup {NoFile}]
  BY <1>2, <1>3 DEF Types
<1>11. Types'
  <2>1. Replacing \in BOOLEAN
    BY DEF Replacing
  <2> QED
    BY <1>2, <1>3, <1>4, <1>9, <1>10, <2>1 DEF Types
<1>12. Made'
  BY <1>3, <1>7, <1>8, <1>9 DEF Made
<1>13. Pending'
  BY <1>3, <1>4, <1>7, <1>8, <1>9 DEF Pending
<1>14. Lone'
  <2> SUFFICES ASSUME ~crowded'
               PROVE  /\ \A d, e \in Calls : Replaces(d)' /\ Replaces(e)' => d = e
                      /\ faults' = 1 /\ ~Replacing' => Restorable'
                      /\ \A d \in Calls : Replaces(d)' => Place(d)'
    BY DEF Lone
  <2>1. \A d \in Calls : ~Replaces(d)
    BY <1>2 DEF Replacing
  <2>2. Replacing' /\ \A d \in Calls : Replaces(d)' => d = c
    BY <1>7, <1>8, <2>1 DEF Replacing
  <2>3. faults = 0 => Usable(core)
    BY <1>3, <2>1, Positions DEF Pending, Usable
  <2>4. Place(c)'
    BY <1>3, <1>4, <1>7, <1>9, <1>10, <2>3 DEF Place, Usable
  <2> QED
    BY <2>2, <2>4
<1> QED
  BY <1>6, <1>11, <1>12, <1>13, <1>14 DEF FilesInv

\* A result that is taken, or not waited for any more, changes no task.
LEMMA ResultStep ==
    ASSUME FilesInv, Deliver \/ (\E c \in Calls : TimeOut(c)), UNCHANGED <<filesVars, had, crowded>>
    PROVE  FilesInv'
<1>1. Types /\ Plans /\ CallsAre(UpdatePlans)
  BY DEF FilesInv, Types
<1>2. /\ CallsAre(UpdatePlans)' /\ UNCHANGED <<task, faults>>
      /\ \A d \in Calls : call'[d].kind = call[d].kind /\ (call'[d].phase = "idle" <=> call[d].phase = "idle")
  <2>1. CASE Deliver
    <3>1. \A d \in Calls : \/ call'[d] = call[d]
                           \/ Waits(d) /\ call'[d].kind = call[d].kind /\ call'[d].phase = "answered"
      BY <1>1, <2>1, Delivered
    <3> QED
      BY <1>1, <2>1, <3>1, Delivered DEF Waits
  <2>2. ASSUME NEW c \in Calls, TimeOut(c)
        PROVE  /\ CallsAre(UpdatePlans)' /\ UNCHANGED <<task, faults>>
               /\ \A d \in Calls : call'[d].kind = call[d].kind /\ (call'[d].phase = "idle" <=> call[d].phase = "idle")
    BY <1>1, <2>2, Limited DEF Waits
  <2> QED
    BY <2>1, <2>2
<1>3. Plans'
  BY <1>1, <1>2 DEF Plans
<1>4. \A d \in Calls : /\ \A s : Doing(d, s)' <=> Doing(d, s)
                       /\ Replaces(d)' <=> Replaces(d)
                       /\ Unmade(d)' <=> Unmade(d)
  BY <1>2 DEF Doing, Running, Replaces, Unmade
<1> QED
  BY <1>2, <1>3, <1>4, Aside

\* The application is killed: what is in the middle is left there.
LEMMA KillStep ==
    ASSUME FilesInv, AppEnds, UNCHANGED <<filesVars, had, crowded>>
    PROVE  FilesInv'
<1>1. Types /\ Plans /\ Made /\ Pending /\ Lone /\ CallsAre(UpdatePlans) /\ faults \in Nat /\ <<>> \in UpdatePlans
  BY DEF FilesInv, Types, CallsAre, UpdatePlans
<1>2. /\ CallsAre(UpdatePlans)' /\ faults' = faults + 1
      /\ \A d \in Calls : task'[d].todo = <<>> /\ (call'[d].phase = "idle" => call[d].phase = "idle")
  BY <1>1, Killed
<1>3. UNCHANGED core /\ UNCHANGED backup /\ UNCHANGED whole /\ UNCHANGED exec /\ UNCHANGED fd
  BY DEF filesVars
<1>4. \A d \in Calls : /\ \A s : ~Doing(d, s)'
                       /\ ~Replaces(d)'
                       /\ Unmade(d)' => Unmade(d)
  BY <1>2 DEF Doing, Running, Replaces, Unmade
<1>5. Types' /\ Plans'
  BY <1>1, <1>2, <1>3, PlanHeads DEF Types, Plans
<1>6. Made'
  BY <1>1, <1>3, <1>4 DEF Made
<1>7. Pending'
  BY <1>1, <1>2 DEF Pending
<1>8. ASSUME ~crowded, faults = 0 PROVE Restorable
  <2>1. ASSUME NEW c \in Calls, Replaces(c) PROVE Restorable
    <3>1. Place(c) /\ task[c].todo \in Forward
      BY <1>1, <1>8, <2>1, Positions DEF Lone, Pending
    <3>2. Doing(c, "look") \/ Doing(c, "rename") \/ Doing(c, "open") \/ Doing(c, "fill") \/ Doing(c, "permit")
      BY <2>1, <3>1, PlanHeads DEF Doing, Replaces
    <3> QED
      BY <1>8, <3>1, <3>2 DEF Place, Saved, Restorable
  <2>2. ASSUME \A c \in Calls : ~Replaces(c) PROVE Restorable
    BY <1>1, <1>8, <2>2, Positions DEF Pending, Usable, Restorable
  <2> QED
    BY <2>1, <2>2
<1>9. Lone'
  BY <1>1, <1>2, <1>3, <1>4, <1>8 DEF Lone, Restorable, Usable
<1> QED
  BY <1>5, <1>6, <1>7, <1>9 DEF FilesInv

LEMMA InvStep == ReplaceInv /\ [JobsNext]_jobsVars => ReplaceInv'
<1> SUFFICES ASSUME ReplaceInv, [JobsNext]_jobsVars PROVE ReplaceInv'
  OBVIOUS
<1>1. page' = page
  BY DEF JobsNext, Limit, jobsVars
<1>2. CASE page = "backup"
  <2>1. core' = core /\ whole' = whole /\ exec' = exec
    BY <1>2 DEF JobsNext, BackupStep, UpdateStep, Limit, updateVars, filesVars, jobsVars
  <2> QED
    BY <1>1, <1>2, <2>1 DEF ReplaceInv, Usable
<1>3. CASE page = "update"
  <2>1. FilesInv
    BY <1>3 DEF ReplaceInv
  <2>2. ASSUME NEW c \in Calls, AskDownload(c) \/ AskReplace(c) \/ UpdateTask(c) PROVE FilesInv'
    BY <2>1, <2>2, AskDownloadStep, AskReplaceStep, DownloadStep, ReplaceStep DEF UpdateTask
  <2>3. ASSUME AppEnds /\ UNCHANGED updateVars PROVE FilesInv'
    BY <2>1, <2>3, KillStep DEF updateVars
  <2>4. ASSUME (Deliver \/ \E c \in Calls : TimeOut(c)) /\ UNCHANGED updateVars PROVE FilesInv'
    BY <2>1, <2>4, ResultStep DEF updateVars
  <2>5. ASSUME UNCHANGED jobsVars PROVE FilesInv'
    <3>1. /\ UNCHANGED <<call, task, mail, faults, core, backup, whole, exec, fd, had, crowded>>
      BY <2>5 DEF jobsVars, callVars, updateVars, filesVars
    <3>2. Types' /\ Plans'
      BY <2>1, <3>1 DEF FilesInv, Types, CallsAre, Plans
    <3>3. \A d \in Calls : /\ \A s : Doing(d, s)' <=> Doing(d, s)
                           /\ Replaces(d)' <=> Replaces(d)
                           /\ Unmade(d)' <=> Unmade(d)
      BY <3>1 DEF Doing, Running, Replaces, Unmade
    <3> QED
      BY <2>1, <3>1, <3>2, <3>3, Aside DEF Types, filesVars
  <2>6. FilesInv'
    BY <1>3, <2>2, <2>3, <2>4, <2>5 DEF JobsNext, BackupStep, UpdateStep, Limit
  <2> QED
    BY <1>1, <1>3, <2>6 DEF ReplaceInv
<1> QED
  BY <1>2, <1>3 DEF ReplaceInv

-----------------------------------------------------------------------------
(***************************************************************************)
(* What an update says: the asset of a download, and the program of before *)
(* a replacement.                                                          *)
(***************************************************************************)
\* The calls that were made are updates.
OfUpdates == \A c \in Calls : call[c].phase # "idle" => call[c].kind \in {"download", "replace"}

\* A call that has not begun, or still looks for a release, has nothing; what is
\* fetched is for this platform.
Fresh(c) == call[c].phase = "idle" \/ task[c].todo = <<"release", "fetch">>
Nothing == [asset |-> Foreign, read |-> 0]
GotRecord == [asset: Assets, read: 0..MaxChunks]
Chosen ==
    /\ got \in [Calls -> GotRecord]
    /\ \A c \in Calls : /\ Fresh(c) => got[c] = Nothing
                        /\ task[c].todo = <<"fetch">> => got[c].asset.fits

UpdatesInv ==
    /\ ReplaceInv
    /\ page = "update" => OfUpdates /\ Chosen

\* The action of DownloadDoes.
DownloadResult ==
    \A c \in Calls : (call[c].kind = "download" /\ Sends(c)) =>
       IF task'[c].ok
       THEN got[c].asset \in {GzFile, ZipFile} /\ got[c].read = MaxChunks
       ELSE faults' > 0 \/ got[c].asset \notin {GzFile, ZipFile}

UpdateBefore == FilesInv /\ OfUpdates /\ Chosen
UpdateAfter == OfUpdates' /\ Chosen' /\ DownloadResult /\ ReplaceResult

\* A step that leaves what was got, and what is left of every download.
LEMMA ChosenAside ==
    ASSUME UpdateBefore, got' = got,
           \A d \in Calls : /\ call'[d].kind = call[d].kind
                            /\ call'[d].phase = "idle" <=> call[d].phase = "idle"
                            /\ task'[d].todo \in Fetching => task'[d].todo = task[d].todo
    PROVE  OfUpdates' /\ Chosen'
<1>1. <<"release", "fetch">> \in Fetching /\ <<"fetch">> \in Fetching
  BY DEF Fetching
<1> QED
  BY <1>1 DEF UpdateBefore, OfUpdates, Chosen, Fresh

\* A step that sends nothing.
LEMMA NothingSent == ASSUME \A d \in Calls : ~Sends(d) PROVE DownloadResult /\ ReplaceResult
BY DEF DownloadResult, ReplaceResult

\* A download or a replacement is asked for.
LEMMA AskTells ==
    ASSUME UpdateBefore, NEW c \in Calls, AskDownload(c) \/ AskReplace(c)
    PROVE  UpdateAfter
<1>1. Plans /\ CallsAre(UpdatePlans)
  BY DEF UpdateBefore, FilesInv, Types
<1>2. PICK kind \in {"download", "replace"}, plan \in UpdatePlans :
         Ask(c, kind, plan) /\ plan # <<"fetch">> /\ plan # <<>>
  <2>1. CASE AskDownload(c)
    <3>1. <<"release", "fetch">> \in UpdatePlans /\ <<"release", "fetch">> # <<"fetch">>
      BY DEF UpdatePlans, Fetching
    <3> QED
      BY <2>1, <3>1 DEF AskDownload
  <2>2. CASE AskReplace(c)
    <3> DEFINE plan == IF Unix THEN <<"look", "rename", "open", "fill", "permit">> ELSE <<"look", "rename", "open", "fill">>
    <3>1. plan \in Forward /\ <<"fetch">> \in Fetching
      BY DEF Forward, Fetching
    <3>2. Ask(c, "replace", plan)
      BY <2>2 DEF AskReplace
    <3> HIDE DEF plan
    <3> QED
      BY <3>1, <3>2, PlanHeads DEF UpdatePlans
  <2> QED
    BY <2>1, <2>2
<1>3. kind \in Kinds
  BY DEF Kinds
<1>4. /\ call'[c] = [kind |-> kind, phase |-> "waits", from |-> NoCall]
      /\ call[c].phase = "idle" /\ task'[c].todo = plan
      /\ \A d \in Calls \ {c} : call'[d] = call[d] /\ task'[d].todo = task[d].todo
  BY <1>1, <1>2, <1>3, Asked
<1>5. call'[c].kind = kind /\ call'[c].phase = "waits"
  BY <1>4
<1>6. got' = got
  BY DEF AskDownload, AskReplace, updateVars
<1>7. OfUpdates'
  BY <1>4, <1>5 DEF UpdateBefore, OfUpdates
<1>8. Chosen'
  BY <1>2, <1>4, <1>5, <1>6 DEF UpdateBefore, Chosen, Fresh
<1>9. \A d \in Calls : ~Sends(d)
  BY <1>1, <1>2, <1>4 DEF Sends, Running, Plans
<1> QED
  BY <1>7, <1>8, <1>9, NothingSent DEF UpdateAfter

\* A result that is taken, or not waited for any more.
LEMMA ResultTells ==
    ASSUME UpdateBefore, Deliver \/ (\E c \in Calls : TimeOut(c)), UNCHANGED updateVars
    PROVE  UpdateAfter
<1>1. CallsAre(UpdatePlans) /\ got' = got
  BY DEF UpdateBefore, FilesInv, Types, updateVars
<1>2. /\ task' = task
      /\ \A d \in Calls : /\ call'[d].kind = call[d].kind
                          /\ call'[d].phase = "idle" <=> call[d].phase = "idle"
  <2>1. CASE Deliver
    <3>1. \A d \in Calls : call'[d] = call[d] \/ (Waits(d) /\ call'[d].kind = call[d].kind /\ call'[d].phase = "answered")
      BY <1>1, <2>1, Delivered
    <3> QED
      BY <1>1, <2>1, <3>1, Delivered DEF Waits
  <2>2. ASSUME NEW c \in Calls, TimeOut(c)
        PROVE  /\ task' = task
               /\ \A d \in Calls : /\ call'[d].kind = call[d].kind
                                   /\ call'[d].phase = "idle" <=> call[d].phase = "idle"
    BY <1>1, <2>2, Limited DEF Waits
  <2> QED
    BY <2>1, <2>2
<1>3. OfUpdates' /\ Chosen'
  BY <1>1, <1>2, ChosenAside
<1>4. \A d \in Calls : ~Sends(d)
  BY <1>2 DEF Sends, Running
<1> QED
  BY <1>3, <1>4, NothingSent DEF UpdateAfter

\* The application is killed.
LEMMA KillTells == ASSUME UpdateBefore, AppEnds, UNCHANGED updateVars PROVE UpdateAfter
<1>1. CallsAre(UpdatePlans) /\ <<>> \in UpdatePlans /\ got' = got
  BY DEF UpdateBefore, FilesInv, Types, UpdatePlans, updateVars
<1>2. /\ mail' = <<>>
      /\ \A d \in Calls : /\ task'[d].todo = <<>>
                          /\ call'[d].kind = call[d].kind
                          /\ call'[d].phase = "idle" <=> call[d].phase = "idle"
  BY <1>1, Killed
<1>3. <<>> \notin Fetching
  BY PlanHeads
<1>4. OfUpdates' /\ Chosen'
  BY <1>1, <1>2, <1>3, ChosenAside
<1>5. \A d \in Calls : ~Sends(d)
  BY <1>2 DEF Sends
<1> QED
  BY <1>4, <1>5, NothingSent DEF UpdateAfter

\* The steps of a replacement.
LEMMA ReplaceTells == ASSUME UpdateBefore, NEW c \in Calls, Replace(c) PROVE UpdateAfter
<1>1. Types /\ Plans /\ CallsAre(UpdatePlans) /\ ReplaceResult /\ got' = got /\ FilesInv'
  BY ReplaceStep DEF UpdateBefore, FilesInv, Types, Replace
<1>2. Running(c) /\ task[c].todo \in Forward \cup Back
  BY <1>1, Positions
     DEF Replace, Look, Rename, Open, Fill, Permit, WriteBreaks, Undo, RemovePart, RollBack, ReplaceFails, Doing
<1>3. call[c].kind = "replace" /\ call[c].phase # "idle"
  BY <1>1, <1>2 DEF Plans, Running
<1>4. call' = call /\ \A d \in Calls \ {c} : task'[d] = task[d]
  <2>1. PICK steps, ok : GoTo(c, steps, ok)
    BY DEF Replace, Look, Rename, Open, Fill, Permit, WriteBreaks, Undo, RemovePart, RollBack, ReplaceFails,
           StepDone, Refuse, StepBreaks
  <2> QED
    BY <1>1, <2>1 DEF GoTo, CallsAre
<1>5. task'[c].todo \notin Fetching
  <2>1. Plans' /\ call'[c].kind = "replace"
    BY <1>1, <1>3, <1>4 DEF FilesInv
  <2> QED
    BY <2>1 DEF Plans
<1>6. OfUpdates' /\ Chosen'
  BY <1>1, <1>4, <1>5, ChosenAside
<1>7. DownloadResult
  <2>1. \A d \in Calls \ {c} : ~Sends(d)
    BY <1>4 DEF Sends, Running
  <2> QED
    BY <1>3, <2>1 DEF DownloadResult
<1> QED
  BY <1>1, <1>6, <1>7 DEF UpdateAfter

\* What is found among the assets of a release is an asset.
LEMMA FoundAsset == \A offer \in Releases : FindAsset(offer) \in Assets
<1> SUFFICES ASSUME NEW offer \in Releases PROVE FindAsset(offer) \in Assets
  OBVIOUS
<1> DEFINE fitting == {i \in DOMAIN offer : offer[i].fits}
<1>0. Foreign \in Assets /\ GzFile \in Assets /\ ZipFile \in Assets /\ EmptyZip \in Assets /\ Package \in Assets
  BY DEF Assets, Foreign, GzFile, ZipFile, EmptyZip, Package
<1>1. /\ DOMAIN offer \subseteq {1, 2}
      /\ \A i \in DOMAIN offer : offer[i] \in Assets
  <2>1. offer = <<>> \/ (\E a \in Assets : offer = <<a>>) \/ (\E a, b \in Assets : offer = <<a, b>>)
    BY <1>0 DEF Releases
  <2> QED
    BY <2>1
<1>2. ASSUME fitting # {} PROVE Min(fitting) \in fitting
  <2>1. \E i \in fitting : \A j \in fitting : i <= j
    BY <1>1, <1>2
  <2> HIDE DEF fitting
  <2> QED
    BY <2>1 DEF Min
<1>3. Foreign \in Assets
  BY DEF Foreign, Assets
<1>4. FindAsset(offer) = IF fitting = {} THEN Foreign ELSE offer[Min(fitting)]
  BY DEF FindAsset
<1> QED
  BY <1>1, <1>2, <1>3, <1>4

\* A step of a download: what Chosen asks of it and of its end.
LEMMA DownloadingTells ==
    ASSUME UpdateBefore, NEW c \in Calls, Running(c), task[c].todo \in Fetching,
           NEW steps \in Fetching \cup {<<>>}, NEW ok \in BOOLEAN, GoTo(c, steps, ok),
           faults' \in {faults, faults + 1},
           got' \in [Calls -> GotRecord], \A d \in Calls \ {c} : got'[d] = got[d],
           steps # <<"release", "fetch">>, steps = <<"fetch">> => got'[c].asset.fits,
           steps = <<>> /\ ok => got[c].asset \in {GzFile, ZipFile} /\ got[c].read = MaxChunks,
           steps = <<>> /\ ~ok => faults' > 0 \/ got[c].asset \notin {GzFile, ZipFile}
    PROVE  UpdateAfter
<1>1. Plans /\ CallsAre(UpdatePlans) /\ steps \in UpdatePlans /\ faults \in Nat
  BY DEF UpdateBefore, FilesInv, Types, UpdatePlans, CallsAre
<1>2. faults' \in Nat
  BY <1>1
<1>3. /\ call' = call /\ task'[c].todo = steps /\ task'[c].ok = ok
      /\ \A d \in Calls \ {c} : task'[d] = task[d]
      /\ \A d \in Calls : Sends(d) => d = c /\ steps = <<>>
  BY <1>1, <1>2, TaskMoves
<1>4. call[c].kind = "download" /\ call[c].phase # "idle"
  BY <1>1 DEF Plans, Running
<1>5. OfUpdates'
  BY <1>3 DEF UpdateBefore, OfUpdates
<1>6. Chosen'
  BY <1>3, <1>4 DEF UpdateBefore, Chosen, Fresh
<1>7. DownloadResult /\ ReplaceResult
  BY <1>3, <1>4 DEF DownloadResult, ReplaceResult
<1> QED
  BY <1>5, <1>6, <1>7 DEF UpdateAfter

\* The steps of a download.
LEMMA DownloadTells == ASSUME UpdateBefore, NEW c \in Calls, Download(c) PROVE UpdateAfter
<1>1. Types /\ Plans /\ faults \in Nat /\ Chosen /\ got \in [Calls -> GotRecord] /\ got[c] \in GotRecord
  BY DEF UpdateBefore, FilesInv, Types, CallsAre, Chosen
<1>2. /\ Head(<<"release", "fetch">>) = "release" /\ Head(<<"fetch">>) = "fetch"
      /\ Tail(<<"release", "fetch">>) = <<"fetch">> /\ Tail(<<"fetch">>) = <<>>
      /\ <<"fetch">> \in Fetching /\ <<"fetch">> # <<>> /\ <<"release", "fetch">> # <<"fetch">>
      /\ <<"release", "fetch">> # <<>>
  BY DEF Fetching
<1>3. Running(c) /\ task[c].todo \in Fetching
  <2>1. task[c].todo \in UpdatePlans /\ Running(c) /\ Head(task[c].todo) \in {"release", "fetch"}
    BY <1>1, Positions DEF Download, GetRelease, Fetch, Extract, DownloadFails, Doing
  <2> QED
    BY <2>1, PlanHeads DEF UpdatePlans, Running
<1>4. \/ task[c].todo = <<"release", "fetch">> /\ Doing(c, "release") /\ ~Doing(c, "fetch")
      \/ task[c].todo = <<"fetch">> /\ Doing(c, "fetch") /\ ~Doing(c, "release")
  BY <1>2, <1>3, Zenon DEF Doing, Fetching
<1>5. CASE GetRelease(c)
  <2>1. task[c].todo = <<"release", "fetch">> /\ Tail(task[c].todo) = <<"fetch">> /\ got[c] = Nothing
    BY <1>1, <1>2, <1>4, <1>5 DEF GetRelease, Chosen, Fresh
  <2>2. PICK offer \in Releases :
           IF FindAsset(offer).fits
           THEN StepDone(c) /\ got' = [got EXCEPT ![c].asset = FindAsset(offer)]
           ELSE Refuse(c) /\ UNCHANGED got
    BY <1>5 DEF GetRelease
  <2>3. CASE FindAsset(offer).fits
    <3> DEFINE a == FindAsset(offer)
               new == [got[c] EXCEPT !.asset = a]
    <3>1. GoTo(c, <<"fetch">>, TRUE) /\ faults' = faults
      BY <2>1, <2>2, <2>3 DEF StepDone
    <3>2. got' = [got EXCEPT ![c] = new] /\ a \in Assets /\ a.fits
      BY <2>2, <2>3, FoundAsset
    <3> HIDE DEF a
    <3>3. new \in GotRecord /\ new.asset = a
      BY <1>1, <3>2 DEF GotRecord
    <3> HIDE DEF new
    <3>4. got' \in [Calls -> GotRecord] /\ got'[c] = new /\ \A d \in Calls \ {c} : got'[d] = got[d]
      BY <1>1, <3>2, <3>3
    <3> QED
      BY <1>2, <1>3, <3>1, <3>2, <3>3, <3>4, DownloadingTells
  <2>4. CASE ~FindAsset(offer).fits
    <3>1. GoTo(c, <<>>, FALSE) /\ faults' = faults /\ got' = got
      BY <2>2, <2>4 DEF Refuse
    <3>2. got[c].asset \notin {GzFile, ZipFile}
      BY <2>1 DEF Nothing, GzFile, ZipFile, Foreign
    <3> QED
      BY <1>1, <1>2, <1>3, <3>1, <3>2, DownloadingTells
  <2> QED
    BY <2>3, <2>4
<1>6. CASE Fetch(c)
  <2>1. task[c].todo = <<"fetch">> /\ got[c].read < MaxChunks /\ got[c].asset.fits
    BY <1>1, <1>4, <1>6 DEF Fetch, Chosen
  <2>2. GoTo(c, <<"fetch">>, TRUE) /\ faults' = faults
    BY <1>6, <2>1 DEF Fetch
  <2> DEFINE new == [got[c] EXCEPT !.read = @ + 1]
  <2>3. got' = [got EXCEPT ![c] = new]
    BY <1>6 DEF Fetch
  <2>4. new \in GotRecord /\ new.asset = got[c].asset
    <3>1. got[c].read \in 0..MaxChunks /\ got[c].asset \in Assets /\ MaxChunks \in Nat
      BY <1>1, UpdateAssumption DEF GotRecord
    <3>2. got[c].read + 1 \in 0..MaxChunks
      BY <2>1, <3>1
    <3> QED
      BY <1>1, <3>1, <3>2 DEF GotRecord
  <2> HIDE DEF new
  <2>5. got' \in [Calls -> GotRecord] /\ got'[c] = new /\ \A d \in Calls \ {c} : got'[d] = got[d]
    BY <1>1, <2>3, <2>4
  <2> QED
    BY <1>2, <1>3, <2>1, <2>2, <2>4, <2>5, DownloadingTells
<1>7. CASE Extract(c)
  <2>1. task[c].todo = <<"fetch">> /\ Tail(task[c].todo) = <<>> /\ got[c].read = MaxChunks /\ got' = got
    BY <1>2, <1>4, <1>7 DEF Extract
  <2>2. got[c].asset \in Assets /\ got[c].asset.fits
    BY <1>1, <2>1 DEF Chosen, GotRecord
  <2>3. got[c].asset \in {GzFile, ZipFile} <=> Extracts(got[c].asset)
    BY <2>2 DEF Extracts, Assets, GzFile, ZipFile
  <2>4. PICK ok \in BOOLEAN : GoTo(c, <<>>, ok) /\ faults' = faults /\ (ok <=> Extracts(got[c].asset))
    BY <1>7, <2>1 DEF Extract, StepDone, Refuse
  <2> QED
    BY <1>1, <1>2, <1>3, <2>1, <2>3, <2>4, DownloadingTells
<1>8. CASE DownloadFails(c)
  <2>1. GoTo(c, <<>>, FALSE) /\ faults' = faults + 1 /\ got' = got
    BY <1>8 DEF DownloadFails, StepBreaks, Breaks
  <2>2. faults' > 0
    BY <1>1, <2>1
  <2> QED
    BY <1>1, <1>2, <1>3, <2>1, <2>2, DownloadingTells
<1> QED
  BY <1>5, <1>6, <1>7, <1>8 DEF Download


-----------------------------------------------------------------------------
(***************************************************************************)
(* The calls of backups and restores: whose results are on their way, and  *)
(* whom they answer.                                                       *)
(***************************************************************************)
\* What is left of a backup and of a restore.
Creating ==
    {<<"collectPrefs", "collectSubs", "collectOver", "collectFile", "openFile", "fillFile">>,
     <<"collectSubs", "collectOver", "collectFile", "openFile", "fillFile">>,
     <<"collectOver", "collectFile", "openFile", "fillFile">>,
     <<"collectFile", "openFile", "fillFile">>, <<"openFile", "fillFile">>, <<"fillFile">>}
Restoring ==
    {<<"verify", "readPrefs", "openPrefs", "fillPrefs", "clearSubs", "writeSubs", "clearOver", "writeOver", "writeFile">>,
     <<"readPrefs", "openPrefs", "fillPrefs", "clearSubs", "writeSubs", "clearOver", "writeOver", "writeFile">>,
     <<"openPrefs", "fillPrefs", "clearSubs", "writeSubs", "clearOver", "writeOver", "writeFile">>,
     <<"fillPrefs", "clearSubs", "writeSubs", "clearOver", "writeOver", "writeFile">>,
     <<"clearSubs", "writeSubs", "clearOver", "writeOver", "writeFile">>,
     <<"writeSubs", "clearOver", "writeOver", "writeFile">>, <<"clearOver", "writeOver", "writeFile">>,
     <<"writeOver", "writeFile">>, <<"writeFile">>}
BackupPlans == Creating \cup Restoring \cup {<<>>}

\* The calls that were made, and what their tasks do.
BackupCalls ==
    /\ CallsAre(BackupPlans)
    /\ \A c \in Calls : call[c].kind \in {"create", "restore"}
    /\ \A c \in Calls : call[c].phase = "idle" => task[c].todo = <<>>
    /\ \A c \in Calls : task[c].todo \in Creating => call[c].kind = "create"
    /\ \A c \in Calls : task[c].todo \in Restoring => call[c].kind = "restore"

OnMail(c) == \E i \in 1..Len(mail) : mail[i] = c
Ended(c) == call[c].phase # "idle" /\ ~Running(c)
Taken == {c \in Calls : Ended(c) /\ ~OnMail(c)}
Live(c) == Running(c) \/ OnMail(c)

\* A result is sent once, when its task has ended, and taken once; a call was answered
\* if it is, or if it was and its page has loaded what it restored.
Results ==
    /\ \A i, j \in 1..Len(mail) : mail[i] = mail[j] => i = j
    /\ \A c \in Calls : OnMail(c) => Ended(c)
    /\ \A c \in Calls : call[c].phase \in {"idle", "waits", "timedOut"} => call[c].from = NoCall
    /\ \A c \in Calls : call[c].from \in Taken \cup {NoCall}
    /\ \A c \in Calls : call[c].phase = "answered" \/ (call[c].phase = "over" /\ Live(c)) => call[c].from # NoCall

\* One call waits; a task or a result is left behind only after a limit has passed.
OneWaits == \A c, d \in Calls : Waits(c) /\ Waits(d) => c = d
Late == \A c \in Calls : Live(c) /\ ~Waits(c) => \E d \in Calls : call[d].phase = "timedOut"

CallsInv == BackupCalls /\ Apart /\ Results /\ OneWaits /\ Late /\ OwnAnswer

\* The plans, and what follows a step of them.
LEMMA CreateSteps ==
    /\ <<>> \notin Creating \cup Restoring /\ CreatePlan \in Creating /\ Head(CreatePlan) = "collectPrefs"
    /\ \A p \in Creating :
          /\ p \notin Restoring
          /\ Head(p) \in {"collectPrefs", "collectSubs", "collectOver", "collectFile", "openFile", "fillFile"}
          /\ Head(p) = "collectPrefs" => Tail(p) \in Creating /\ Head(Tail(p)) = "collectSubs"
          /\ Head(p) = "collectSubs" => Tail(p) \in Creating /\ Head(Tail(p)) = "collectOver"
          /\ Head(p) = "collectOver" => Tail(p) \in Creating /\ Head(Tail(p)) = "collectFile"
          /\ Head(p) = "collectFile" => Tail(p) \in Creating /\ Head(Tail(p)) = "openFile"
          /\ Head(p) = "openFile" => Tail(p) \in Creating /\ Head(Tail(p)) = "fillFile"
          /\ Head(p) = "fillFile" => Tail(p) = <<>>
<1>1. /\ Tail(<<"collectPrefs", "collectSubs", "collectOver", "collectFile", "openFile", "fillFile">>)
            = <<"collectSubs", "collectOver", "collectFile", "openFile", "fillFile">>
      /\ Tail(<<"collectSubs", "collectOver", "collectFile", "openFile", "fillFile">>)
            = <<"collectOver", "collectFile", "openFile", "fillFile">>
      /\ Tail(<<"collectOver", "collectFile", "openFile", "fillFile">>) = <<"collectFile", "openFile", "fillFile">>
      /\ Tail(<<"collectFile", "openFile", "fillFile">>) = <<"openFile", "fillFile">>
      /\ Tail(<<"openFile", "fillFile">>) = <<"fillFile">> /\ Tail(<<"fillFile">>) = <<>>
  OBVIOUS
<1>2. /\ Head(<<"collectPrefs", "collectSubs", "collectOver", "collectFile", "openFile", "fillFile">>) = "collectPrefs"
      /\ Head(<<"collectSubs", "collectOver", "collectFile", "openFile", "fillFile">>) = "collectSubs"
      /\ Head(<<"collectOver", "collectFile", "openFile", "fillFile">>) = "collectOver"
      /\ Head(<<"collectFile", "openFile", "fillFile">>) = "collectFile"
      /\ Head(<<"openFile", "fillFile">>) = "openFile" /\ Head(<<"fillFile">>) = "fillFile"
  OBVIOUS
<1>3. \A p \in Creating :
          /\ Head(p) \in {"collectPrefs", "collectSubs", "collectOver", "collectFile", "openFile", "fillFile"}
          /\ Head(p) = "collectPrefs" => Tail(p) \in Creating /\ Head(Tail(p)) = "collectSubs"
          /\ Head(p) = "collectSubs" => Tail(p) \in Creating /\ Head(Tail(p)) = "collectOver"
          /\ Head(p) = "collectOver" => Tail(p) \in Creating /\ Head(Tail(p)) = "collectFile"
          /\ Head(p) = "collectFile" => Tail(p) \in Creating /\ Head(Tail(p)) = "openFile"
          /\ Head(p) = "openFile" => Tail(p) \in Creating /\ Head(Tail(p)) = "fillFile"
          /\ Head(p) = "fillFile" => Tail(p) = <<>>
  BY <1>1, <1>2, Zenon DEF Creating
<1>4. <<>> \notin Creating \cup Restoring /\ \A p \in Creating : p \notin Restoring
  BY DEF Creating, Restoring
<1>5. CreatePlan \in Creating /\ Head(CreatePlan) = "collectPrefs"
  BY <1>2, Zenon DEF Creating, CreatePlan
<1> QED
  BY <1>3, <1>4, <1>5

LEMMA RestoreSteps ==
    /\ RestorePlan \in Restoring /\ Head(RestorePlan) = "verify"
    /\ \A p \in Restoring :
          /\ Head(p) \in {"verify", "readPrefs", "openPrefs", "fillPrefs", "clearSubs", "writeSubs",
                          "clearOver", "writeOver", "writeFile"}
          /\ Head(p) = "verify" => Tail(p) \in Restoring /\ Head(Tail(p)) = "readPrefs"
          /\ Head(p) = "readPrefs" => Tail(p) \in Restoring /\ Head(Tail(p)) = "openPrefs"
          /\ Head(p) = "openPrefs" => Tail(p) \in Restoring /\ Head(Tail(p)) = "fillPrefs"
          /\ Head(p) = "fillPrefs" => Tail(p) \in Restoring /\ Head(Tail(p)) = "clearSubs"
          /\ Head(p) = "clearSubs" => Tail(p) \in Restoring /\ Head(Tail(p)) = "writeSubs"
          /\ Head(p) = "writeSubs" => Tail(p) \in Restoring /\ Head(Tail(p)) = "clearOver"
          /\ Head(p) = "clearOver" => Tail(p) \in Restoring /\ Head(Tail(p)) = "writeOver"
          /\ Head(p) = "writeOver" => Tail(p) \in Restoring /\ Head(Tail(p)) = "writeFile"
          /\ Head(p) = "writeFile" => Tail(p) = <<>>
<1>1. /\ Tail(<<"verify", "readPrefs", "openPrefs", "fillPrefs", "clearSubs", "writeSubs", "clearOver", "writeOver", "writeFile">>)
            = <<"readPrefs", "openPrefs", "fillPrefs", "clearSubs", "writeSubs", "clearOver", "writeOver", "writeFile">>
      /\ Tail(<<"readPrefs", "openPrefs", "fillPrefs", "clearSubs", "writeSubs", "clearOver", "writeOver", "writeFile">>)
            = <<"openPrefs", "fillPrefs", "clearSubs", "writeSubs", "clearOver", "writeOver", "writeFile">>
      /\ Tail(<<"openPrefs", "fillPrefs", "clearSubs", "writeSubs", "clearOver", "writeOver", "writeFile">>)
            = <<"fillPrefs", "clearSubs", "writeSubs", "clearOver", "writeOver", "writeFile">>
  OBVIOUS
<1>2. /\ Tail(<<"fillPrefs", "clearSubs", "writeSubs", "clearOver", "writeOver", "writeFile">>)
            = <<"clearSubs", "writeSubs", "clearOver", "writeOver", "writeFile">>
      /\ Tail(<<"clearSubs", "writeSubs", "clearOver", "writeOver", "writeFile">>)
            = <<"writeSubs", "clearOver", "writeOver", "writeFile">>
      /\ Tail(<<"writeSubs", "clearOver", "writeOver", "writeFile">>) = <<"clearOver", "writeOver", "writeFile">>
      /\ Tail(<<"clearOver", "writeOver", "writeFile">>) = <<"writeOver", "writeFile">>
      /\ Tail(<<"writeOver", "writeFile">>) = <<"writeFile">> /\ Tail(<<"writeFile">>) = <<>>
  OBVIOUS
<1>3. /\ Head(<<"verify", "readPrefs", "openPrefs", "fillPrefs", "clearSubs", "writeSubs", "clearOver", "writeOver", "writeFile">>) = "verify"
      /\ Head(<<"readPrefs", "openPrefs", "fillPrefs", "clearSubs", "writeSubs", "clearOver", "writeOver", "writeFile">>) = "readPrefs"
      /\ Head(<<"openPrefs", "fillPrefs", "clearSubs", "writeSubs", "clearOver", "writeOver", "writeFile">>) = "openPrefs"
      /\ Head(<<"fillPrefs", "clearSubs", "writeSubs", "clearOver", "writeOver", "writeFile">>) = "fillPrefs"
      /\ Head(<<"clearSubs", "writeSubs", "clearOver", "writeOver", "writeFile">>) = "clearSubs"
      /\ Head(<<"writeSubs", "clearOver", "writeOver", "writeFile">>) = "writeSubs"
      /\ Head(<<"clearOver", "writeOver", "writeFile">>) = "clearOver"
      /\ Head(<<"writeOver", "writeFile">>) = "writeOver" /\ Head(<<"writeFile">>) = "writeFile"
  OBVIOUS
<1>4. RestorePlan \in Restoring /\ Head(RestorePlan) = "verify"
  BY <1>3, Zenon DEF Restoring, RestorePlan
<1>5. \A p \in Restoring :
          /\ Head(p) \in {"verify", "readPrefs", "openPrefs", "fillPrefs", "clearSubs", "writeSubs",
                          "clearOver", "writeOver", "writeFile"}
          /\ Head(p) = "verify" => Tail(p) \in Restoring /\ Head(Tail(p)) = "readPrefs"
          /\ Head(p) = "readPrefs" => Tail(p) \in Restoring /\ Head(Tail(p)) = "openPrefs"
          /\ Head(p) = "openPrefs" => Tail(p) \in Restoring /\ Head(Tail(p)) = "fillPrefs"
          /\ Head(p) = "fillPrefs" => Tail(p) \in Restoring /\ Head(Tail(p)) = "clearSubs"
          /\ Head(p) = "clearSubs" => Tail(p) \in Restoring /\ Head(Tail(p)) = "writeSubs"
          /\ Head(p) = "writeSubs" => Tail(p) \in Restoring /\ Head(Tail(p)) = "clearOver"
          /\ Head(p) = "clearOver" => Tail(p) \in Restoring /\ Head(Tail(p)) = "writeOver"
          /\ Head(p) = "writeOver" => Tail(p) \in Restoring /\ Head(Tail(p)) = "writeFile"
          /\ Head(p) = "writeFile" => Tail(p) = <<>>
  BY <1>1, <1>2, <1>3, Zenon DEF Restoring
<1> QED
  BY <1>4, <1>5

\* A result is sent, and one is taken.
LEMMA MailSent ==
    ASSUME mail \in Seq(Calls), NEW c \in Calls, ~OnMail(c), mail' = Append(mail, c),
           \A i, j \in 1..Len(mail) : mail[i] = mail[j] => i = j
    PROVE  /\ \A i, j \in 1..Len(mail') : mail'[i] = mail'[j] => i = j
           /\ \A d \in Calls : OnMail(d)' <=> OnMail(d) \/ d = c
<1>1. /\ Len(mail) \in Nat /\ Len(mail') = Len(mail) + 1 /\ mail'[Len(mail) + 1] = c
      /\ \A i \in 1..Len(mail) : mail'[i] = mail[i]
  OBVIOUS
<1>2. \A i \in 1..Len(mail) : mail[i] # c
  BY DEF OnMail
<1>3. \A i \in 1..Len(mail') : i \in 1..Len(mail) \/ i = Len(mail) + 1
  BY <1>1
<1>4. 1..Len(mail) \subseteq 1..Len(mail') /\ Len(mail) + 1 \in 1..Len(mail')
  BY <1>1
<1>5. ASSUME NEW i \in 1..Len(mail'), NEW j \in 1..Len(mail'), mail'[i] = mail'[j] PROVE i = j
  BY <1>1, <1>2, <1>3, <1>5
<1>6. ASSUME NEW d \in Calls PROVE OnMail(d)' <=> OnMail(d) \/ d = c
  BY <1>1, <1>3, <1>4 DEF OnMail
<1> QED
  BY <1>5, <1>6

LEMMA MailTaken ==
    ASSUME mail \in Seq(Calls), mail # <<>>, mail' = Tail(mail),
           \A i, j \in 1..Len(mail) : mail[i] = mail[j] => i = j
    PROVE  /\ \A i, j \in 1..Len(mail') : mail'[i] = mail'[j] => i = j
           /\ OnMail(Head(mail))
           /\ \A d \in Calls : OnMail(d)' <=> OnMail(d) /\ d # Head(mail)
<1>1. /\ Len(mail) \in Nat /\ Len(mail) > 0 /\ Len(mail') = Len(mail) - 1 /\ mail[1] = Head(mail)
      /\ \A i \in 1..Len(mail') : mail'[i] = mail[i + 1]
  <2>1. Len(mail) \in Nat /\ Len(mail) # 0
    BY EmptySeq
  <2> QED
    BY <2>1, HeadTailProperties
<1>2. \A i \in 1..Len(mail') : i + 1 \in 1..Len(mail) /\ i + 1 # 1
  BY <1>1
<1>3. \A i \in 1..Len(mail) : i = 1 \/ (i - 1 \in 1..Len(mail') /\ (i - 1) + 1 = i)
  BY <1>1
<1>4. ASSUME NEW i \in 1..Len(mail'), NEW j \in 1..Len(mail'), mail'[i] = mail'[j] PROVE i = j
  <2>1. i + 1 = j + 1
    BY <1>1, <1>2, <1>4
  <2> QED
    BY <2>1
<1>5. 1 \in 1..Len(mail)
  BY <1>1
<1>6. ASSUME NEW d \in Calls PROVE OnMail(d)' <=> OnMail(d) /\ d # Head(mail)
  <2>1. ASSUME NEW i \in 1..Len(mail'), mail'[i] = d PROVE OnMail(d) /\ d # Head(mail)
    BY <1>1, <1>2, <1>5, <2>1 DEF OnMail
  <2>2. ASSUME NEW i \in 1..Len(mail), mail[i] = d, d # Head(mail) PROVE OnMail(d)'
    <3>1. i - 1 \in 1..Len(mail') /\ (i - 1) + 1 = i
      BY <1>1, <1>3, <2>2
    <3>2. mail'[i - 1] = d
      BY <1>1, <2>2, <3>1
    <3> QED
      BY <3>1, <3>2 DEF OnMail
  <2> QED
    BY <2>1, <2>2 DEF OnMail
<1> QED
  BY <1>1, <1>4, <1>5, <1>6 DEF OnMail

\* A backup or a restore is asked for.
LEMMA CallsAsk ==
    ASSUME CallsInv, NEW c \in Calls, ~IsOperating, NEW kind \in {"create", "restore"}, NEW plan \in BackupPlans,
           plan \in Creating => kind = "create", plan \in Restoring => kind = "restore", Ask(c, kind, plan)
    PROVE  CallsInv'
<1>1. CallsAre(BackupPlans) /\ kind \in Kinds
  BY DEF CallsInv, BackupCalls, Kinds
<1>2. /\ CallsAre(BackupPlans)' /\ UNCHANGED <<mail, faults>>
      /\ call[c].phase = "idle" /\ call'[c] = [kind |-> kind, phase |-> "waits", from |-> NoCall]
      /\ task'[c].todo = plan
      /\ \A d \in Calls \ {c} : call'[d] = call[d] /\ task'[d].todo = task[d].todo
  BY <1>1, Asked
<1>3. call'[c].kind = kind /\ call'[c].phase = "waits" /\ call'[c].from = NoCall
  BY <1>2
<1>4. \A d \in Calls : OnMail(d)' <=> OnMail(d)
  BY <1>2 DEF OnMail
<1>5. \A d \in Calls : ~Waits(d)
  BY DEF IsOperating, Channel, CallsInv, BackupCalls
<1>6. ~OnMail(c) /\ \A d \in Calls : call[d].from # c
  BY <1>2, CallsAssumption DEF CallsInv, Results, Taken, Ended
<1>7. BackupCalls'
  BY <1>2, <1>3 DEF CallsInv, BackupCalls
<1>8. Apart'
  BY <1>1, ApartAsked DEF CallsInv
<1>9. Results'
  <2>1. \A i, j \in 1..Len(mail') : mail'[i] = mail'[j] => i = j
    BY <1>2 DEF CallsInv, Results
  <2>2. \A d \in Calls \ {c} : Ended(d)' <=> Ended(d)
    BY <1>2 DEF Ended, Running
  <2>3. \A d \in Calls : OnMail(d)' => Ended(d)'
    BY <1>4, <1>6, <2>2 DEF CallsInv, Results
  <2>4. \A d \in Calls : call'[d].phase \in {"idle", "waits", "timedOut"} => call'[d].from = NoCall
    BY <1>2, <1>3 DEF CallsInv, Results
  <2>5. \A d \in Calls : call'[d].from \in Taken' \cup {NoCall}
    <3>1. c \notin Taken /\ Taken \subseteq Taken'
      BY <1>2, <1>4, <2>2 DEF Taken, Ended
    <3> QED
      BY <1>2, <1>3, <3>1 DEF CallsInv, Results
  <2>6. \A d \in Calls : call'[d].phase = "answered" \/ (call'[d].phase = "over" /\ Live(d)') => call'[d].from # NoCall
    BY <1>2, <1>3, <1>4 DEF CallsInv, Results, Live, Running
  <2> QED
    BY <2>1, <2>3, <2>4, <2>5, <2>6 DEF Results
<1>10. OneWaits'
  BY <1>2, <1>5 DEF OneWaits, Waits
<1>11. Late'
  <2>1. ASSUME NEW d \in Calls, Live(d)', ~Waits(d)' PROVE \E e \in Calls : call'[e].phase = "timedOut"
    <3>1. d # c
      BY <1>3, <2>1 DEF Waits
    <3>2. Live(d) /\ ~Waits(d)
      BY <1>2, <1>4, <1>5, <2>1, <3>1 DEF Live, Running
    <3>3. PICK e \in Calls : call[e].phase = "timedOut"
      BY <3>2 DEF CallsInv, Late
    <3> QED
      BY <1>2, <3>3
  <2> QED
    BY <2>1 DEF Late
<1>12. OwnAnswer'
  <2>1. ASSUME NEW d \in Calls, call'[d].phase = "answered", call'[d].from # d
        PROVE  /\ call'[call'[d].from].phase = "timedOut" \/ call'[call'[d].from].from \notin {call'[d].from, NoCall}
               /\ \E e \in Calls : call'[e].phase = "timedOut"
    <3>1. d # c /\ call'[d] = call[d]
      BY <1>2, <1>3, <2>1
    <3>2. call[d].from \in Calls \ {c}
      BY <1>1, <1>6, <2>1, <3>1 DEF CallsAre, CallRecord, CallsInv, Results
    <3>3. /\ call[call[d].from].phase = "timedOut" \/ call[call[d].from].from \notin {call[d].from, NoCall}
          /\ \E e \in Calls : call[e].phase = "timedOut"
      BY <2>1, <3>1 DEF CallsInv, OwnAnswer, BackupCalls, Channel
    <3> QED
      BY <1>2, <3>1, <3>2, <3>3
  <2> QED
    BY <2>1 DEF OwnAnswer
<1> QED
  BY <1>7, <1>8, <1>9, <1>10, <1>11, <1>12 DEF CallsInv

\* A task goes on or ends.
LEMMA CallsGo ==
    ASSUME CallsInv, NEW c \in Calls, Running(c), NEW steps \in BackupPlans, NEW ok \in BOOLEAN, GoTo(c, steps, ok),
           faults' \in Nat, steps \in Creating => call[c].kind = "create", steps \in Restoring => call[c].kind = "restore"
    PROVE  CallsInv'
<1>1. CallsAre(BackupPlans) /\ mail \in Seq(Calls)
  BY DEF CallsInv, BackupCalls, CallsAre
<1>2. /\ CallsAre(BackupPlans)' /\ call' = call
      /\ task'[c].todo = steps /\ task'[c].alone = task[c].alone
      /\ \A d \in Calls \ {c} : task'[d] = task[d]
      /\ mail' = IF steps = <<>> THEN Append(mail, c) ELSE mail
  BY <1>1, Gone
<1>3. BackupCalls' /\ Apart'
  BY <1>2, ApartKept DEF CallsInv, BackupCalls, Running
<1>4. ~OnMail(c) /\ c \notin Taken /\ call[c].phase # "idle"
  BY DEF CallsInv, BackupCalls, Results, Taken, Ended, Running
<1>5. /\ \A i, j \in 1..Len(mail') : mail'[i] = mail'[j] => i = j
      /\ \A d \in Calls : OnMail(d)' <=> OnMail(d) \/ (d = c /\ steps = <<>>)
  <2>1. CASE steps = <<>>
    BY <1>1, <1>2, <1>4, <2>1, MailSent DEF CallsInv, Results
  <2>2. CASE steps # <<>>
    BY <1>2, <2>2 DEF CallsInv, Results, OnMail
  <2> QED
    BY <2>1, <2>2
<1>6. \A d \in Calls : Ended(d)' <=> IF d = c THEN steps = <<>> ELSE Ended(d)
  BY <1>2, <1>4 DEF Ended, Running
<1>7. \A d \in Calls : Live(d)' => Live(d)
  BY <1>2, <1>5 DEF Live, Running
<1>8. Results'
  <2>1. \A d \in Calls : OnMail(d)' => Ended(d)'
    BY <1>4, <1>5, <1>6 DEF CallsInv, Results
  <2>2. Taken \subseteq Taken'
    BY <1>4, <1>5, <1>6 DEF Taken
  <2> QED
    BY <1>2, <1>5, <1>7, <2>1, <2>2 DEF CallsInv, Results
<1>9. OneWaits' /\ Late' /\ OwnAnswer'
  BY <1>2, <1>7 DEF CallsInv, OneWaits, Late, OwnAnswer, Waits
<1> QED
  BY <1>3, <1>8, <1>9 DEF CallsInv

\* No task is alone any more, or a page has loaded what was restored.
LEMMA CallsStay ==
    ASSUME CallsInv, UNCHANGED <<mail, faults>>, CallsAre(BackupPlans)',
           \A d \in Calls : /\ task'[d].todo = task[d].todo /\ (task'[d].alone /\ call[d].phase # "idle" => task[d].alone)
                            /\ call'[d].kind = call[d].kind /\ call'[d].from = call[d].from
                            /\ call'[d].phase = call[d].phase \/ (call[d].phase = "answered" /\ call'[d].phase = "over")
    PROVE  CallsInv'
<1>1. BackupCalls' /\ Apart'
  BY ApartKept DEF CallsInv, BackupCalls, Running
<1>2. \A d \in Calls : /\ OnMail(d)' <=> OnMail(d)
                       /\ Ended(d)' <=> Ended(d)
                       /\ Live(d)' <=> Live(d)
                       /\ Waits(d)' <=> Waits(d)
  BY DEF OnMail, Ended, Live, Running, Waits
<1>3. Taken' = Taken
  BY <1>2 DEF Taken
<1>4. Results'
  BY <1>2, <1>3 DEF CallsInv, Results
<1>5. OneWaits' /\ Late'
  <2>1. \A d \in Calls : call[d].phase = "timedOut" => call'[d].phase = "timedOut"
    OBVIOUS
  <2> QED
    BY <1>2, <2>1 DEF CallsInv, OneWaits, Late
<1>6. OwnAnswer'
  <2>1. ASSUME NEW d \in Calls, call'[d].phase = "answered", call'[d].from # d
        PROVE  /\ call'[call[d].from].phase = "timedOut" \/ call'[call[d].from].from \notin {call[d].from, NoCall}
               /\ \E e \in Calls : call'[e].phase = "timedOut"
    <3>1. call[d].phase = "answered" /\ call[d].from # d
      BY <2>1
    <3>2. call[d].from \in Calls
      BY <3>1 DEF CallsInv, Results, Taken
    <3>3. /\ call[call[d].from].phase = "timedOut" \/ call[call[d].from].from \notin {call[d].from, NoCall}
          /\ \E e \in Calls : call[e].phase = "timedOut"
      BY <3>1 DEF CallsInv, OwnAnswer, BackupCalls, Channel
    <3> QED
      BY <3>2, <3>3
  <2> QED
    BY <2>1 DEF OwnAnswer
<1> QED
  BY <1>1, <1>4, <1>5, <1>6 DEF CallsInv

\* A result is taken: it is the waiting call's own, or one that was left behind.
LEMMA CallsDeliver == ASSUME CallsInv, Deliver PROVE CallsInv'
<1> DEFINE r == Head(mail)
<1>1. CallsAre(BackupPlans) /\ mail \in Seq(Calls)
  BY DEF CallsInv, BackupCalls, CallsAre
<1>2. /\ CallsAre(BackupPlans)' /\ UNCHANGED <<task, faults>>
      /\ mail # <<>> /\ mail' = Tail(mail) /\ r \in Calls
      /\ \A d \in Calls : IF Waits(d) /\ Channel(call[d].kind) = Channel(call[r].kind)
                          THEN call'[d].kind = call[d].kind /\ call'[d].phase = "answered" /\ call'[d].from = r
                          ELSE call'[d] = call[d]
  BY <1>1, Delivered
<1>3. /\ \A i, j \in 1..Len(mail') : mail'[i] = mail'[j] => i = j
      /\ OnMail(r) /\ \A d \in Calls : OnMail(d)' <=> OnMail(d) /\ d # r
  BY <1>1, <1>2, MailTaken DEF CallsInv, Results
<1> HIDE DEF r
<1>4. \A d \in Calls : IF Waits(d)
                       THEN call'[d].kind = call[d].kind /\ call'[d].phase = "answered" /\ call'[d].from = r
                       ELSE call'[d] = call[d]
  BY <1>2 DEF CallsInv, BackupCalls, Channel
<1>5. \A d \in Calls : ~Waits(d)'
  BY <1>4 DEF Waits
<1>6. BackupCalls' /\ Apart'
  <2>1. \A d \in Calls : call'[d].kind = call[d].kind /\ (call'[d].phase = "idle" <=> call[d].phase = "idle")
    BY <1>4 DEF Waits
  <2> QED
    BY <1>2, <2>1, ApartKept DEF CallsInv, BackupCalls, Running
<1>7. \A d \in Calls : (Ended(d)' <=> Ended(d)) /\ (Live(d)' => Live(d))
  BY <1>2, <1>3, <1>4 DEF Ended, Running, Waits, Live
<1>8. Taken' = Taken \cup {r} /\ r \notin Taken
  BY <1>2, <1>3, <1>7 DEF Taken, CallsInv, Results
<1>9. Results'
  <2>1. \A d \in Calls : OnMail(d)' => Ended(d)'
    BY <1>3, <1>7 DEF CallsInv, Results
  <2>2. \A d \in Calls : call'[d].phase \in {"idle", "waits", "timedOut"} => call'[d].from = NoCall
    BY <1>4 DEF CallsInv, Results
  <2>3. \A d \in Calls : call'[d].from \in Taken' \cup {NoCall}
    BY <1>4, <1>8 DEF CallsInv, Results
  <2>4. \A d \in Calls : call'[d].phase = "answered" \/ (call'[d].phase = "over" /\ Live(d)') => call'[d].from # NoCall
    BY <1>2, <1>4, <1>7, CallsAssumption DEF CallsInv, Results
  <2> QED
    BY <1>3, <2>1, <2>2, <2>3, <2>4 DEF Results
<1>10. \A e \in Calls : call[e].phase = "timedOut" => call'[e].phase = "timedOut"
  BY <1>4 DEF Waits
<1>11. ~Waits(r) => \E e \in Calls : call'[e].phase = "timedOut"
  BY <1>2, <1>3, <1>10 DEF CallsInv, Late, Live
<1>12. Late'
  <2>1. ASSUME NEW d \in Calls, Live(d)' PROVE \E e \in Calls : call'[e].phase = "timedOut"
    <3>1. CASE Waits(d)
      <4>1. d # r
        BY <1>2, <1>3, <1>7, <2>1 DEF Live, CallsInv, Results, Ended, Running
      <4> QED
        BY <1>2, <1>11, <3>1, <4>1 DEF CallsInv, OneWaits
    <3>2. CASE ~Waits(d)
      BY <1>7, <1>10, <2>1, <3>2 DEF CallsInv, Late
    <3> QED
      BY <3>1, <3>2
  <2> QED
    BY <2>1 DEF Late
<1>13. OwnAnswer'
  <2>1. ASSUME NEW d \in Calls, call'[d].phase = "answered", call'[d].from # d, NEW from \in Calls, from = call'[d].from
        PROVE  /\ call'[from].phase = "timedOut" \/ call'[from].from \notin {from, NoCall}
               /\ \E e \in Calls : call'[e].phase = "timedOut"
    <3>1. CASE Waits(d)
      <4>1. from = r /\ r # d /\ ~Waits(r)
        BY <1>2, <1>4, <2>1, <3>1 DEF CallsInv, OneWaits
      <4>2. Ended(r) /\ call'[r] = call[r] /\ call[r] \in CallRecord
        BY <1>1, <1>2, <1>3, <1>4, <4>1 DEF CallsInv, Results, CallsAre
      <4>3. call[r].from # r
        BY <1>2, <1>8, CallsAssumption DEF CallsInv, Results
      <4>4. call[r].phase = "timedOut" \/ call[r].from # NoCall
        BY <1>2, <1>3, <4>1, <4>2 DEF CallsInv, Results, Ended, Live, Waits, CallRecord
      <4> QED
        BY <1>11, <4>1, <4>2, <4>3, <4>4
    <3>2. CASE ~Waits(d)
      <4>1. call'[d] = call[d]
        BY <1>4, <3>2
      <4>2. /\ call[from].phase = "timedOut" \/ call[from].from \notin {from, NoCall}
            /\ \E e \in Calls : call[e].phase = "timedOut"
        BY <2>1, <4>1 DEF CallsInv, OwnAnswer, BackupCalls, Channel
      <4>3. ~Waits(from)
        BY <4>2 DEF Waits, CallsInv, Results
      <4> QED
        BY <1>4, <1>10, <4>2, <4>3
    <3> QED
      BY <3>1, <3>2
  <2>2. \A d \in Calls : call'[d].phase = "answered" => call'[d].from \in Calls
    BY <1>9 DEF Results, Taken
  <2> QED
    BY <2>1, <2>2 DEF OwnAnswer
<1> QED
  BY <1>5, <1>6, <1>9, <1>12, <1>13 DEF CallsInv, OneWaits

\* The limit of a call passes.
LEMMA CallsLimit == ASSUME CallsInv, NEW c \in Calls, TimeOut(c) PROVE CallsInv'
<1>1. CallsAre(BackupPlans)
  BY DEF CallsInv, BackupCalls
<1>2. /\ CallsAre(BackupPlans)' /\ UNCHANGED <<task, mail, faults>>
      /\ Waits(c) /\ call'[c].kind = call[c].kind /\ call'[c].phase = "timedOut" /\ call'[c].from = call[c].from
      /\ \A d \in Calls \ {c} : call'[d] = call[d]
  BY <1>1, Limited
<1>3. \A d \in Calls : /\ call'[d].kind = call[d].kind /\ call'[d].from = call[d].from
                       /\ call'[d].phase = "idle" <=> call[d].phase = "idle"
                       /\ OnMail(d)' <=> OnMail(d)
                       /\ Ended(d)' <=> Ended(d)
                       /\ Live(d)' <=> Live(d)
                       /\ Waits(d)' => Waits(d)
  BY <1>2 DEF Waits, OnMail, Ended, Running, Live
<1>4. BackupCalls' /\ Apart'
  BY <1>2, <1>3, ApartKept DEF CallsInv, BackupCalls, Running
<1>5. Taken' = Taken
  BY <1>3 DEF Taken
<1>6. Results'
  BY <1>2, <1>3, <1>5 DEF CallsInv, Results, Waits
<1>7. OneWaits' /\ Late'
  BY <1>2, <1>3 DEF CallsInv, OneWaits, Late
<1>8. OwnAnswer'
  <2>1. ASSUME NEW d \in Calls, call'[d].phase = "answered", call'[d].from # d, NEW from \in Calls, from = call'[d].from
        PROVE  /\ call'[from].phase = "timedOut" \/ call'[from].from \notin {from, NoCall}
               /\ \E e \in Calls : call'[e].phase = "timedOut"
    <3>1. call'[d] = call[d]
      BY <1>2, <2>1
    <3>2. call[from].phase = "timedOut" \/ call[from].from \notin {from, NoCall}
      BY <2>1, <3>1 DEF CallsInv, OwnAnswer, BackupCalls, Channel
    <3> QED
      BY <1>2, <1>3, <3>2
  <2>2. \A d \in Calls : call'[d].phase = "answered" => call'[d].from \in Calls
    BY <1>6 DEF Results, Taken
  <2> QED
    BY <2>1, <2>2 DEF OwnAnswer
<1> QED
  BY <1>4, <1>6, <1>7, <1>8 DEF CallsInv

\* The application is killed: nothing is left to be taken.
LEMMA CallsKill == ASSUME CallsInv, AppEnds PROVE CallsInv'
<1>1. CallsAre(BackupPlans) /\ <<>> \in BackupPlans
  BY DEF CallsInv, BackupCalls, BackupPlans
<1>2. /\ CallsAre(BackupPlans)' /\ mail' = <<>> /\ faults' = faults + 1
      /\ \A d \in Calls :
            /\ task'[d].todo = <<>> /\ task'[d].alone = task[d].alone
            /\ call'[d].kind = call[d].kind /\ call'[d].from = call[d].from
            /\ call'[d].phase = IF call[d].phase = "idle" THEN "idle" ELSE "over"
  BY <1>1, Killed
<1>3. \A d \in Calls : ~OnMail(d)' /\ ~Live(d)' /\ ~Waits(d)' /\ (Ended(d)' <=> call[d].phase # "idle")
  <2>1. Len(mail') = 0
    BY <1>2
  <2> QED
    BY <1>2, <2>1 DEF OnMail, Live, Running, Waits, Ended
<1>4. BackupCalls' /\ Apart'
  BY <1>2, CreateSteps, ApartKept DEF CallsInv, BackupCalls, Running
<1>5. Taken \subseteq Taken'
  BY <1>3 DEF Taken, Ended
<1>6. Results'
  BY <1>2, <1>3, <1>5 DEF CallsInv, Results
<1>7. OneWaits' /\ Late' /\ OwnAnswer'
  BY <1>2, <1>3 DEF OneWaits, Late, OwnAnswer
<1> QED
  BY <1>4, <1>6, <1>7 DEF CallsInv

-----------------------------------------------------------------------------
(***************************************************************************)
(* What a backup that is alone has collected, and what a restore that is   *)
(* alone has written.                                                      *)
(***************************************************************************)
\* The step a task that runs takes next.
At(c) == Head(task[c].todo)
Alone(c) == Running(c) /\ task[c].alone

\* A backup has what there was of every part it has collected.
Gathers(c) ==
    LET was == work[c].was
        data == work[c].data
    IN  call[c].kind = "create" /\ Alone(c) =>
           /\ prefs = was.prefs /\ disk = was.disk
           /\ At(c) # "collectPrefs" => data.shared = was.prefs.data.shared
           /\ At(c) \notin {"collectPrefs", "collectSubs"} =>
                 data.parts["subsList"] = was.disk["subsList"] /\ data.parts["subs"] = was.disk["subs"]
           /\ At(c) \in {"collectFile", "openFile", "fillFile"} => data.parts["over"] = was.disk["over"]
           /\ At(c) \in {"openFile", "fillFile"} =>
                 data.parts["file"] = was.disk["file"] \/ (faults > 0 /\ data.parts["file"] = "none")

\* The preferences of the backup with those of this device.
Merged(c) == Good([shared |-> work[c].data.shared, device |-> Load(work[c].was.prefs).device])

PrefsStand(c) ==
    /\ At(c) \in {"verify", "readPrefs", "openPrefs"} => prefs = work[c].was.prefs
    /\ At(c) \notin {"verify", "readPrefs"} => work[c].keys = Load(work[c].was.prefs).device
    /\ At(c) = "fillPrefs" => prefs = Broken
    /\ At(c) \in {"clearSubs", "writeSubs", "clearOver", "writeOver", "writeFile"} => prefs = Merged(c)

DiskStands(c) ==
    LET was == work[c].was.disk IN
    /\ disk["file"] = was["file"]
    /\ disk["over"] = IF At(c) = "writeFile" THEN Restored(c, "over")
                      ELSE IF At(c) = "writeOver" THEN "none" ELSE was["over"]
    /\ IF At(c) \in {"clearOver", "writeOver", "writeFile"}
       THEN disk["subsList"] = Restored(c, "subsList") /\ disk["subs"] = Restored(c, "subs")
       ELSE disk["subsList"] = was["subsList"] /\ disk["subs"] = IF At(c) = "writeSubs" THEN "none" ELSE was["subs"]

\* A restore has written the parts it has come to, and left the others.
Restores(c) == call[c].kind = "restore" /\ Alone(c) => PrefsStand(c) /\ DiskStands(c)

\* What a restore that has ended well has made of the preferences stays until they are
\* loaded or it is not alone any more.
Stays(c) ==
    call[c].kind = "restore" /\ Ended(c) /\ call[c].phase # "over" /\ task[c].alone /\ task[c].ok => prefs = Merged(c)

Stands(c) == Gathers(c) /\ Restores(c) /\ Stays(c)
WorkInv == BackupTypeOK /\ \A c \in Calls : Stands(c)

WorkRecord == [data: BackupFiles, keys: 0..(MaxSaves + 1), was: [prefs: PrefsFiles, disk: [Parts -> Contents]]]

\* What the functions of the model return.
LEMMA FileRecords ==
    /\ MaxSaves \in Nat
    /\ Parts = {"subsList", "subs", "over", "file"}
    /\ Broken \in PrefsFiles /\ ~Broken.good /\ Unread \in BackupFiles
    /\ NoPreferences \in Preferences
    /\ \A f \in PrefsFiles : Load(f) \in Preferences
    /\ \A data \in Preferences : Good(data) \in PrefsFiles /\ Written(data) \subseteq PrefsFiles
<1>1. MaxSaves \in Nat
  BY BackupAssumption
<1>2. NoPreferences \in Preferences
  BY <1>1 DEF NoPreferences, Preferences, Shared
<1>3. Broken \in PrefsFiles /\ ~Broken.good
  BY <1>2 DEF Broken, PrefsFiles
<1>4. Unread \in BackupFiles
  BY DEF Unread, BackupFiles, Shared, EveryPart, Contents
<1>5. \A f \in PrefsFiles : Load(f) \in Preferences
  BY <1>2 DEF Load, PrefsFiles
<1>6. \A data \in Preferences : Good(data) \in PrefsFiles
  BY DEF Good, PrefsFiles
<1>7. \A data \in Preferences : Written(data) \subseteq PrefsFiles
  BY <1>3, <1>6, Zenon DEF Written
<1> QED
  BY <1>1, <1>2, <1>3, <1>4, <1>5, <1>6, <1>7 DEF Parts

\* The types of what a task has read.
LEMMA WorkTypes ==
    ASSUME BackupTypeOK, NEW c \in Calls
    PROVE  /\ work \in [Calls -> WorkRecord] /\ work[c] \in WorkRecord
           /\ work[c].data \in BackupFiles /\ work[c].data.shared \in Shared
           /\ work[c].data.parts \in [Parts -> Contents]
           /\ work[c].keys \in 0..(MaxSaves + 1)
BY DEF BackupTypeOK, WorkRecord, BackupFiles

\* A backup or a restore is asked for: it has seen what there is.
LEMMA WorkAsked ==
    ASSUME BackupTypeOK, NEW c \in Calls, AskBackup(c)
    PROVE  /\ BackupTypeOK' /\ UNCHANGED <<prefs, disk, file>>
           /\ work'[c].was.prefs = prefs /\ work'[c].was.disk = disk
           /\ \A d \in Calls \ {c} : work'[d] = work[d]
<1> DEFINE new == [work[c] EXCEPT !.was = [prefs |-> prefs, disk |-> disk]]
<1>1. work' = [work EXCEPT ![c] = new] /\ UNCHANGED <<prefs, cache, saving, saves, disk, file>>
  BY DEF AskBackup
<1>2. new \in WorkRecord /\ new.was.prefs = prefs /\ new.was.disk = disk
  BY WorkTypes DEF BackupTypeOK, WorkRecord
<1>3. work \in [Calls -> WorkRecord]
  BY WorkTypes
<1> HIDE DEF new
<1>4. work' \in [Calls -> WorkRecord] /\ work'[c] = new /\ \A d \in Calls \ {c} : work'[d] = work[d]
  BY <1>1, <1>2, <1>3
<1> QED
  BY <1>1, <1>2, <1>4 DEF BackupTypeOK, WorkRecord

\* A part is collected, and what else a task reads.
LEMMA WorkCollected ==
    ASSUME BackupTypeOK, NEW c \in Calls, UNCHANGED <<prefs, cache, saving, saves, disk, file>>
    PROVE  /\ work' = work => BackupTypeOK' /\ work'[c] = work[c]
           /\ work' = [work EXCEPT ![c].data.shared = prefs.data.shared] =>
                 /\ BackupTypeOK' /\ work'[c].was = work[c].was
                 /\ work'[c].data.shared = prefs.data.shared /\ work'[c].data.parts = work[c].data.parts
           /\ \A p \in Parts, content \in Contents : work' = [work EXCEPT ![c].data.parts[p] = content] =>
                 /\ BackupTypeOK' /\ work'[c].was = work[c].was /\ work'[c].data.shared = work[c].data.shared
                 /\ \A q \in Parts : work'[c].data.parts[q] = IF q = p THEN content ELSE work[c].data.parts[q]
           /\ work' = [work EXCEPT ![c].data.parts = [@ EXCEPT !["subsList"] = disk["subsList"], !["subs"] = disk["subs"]]] =>
                 /\ BackupTypeOK' /\ work'[c].was = work[c].was /\ work'[c].data.shared = work[c].data.shared
                 /\ \A q \in Parts : work'[c].data.parts[q] = IF q \in {"subsList", "subs"} THEN disk[q] ELSE work[c].data.parts[q]
           /\ work' = [work EXCEPT ![c].data = file] =>
                 /\ BackupTypeOK' /\ work'[c].was = work[c].was
           /\ \A keys \in 0..(MaxSaves + 1) : work' = [work EXCEPT ![c].keys = keys] =>
                 /\ BackupTypeOK' /\ work'[c].was = work[c].was /\ work'[c].data = work[c].data /\ work'[c].keys = keys
<1> DEFINE w == work[c]
<1>1. /\ work \in [Calls -> WorkRecord] /\ w \in WorkRecord
      /\ w.data \in BackupFiles /\ w.data.parts \in [Parts -> Contents]
  BY WorkTypes
<1>2. /\ file \in BackupFiles /\ disk \in [Parts -> Contents] /\ prefs.data.shared \in Shared
  BY DEF BackupTypeOK, PrefsFiles, Preferences
<1>3. ASSUME NEW new \in WorkRecord, work' = [work EXCEPT ![c] = new]
      PROVE  BackupTypeOK' /\ work'[c] = new
  BY <1>1, <1>3 DEF BackupTypeOK, WorkRecord
<1>4. ASSUME NEW data \in BackupFiles, work' = [work EXCEPT ![c].data = data]
      PROVE  BackupTypeOK' /\ work'[c].was = w.was /\ work'[c].data = data
  <2> DEFINE new == [w EXCEPT !.data = data]
  <2>1. new \in WorkRecord /\ new.was = w.was /\ new.data = data
    BY <1>1 DEF WorkRecord
  <2>2. work' = [work EXCEPT ![c] = new]
    BY <1>4
  <2> HIDE DEF new
  <2> QED
    BY <1>3, <2>1, <2>2
<1>5. ASSUME NEW parts \in [Parts -> Contents], work' = [work EXCEPT ![c].data.parts = parts]
      PROVE  /\ BackupTypeOK' /\ work'[c].was = w.was /\ work'[c].data.shared = w.data.shared
             /\ work'[c].data.parts = parts
  <2> DEFINE data == [w.data EXCEPT !.parts = parts]
  <2>1. data \in BackupFiles /\ data.shared = w.data.shared /\ data.parts = parts
    BY <1>1 DEF BackupFiles
  <2>2. work' = [work EXCEPT ![c].data = data]
    BY <1>5
  <2> HIDE DEF data
  <2> QED
    BY <1>4, <2>1, <2>2
<1>6. ASSUME work' = [work EXCEPT ![c].data.shared = prefs.data.shared]
      PROVE  /\ BackupTypeOK' /\ work'[c].was = w.was
             /\ work'[c].data.shared = prefs.data.shared /\ work'[c].data.parts = w.data.parts
  <2> DEFINE data == [w.data EXCEPT !.shared = prefs.data.shared]
  <2>1. data \in BackupFiles /\ data.shared = prefs.data.shared /\ data.parts = w.data.parts
    BY <1>1, <1>2 DEF BackupFiles
  <2>2. work' = [work EXCEPT ![c].data = data]
    BY <1>6
  <2> HIDE DEF data
  <2> QED
    BY <1>4, <2>1, <2>2
<1>7. ASSUME NEW p \in Parts, NEW content \in Contents, work' = [work EXCEPT ![c].data.parts[p] = content]
      PROVE  /\ BackupTypeOK' /\ work'[c].was = w.was /\ work'[c].data.shared = w.data.shared
             /\ \A q \in Parts : work'[c].data.parts[q] = IF q = p THEN content ELSE w.data.parts[q]
  <2> DEFINE parts == [w.data.parts EXCEPT ![p] = content]
  <2>1. parts \in [Parts -> Contents] /\ \A q \in Parts : parts[q] = IF q = p THEN content ELSE w.data.parts[q]
    BY <1>1
  <2>2. work' = [work EXCEPT ![c].data.parts = parts]
    BY <1>7
  <2> HIDE DEF parts
  <2> QED
    BY <1>5, <2>1, <2>2
<1>8. ASSUME work' = [work EXCEPT ![c].data.parts = [@ EXCEPT !["subsList"] = disk["subsList"], !["subs"] = disk["subs"]]]
      PROVE  /\ BackupTypeOK' /\ work'[c].was = w.was /\ work'[c].data.shared = w.data.shared
             /\ \A q \in Parts : work'[c].data.parts[q] = IF q \in {"subsList", "subs"} THEN disk[q] ELSE w.data.parts[q]
  <2> DEFINE parts == [w.data.parts EXCEPT !["subsList"] = disk["subsList"], !["subs"] = disk["subs"]]
  <2>1. "subsList" \in Parts /\ "subs" \in Parts
    BY FileRecords
  <2>2. /\ parts \in [Parts -> Contents]
        /\ \A q \in Parts : parts[q] = IF q \in {"subsList", "subs"} THEN disk[q] ELSE w.data.parts[q]
    BY <1>1, <1>2, <2>1
  <2>3. work' = [work EXCEPT ![c].data.parts = parts]
    BY <1>8
  <2> HIDE DEF parts
  <2> QED
    BY <1>5, <2>2, <2>3
<1>9. ASSUME NEW keys \in 0..(MaxSaves + 1), work' = [work EXCEPT ![c].keys = keys]
      PROVE  BackupTypeOK' /\ work'[c].was = w.was /\ work'[c].data = w.data /\ work'[c].keys = keys
  <2> DEFINE new == [w EXCEPT !.keys = keys]
  <2>1. new \in WorkRecord /\ new.was = w.was /\ new.data = w.data /\ new.keys = keys
    BY <1>1 DEF WorkRecord
  <2>2. work' = [work EXCEPT ![c] = new]
    BY <1>9
  <2> HIDE DEF new
  <2> QED
    BY <1>3, <2>1, <2>2
<1>10. work' = work => BackupTypeOK'
  BY DEF BackupTypeOK
<1> QED
  BY <1>2, <1>4, <1>6, <1>7, <1>8, <1>9, <1>10

LEMMA PartCollected ==
    ASSUME BackupTypeOK, NEW c \in Calls, UNCHANGED <<prefs, cache, saving, saves, disk, file>>,
           NEW p \in Parts, NEW content \in Contents, work' = [work EXCEPT ![c].data.parts[p] = content]
    PROVE  /\ BackupTypeOK' /\ work'[c].was = work[c].was /\ work'[c].data.shared = work[c].data.shared
           /\ \A q \in Parts : work'[c].data.parts[q] = IF q = p THEN content ELSE work[c].data.parts[q]
BY WorkCollected

\* The actions of CreateDoes, RestoreDoes and DeviceKept.
CreateEnds(c) ==
    /\ file'.good
    /\ file'.shared = work[c].was.prefs.data.shared
    /\ \A p \in Parts : \/ file'.parts[p] = work[c].was.disk[p]
                        \/ p = "file" /\ faults > 0 /\ file'.parts[p] = "none"
RestoreEnds(c) ==
    /\ \A p \in Parts : disk'[p] = Restored(c, p)
    /\ prefs' = Good([shared |-> work[c].data.shared, device |-> Load(work[c].was.prefs).device])
CreateResult == \A c \in Calls : EndsWell(c, "create") => CreateEnds(c)
RestoreResult == \A c \in Calls : EndsWell(c, "restore") => RestoreEnds(c)
ReloadResult ==
    \A c \in Calls :
       (Reload(c) /\ cache' # cache /\ call[c].from = c /\ task[c].alone /\ saving = <<>>)
       => /\ cache'.shared = work[c].data.shared
          /\ work[c].was.prefs = Good(cache) => cache'.device = cache.device

\* The plan of a task that runs.
LEMMA PlanOf ==
    ASSUME BackupCalls, NEW c \in Calls, Running(c)
    PROVE  /\ call[c].phase # "idle" /\ task[c].todo # <<>>
           /\ \A step : Doing(c, step) <=> At(c) = step
           /\ \/ call[c].kind = "create" /\ task[c].todo \in Creating
              \/ call[c].kind = "restore" /\ task[c].todo \in Restoring
<1>1. task[c].todo \in BackupPlans
  BY DEF BackupCalls, CallsAre
<1> QED
  BY <1>1 DEF BackupCalls, BackupPlans, Running, Doing, At

\* A step of a task: if it is alone, it is the only one that counts.
LEMMA TaskStands ==
    ASSUME CallsInv, NEW c \in Calls, Running(c), NEW steps \in BackupPlans, NEW ok \in BOOLEAN, GoTo(c, steps, ok),
           faults' \in Nat, ~ok => steps = <<>>,
           task[c].alone /\ ok => Stands(c)',
           task[c].alone /\ ok /\ steps = <<>> => (call[c].kind = "create" => CreateEnds(c)),
           task[c].alone /\ ok /\ steps = <<>> => (call[c].kind = "restore" => RestoreEnds(c))
    PROVE  (\A d \in Calls : Stands(d)') /\ CreateResult /\ RestoreResult
<1>1. CallsAre(BackupPlans)
  BY DEF CallsInv, BackupCalls
<1>2. /\ call' = call
      /\ task'[c].todo = steps /\ task'[c].ok = ok /\ task'[c].alone = task[c].alone
      /\ \A d \in Calls \ {c} : task'[d] = task[d]
  BY <1>1, Gone
<1>3. \A d \in Calls \ {c} : call[d].phase # "idle" => ~task[d].alone
  BY PlanOf DEF CallsInv, Apart, BackupCalls, Channel
<1>4. \A d \in Calls \ {c} : Running(d) => call[d].phase # "idle"
  BY PlanOf DEF CallsInv
<1>5. ASSUME NEW d \in Calls \ {c} PROVE Stands(d)'
  <2>1. ~Alone(d)' /\ (Ended(d)' => ~task'[d].alone)
    BY <1>2, <1>3, <1>4 DEF Alone, Running, Ended
  <2> QED
    BY <2>1 DEF Stands, Gathers, Restores, Stays
<1>6. Stands(c)'
  <2>1. ASSUME ~(task[c].alone /\ ok) PROVE ~Alone(c)' /\ ~(task'[c].alone /\ task'[c].ok)
    BY <1>2, <2>1 DEF Alone, Running
  <2>2. CASE ~(task[c].alone /\ ok)
    BY <2>1, <2>2 DEF Stands, Gathers, Restores, Stays
  <2> QED
    BY <2>2
<1>7. \A d \in Calls : Sends(d) => d = c /\ steps = <<>>
  BY <1>1, SendsOwn
<1>8. CreateResult /\ RestoreResult
  BY <1>2, <1>7 DEF CreateResult, RestoreResult, EndsWell
<1> QED
  BY <1>5, <1>6, <1>8

\* A step that fails ends the task.
LEMMA FailStands ==
    ASSUME CallsInv, NEW c \in Calls, Running(c), GoTo(c, <<>>, FALSE), faults' \in Nat
    PROVE  (\A d \in Calls : Stands(d)') /\ CreateResult /\ RestoreResult
BY TaskStands DEF BackupPlans

\* A step of a backup that goes on: what it has collected.
LEMMA CreateGoes ==
    ASSUME CallsInv, NEW c \in Calls, Running(c), call[c].kind = "create", NEW steps \in Creating, GoTo(c, steps, TRUE),
           faults' \in {faults, faults + 1}, UNCHANGED <<prefs, disk>>, Stands(c), work'[c].was = work[c].was,
           LET was == work[c].was
               data == work'[c].data
           IN  task[c].alone /\ prefs = was.prefs /\ disk = was.disk =>
                 /\ Head(steps) # "collectPrefs" => data.shared = was.prefs.data.shared
                 /\ Head(steps) \notin {"collectPrefs", "collectSubs"} =>
                       data.parts["subsList"] = was.disk["subsList"] /\ data.parts["subs"] = was.disk["subs"]
                 /\ Head(steps) \in {"collectFile", "openFile", "fillFile"} => data.parts["over"] = was.disk["over"]
                 /\ Head(steps) \in {"openFile", "fillFile"} =>
                       data.parts["file"] = was.disk["file"] \/ (faults' > 0 /\ data.parts["file"] = "none")
    PROVE  (\A d \in Calls : Stands(d)') /\ CreateResult /\ RestoreResult
<1>1. CallsAre(BackupPlans) /\ steps \in BackupPlans /\ steps # <<>> /\ faults' \in Nat
  BY CreateSteps DEF CallsInv, BackupCalls, BackupPlans, CallsAre
<1>2. call' = call /\ task'[c].todo = steps /\ task'[c].alone = task[c].alone
  BY <1>1, Gone
<1>3. At(c)' = Head(steps)
  BY <1>2 DEF At
<1>4. task[c].alone => prefs = work[c].was.prefs /\ disk = work[c].was.disk
  BY DEF Stands, Gathers, Alone
<1>5. task[c].alone => Gathers(c)'
  BY <1>3, <1>4 DEF Gathers
<1>6. Stands(c)' \/ ~task[c].alone
  BY <1>2, <1>5 DEF Stands, Restores, Stays
<1> QED
  BY <1>1, <1>6, TaskStands

\* The steps of a backup.
LEMMA CreateStands ==
    ASSUME CallsInv, WorkInv, NEW c \in Calls, Collect(c) \/ WriteFile(c) \/ CreateFails(c),
           UNCHANGED <<cache, saving, saves>>
    PROVE  BackupTypeOK' /\ (\A d \in Calls : Stands(d)') /\ CreateResult /\ RestoreResult
<1> DEFINE p == task[c].todo
<1>1. Running(c) /\ Stands(c) /\ BackupTypeOK /\ faults \in Nat
  BY DEF Collect, CollectPrefs, CollectSubs, CollectOver, CollectFile, WriteFile, CreateFails, Doing, WorkInv,
     CallsInv, BackupCalls, CallsAre
<1>2. /\ \A step : Doing(c, step) <=> At(c) = step
      /\ \/ call[c].kind = "create" /\ p \in Creating
         \/ call[c].kind = "restore" /\ p \in Restoring
  BY <1>1, PlanOf DEF CallsInv
<1>3. call[c].kind = "create" /\ p \in Creating /\ At(c) = Head(p)
  <2>1. At(c) \in {"collectPrefs", "collectSubs", "collectOver", "collectFile", "openFile", "fillFile"}
    BY <1>2 DEF Collect, CollectPrefs, CollectSubs, CollectOver, CollectFile, WriteFile, CreateFails
  <2> QED
    BY <1>2, <2>1, RestoreSteps DEF At
<1>4. faults + 1 \in Nat /\ Parts = {"subsList", "subs", "over", "file"}
  BY <1>1, FileRecords
<1>5. task[c].alone => Gathers(c) /\ Alone(c)
  BY <1>1 DEF Stands, Alone
<1>6. disk \in [Parts -> Contents] /\ "none" \in Contents /\ \A q \in Parts : disk[q] \in Contents
  BY <1>1 DEF BackupTypeOK, Contents
<1>7. CASE CollectPrefs(c) /\ UNCHANGED <<prefs, disk, file>>
  <2>1. At(c) = "collectPrefs" /\ Tail(p) \in Creating /\ Head(Tail(p)) = "collectSubs"
    BY <1>2, <1>3, <1>7, CreateSteps DEF CollectPrefs
  <2>2. CASE prefs.good
    <3>1. /\ GoTo(c, Tail(p), TRUE) /\ faults' = faults
          /\ work' = [work EXCEPT ![c].data.shared = prefs.data.shared]
      BY <1>7, <2>2 DEF CollectPrefs, StepDone
    <3>2. BackupTypeOK' /\ work'[c].was = work[c].was /\ work'[c].data.shared = prefs.data.shared
      BY <1>1, <1>7, <3>1, WorkCollected
    <3> HIDE DEF p
    <3> QED
      BY <1>1, <1>3, <1>7, <2>1, <3>1, <3>2, CreateGoes
  <2>3. CASE ~prefs.good
    <3>1. GoTo(c, <<>>, FALSE) /\ faults' = faults /\ work' = work
      BY <1>7, <2>3 DEF CollectPrefs, Refuse
    <3> QED
      BY <1>1, <1>7, <3>1, WorkCollected, FailStands
  <2> QED
    BY <2>2, <2>3
<1>8. CASE CollectSubs(c) /\ UNCHANGED <<prefs, disk, file>>
  <2>1. At(c) = "collectSubs" /\ Tail(p) \in Creating /\ Head(Tail(p)) = "collectOver"
    BY <1>2, <1>3, <1>8, CreateSteps DEF CollectSubs
  <2>2. /\ GoTo(c, Tail(p), TRUE) /\ faults' = faults
        /\ work' = [work EXCEPT ![c].data.parts = [@ EXCEPT !["subsList"] = disk["subsList"], !["subs"] = disk["subs"]]]
    BY <1>8 DEF CollectSubs, StepDone
  <2>3. /\ BackupTypeOK' /\ work'[c].was = work[c].was /\ work'[c].data.shared = work[c].data.shared
        /\ \A q \in Parts : work'[c].data.parts[q] = IF q \in {"subsList", "subs"} THEN disk[q] ELSE work[c].data.parts[q]
    BY <1>1, <1>8, <2>2, WorkCollected
  <2>4. work'[c].data.parts["subsList"] = disk["subsList"] /\ work'[c].data.parts["subs"] = disk["subs"]
    BY <1>4, <2>3
  <2> HIDE DEF p
  <2> QED
    BY <1>1, <1>3, <1>5, <1>8, <2>1, <2>2, <2>3, <2>4, CreateGoes DEF Gathers
<1>9. CASE CollectOver(c) /\ UNCHANGED <<prefs, disk, file>>
  <2>1. At(c) = "collectOver" /\ Tail(p) \in Creating /\ Head(Tail(p)) = "collectFile"
    BY <1>2, <1>3, <1>9, CreateSteps DEF CollectOver
  <2>2. /\ GoTo(c, Tail(p), TRUE) /\ faults' = faults
        /\ work' = [work EXCEPT ![c].data.parts["over"] = disk["over"]]
    BY <1>9 DEF CollectOver, Collected, StepDone
  <2>3. /\ BackupTypeOK' /\ work'[c].was = work[c].was /\ work'[c].data.shared = work[c].data.shared
        /\ \A q \in Parts : work'[c].data.parts[q] = IF q = "over" THEN disk["over"] ELSE work[c].data.parts[q]
    <3>1. "over" \in Parts /\ disk["over"] \in Contents
      BY <1>4, <1>6
    <3>2. UNCHANGED <<prefs, cache, saving, saves, disk, file>>
      BY <1>9
    <3> QED
      BY <1>1, <2>2, <3>1, <3>2, PartCollected
  <2>4. /\ work'[c].data.parts["over"] = disk["over"]
        /\ work'[c].data.parts["subsList"] = work[c].data.parts["subsList"]
        /\ work'[c].data.parts["subs"] = work[c].data.parts["subs"]
    BY <1>4, <2>3
  <2> HIDE DEF p
  <2> QED
    BY <1>1, <1>3, <1>5, <1>9, <2>1, <2>2, <2>3, <2>4, CreateGoes DEF Gathers
<1>10. CASE CollectFile(c) /\ UNCHANGED <<prefs, disk, file>>
  <2>1. At(c) = "collectFile" /\ Tail(p) \in Creating /\ Head(Tail(p)) = "openFile"
    BY <1>2, <1>3, <1>10, CreateSteps DEF CollectFile
  <2>2. PICK content \in {disk["file"], "none"} :
           /\ GoTo(c, Tail(p), TRUE)
           /\ (faults' = faults /\ content = disk["file"]) \/ (faults' = faults + 1 /\ content = "none")
           /\ work' = [work EXCEPT ![c].data.parts["file"] = content]
    <3>1. CASE StepDone(c) /\ Collected(c, "file", disk["file"])
      BY <3>1 DEF Collected, StepDone
    <3>2. CASE Breaks /\ GoTo(c, Tail(p), TRUE) /\ Collected(c, "file", "none")
      BY <3>2 DEF Collected, Breaks
    <3> QED
      BY <1>10, <3>1, <3>2 DEF CollectFile
  <2>3. /\ BackupTypeOK' /\ work'[c].was = work[c].was /\ work'[c].data.shared = work[c].data.shared
        /\ \A q \in Parts : work'[c].data.parts[q] = IF q = "file" THEN content ELSE work[c].data.parts[q]
    <3>1. "file" \in Parts /\ content \in Contents
      BY <1>4, <1>6
    <3>2. UNCHANGED <<prefs, cache, saving, saves, disk, file>>
      BY <1>10
    <3> QED
      BY <1>1, <2>2, <3>1, <3>2, PartCollected
  <2>4. /\ work'[c].data.parts["file"] = content
        /\ work'[c].data.parts["over"] = work[c].data.parts["over"]
        /\ work'[c].data.parts["subsList"] = work[c].data.parts["subsList"]
        /\ work'[c].data.parts["subs"] = work[c].data.parts["subs"]
    BY <1>4, <2>3
  <2>5. faults' \in {faults, faults + 1} /\ (content = disk["file"] \/ (faults' > 0 /\ content = "none"))
    BY <1>1, <2>2
  <2> HIDE DEF p
  <2> QED
    BY <1>1, <1>3, <1>5, <1>10, <2>1, <2>2, <2>3, <2>4, <2>5, CreateGoes DEF Gathers
<1>11. CASE WriteFile(c)
  <2>1. GoTo(c, Tail(p), TRUE) /\ faults' = faults /\ UNCHANGED <<prefs, disk, work>>
    BY <1>11 DEF WriteFile, StepDone
  <2>2. CASE At(c) = "openFile" /\ file' = Unread
    <3>1. Tail(p) \in Creating /\ Head(Tail(p)) = "fillFile"
      BY <1>3, <2>2, CreateSteps
    <3>2. BackupTypeOK'
      BY <1>1, <2>1, <2>2, FileRecords DEF BackupTypeOK
    <3> HIDE DEF p
    <3> QED
      BY <1>1, <1>3, <1>5, <2>1, <2>2, <3>1, <3>2, CreateGoes DEF Gathers
  <2>3. CASE At(c) = "fillFile" /\ file' = [work[c].data EXCEPT !.good = TRUE]
    <3>1. Tail(p) = <<>> /\ GoTo(c, <<>>, TRUE)
      BY <1>3, <2>1, <2>3, CreateSteps
    <3>2. work[c].data \in BackupFiles
      BY <1>1, WorkTypes
    <3>3. file' \in BackupFiles /\ file'.good /\ file'.shared = work[c].data.shared /\ file'.parts = work[c].data.parts
      BY <2>3, <3>2 DEF BackupFiles
    <3>4. BackupTypeOK'
      BY <1>1, <2>1, <3>3 DEF BackupTypeOK
    <3>5. task[c].alone => CreateEnds(c)
      BY <1>3, <1>4, <1>5, <2>3, <3>3 DEF Gathers, CreateEnds
    <3>6. CallsAre(BackupPlans) /\ <<>> \in BackupPlans
      BY DEF CallsInv, BackupCalls, BackupPlans
    <3>7. call' = call /\ ~Running(c)'
      BY <1>1, <2>1, <3>1, <3>6, Gone DEF Running
    <3>8. Stands(c)'
      BY <1>3, <3>7 DEF Stands, Gathers, Restores, Stays, Alone
    <3> QED
      BY <1>1, <1>3, <2>1, <3>1, <3>4, <3>5, <3>6, <3>8, TaskStands
  <2> QED
    BY <1>2, <1>11, <2>2, <2>3 DEF WriteFile
<1>12. CASE CreateFails(c)
  <2>1. GoTo(c, <<>>, FALSE) /\ faults' = faults + 1 /\ UNCHANGED <<prefs, disk, file, work>>
    BY <1>12 DEF CreateFails, StepBreaks, Breaks
  <2> QED
    BY <1>1, <1>4, <2>1, WorkCollected, FailStands
<1> QED
  BY <1>7, <1>8, <1>9, <1>10, <1>11, <1>12 DEF Collect

\* A restore goes on: where it comes to, and what it has written until then.
LEMMA RestoreGoes ==
    ASSUME CallsInv, NEW c \in Calls, Running(c), call[c].kind = "restore", NEW steps \in Restoring,
           GoTo(c, steps, TRUE), faults' = faults,
           task[c].alone /\ At(c)' = Head(steps) => PrefsStand(c)' /\ DiskStands(c)'
    PROVE  (\A d \in Calls : Stands(d)') /\ CreateResult /\ RestoreResult
<1>1. CallsAre(BackupPlans) /\ steps \in BackupPlans /\ steps # <<>> /\ faults' \in Nat
  BY CreateSteps DEF CallsInv, BackupCalls, BackupPlans, CallsAre
<1>2. call' = call /\ task'[c].todo = steps /\ task'[c].alone = task[c].alone
  BY <1>1, Gone
<1>3. At(c)' = Head(steps)
  BY <1>2 DEF At
<1>4. Stands(c)' \/ ~task[c].alone
  BY <1>1, <1>2, <1>3 DEF Stands, Gathers, Restores, Stays, Ended, Running
<1> QED
  BY <1>1, <1>4, TaskStands

\* What is written in the steps that write a part.
LEMMA WritesOf ==
    /\ DOMAIN Writes = {"writeSubs", "writeOver", "writeFile"}
    /\ Writes["writeSubs"] = {"subsList", "subs"} /\ Writes["writeOver"] = {"over"} /\ Writes["writeFile"] = {"file"}
BY DEF Writes

\* The steps of a restore in which it reads, and writes the preferences.
LEMMA RestorePrefsStands ==
    ASSUME CallsInv, WorkInv, NEW c \in Calls, Verify(c) \/ ReadPrefs(c) \/ WritePrefs(c),
           UNCHANGED <<cache, saving, saves>>
    PROVE  BackupTypeOK' /\ (\A d \in Calls : Stands(d)') /\ CreateResult /\ RestoreResult
<1> DEFINE p == task[c].todo
<1>1. Running(c) /\ Stands(c) /\ BackupTypeOK /\ faults \in Nat
  BY DEF Verify, ReadPrefs, WritePrefs, Doing, WorkInv, CallsInv, BackupCalls, CallsAre
<1>2. /\ \A step : Doing(c, step) <=> At(c) = step
      /\ \/ call[c].kind = "create" /\ p \in Creating
         \/ call[c].kind = "restore" /\ p \in Restoring
  BY <1>1, PlanOf DEF CallsInv
<1>3. call[c].kind = "restore" /\ p \in Restoring /\ At(c) = Head(p)
  <2>1. At(c) \in {"verify", "readPrefs", "openPrefs", "fillPrefs"}
    BY <1>2 DEF Verify, ReadPrefs, WritePrefs
  <2> QED
    BY <1>2, <2>1, CreateSteps DEF At
<1>4. task[c].alone => PrefsStand(c) /\ DiskStands(c)
  BY <1>1, <1>3 DEF Stands, Restores, Alone
<1>5. CASE Verify(c)
  <2>1. At(c) = "verify" /\ Tail(p) \in Restoring /\ Head(Tail(p)) = "readPrefs" /\ UNCHANGED <<prefs, disk, file>>
    BY <1>2, <1>3, <1>5, RestoreSteps DEF Verify
  <2>2. CASE file.good
    <3>1. GoTo(c, Tail(p), TRUE) /\ faults' = faults /\ work' = [work EXCEPT ![c].data = file]
      BY <1>5, <2>2 DEF Verify, StepDone
    <3>2. BackupTypeOK' /\ work'[c].was = work[c].was
      BY <1>1, <2>1, <3>1, WorkCollected
    <3>3. task[c].alone /\ At(c)' = "readPrefs" => PrefsStand(c)' /\ DiskStands(c)'
      BY <1>4, <2>1, <3>2 DEF PrefsStand, DiskStands
    <3> HIDE DEF p
    <3> QED
      BY <1>1, <1>3, <2>1, <3>1, <3>2, <3>3, RestoreGoes
  <2>3. CASE ~file.good
    <3>1. GoTo(c, <<>>, FALSE) /\ faults' = faults /\ work' = work
      BY <1>5, <2>3 DEF Verify, Refuse
    <3> QED
      BY <1>1, <2>1, <3>1, WorkCollected, FailStands
  <2> QED
    BY <2>2, <2>3
<1>6. CASE ReadPrefs(c)
  <2>1. At(c) = "readPrefs" /\ Tail(p) \in Restoring /\ Head(Tail(p)) = "openPrefs" /\ UNCHANGED <<prefs, disk, file>>
    BY <1>2, <1>3, <1>6, RestoreSteps DEF ReadPrefs
  <2>2. GoTo(c, Tail(p), TRUE) /\ faults' = faults /\ work' = [work EXCEPT ![c].keys = Load(prefs).device]
    BY <1>6 DEF ReadPrefs, StepDone
  <2>3. Load(prefs).device \in 0..(MaxSaves + 1)
    <3>1. Load(prefs) \in Preferences
      BY <1>1, FileRecords DEF BackupTypeOK
    <3> QED
      BY <3>1 DEF Preferences
  <2>4. /\ BackupTypeOK' /\ work'[c].was = work[c].was /\ work'[c].data = work[c].data
        /\ work'[c].keys = Load(prefs).device
    BY <1>1, <1>6, <2>1, <2>2, <2>3, WorkCollected
  <2>5. task[c].alone /\ At(c)' = "openPrefs" => PrefsStand(c)' /\ DiskStands(c)'
    BY <1>4, <2>1, <2>4 DEF PrefsStand, DiskStands
  <2> HIDE DEF p
  <2> QED
    BY <1>1, <1>3, <2>1, <2>2, <2>4, <2>5, RestoreGoes
<1>7. CASE WritePrefs(c)
  <2>1. GoTo(c, Tail(p), TRUE) /\ faults' = faults /\ UNCHANGED <<disk, file, work>>
    BY <1>7 DEF WritePrefs, StepDone
  <2> DEFINE data == [shared |-> work[c].data.shared, device |-> work[c].keys]
  <2>2. data \in Preferences
    BY <1>1, WorkTypes DEF Preferences
  <2>3. CASE At(c) = "openPrefs" /\ prefs' = Broken
    <3>1. Tail(p) \in Restoring /\ Head(Tail(p)) = "fillPrefs"
      BY <1>3, <2>3, RestoreSteps
    <3>2. BackupTypeOK'
      BY <1>1, <1>7, <2>1, <2>3, FileRecords DEF BackupTypeOK
    <3>3. task[c].alone /\ At(c)' = "fillPrefs" => PrefsStand(c)' /\ DiskStands(c)'
      BY <1>4, <2>1, <2>3 DEF PrefsStand, DiskStands
    <3> HIDE DEF p
    <3> QED
      BY <1>1, <1>3, <2>1, <3>1, <3>2, <3>3, RestoreGoes
  <2>4. CASE At(c) = "fillPrefs" /\ prefs' \in Written(data)
    <3>1. Tail(p) \in Restoring /\ Head(Tail(p)) = "clearSubs"
      BY <1>3, <2>4, RestoreSteps
    <3>2. BackupTypeOK'
      <4>1. prefs' \in PrefsFiles
        BY <2>2, <2>4, FileRecords
      <4> QED
        BY <1>1, <1>7, <2>1, <4>1 DEF BackupTypeOK
    <3>3. task[c].alone => prefs = Broken /\ work[c].keys = Load(work[c].was.prefs).device
      BY <1>4, <2>4 DEF PrefsStand
    <3>4. task[c].alone => prefs' = Merged(c)
      <4>1. task[c].alone => prefs' = Good(data)
        BY <2>4, <3>3, FileRecords DEF Written
      <4> QED
        BY <3>3, <4>1 DEF Merged
    <3>5. task[c].alone /\ At(c)' = "clearSubs" => PrefsStand(c)' /\ DiskStands(c)'
      <4>1. Merged(c)' = Merged(c)
        BY <2>1 DEF Merged
      <4> QED
        BY <1>4, <2>1, <2>4, <3>3, <3>4, <4>1 DEF PrefsStand, DiskStands
    <3> HIDE DEF p
    <3> QED
      BY <1>1, <1>3, <2>1, <3>1, <3>2, <3>5, RestoreGoes
  <2> QED
    BY <1>2, <1>7, <2>3, <2>4 DEF WritePrefs
<1> QED
  BY <1>5, <1>6, <1>7

\* The steps of a restore in which it clears and writes the other parts.
LEMMA RestorePartsStands ==
    ASSUME CallsInv, WorkInv, NEW c \in Calls, Clear(c) \/ WritePart(c), UNCHANGED <<cache, saving, saves>>
    PROVE  BackupTypeOK' /\ (\A d \in Calls : Stands(d)') /\ CreateResult /\ RestoreResult
<1> DEFINE p == task[c].todo
<1>1. Running(c) /\ Stands(c) /\ BackupTypeOK /\ faults \in Nat
  BY DEF Clear, WritePart, Doing, WorkInv, CallsInv, BackupCalls, CallsAre
<1>2. /\ \A step : Doing(c, step) <=> At(c) = step
      /\ \/ call[c].kind = "create" /\ p \in Creating
         \/ call[c].kind = "restore" /\ p \in Restoring
  BY <1>1, PlanOf DEF CallsInv
<1>3. call[c].kind = "restore" /\ p \in Restoring /\ At(c) = Head(p)
  <2>1. At(c) \in {"clearSubs", "writeSubs", "clearOver", "writeOver", "writeFile"}
    BY <1>2, WritesOf DEF Clear, WritePart
  <2> QED
    BY <1>2, <2>1, CreateSteps DEF At
<1>4. task[c].alone => PrefsStand(c) /\ DiskStands(c)
  BY <1>1, <1>3 DEF Stands, Restores, Alone
<1>5. GoTo(c, Tail(p), TRUE) /\ faults' = faults /\ UNCHANGED <<prefs, file, work>>
  BY DEF Clear, WritePart, StepDone
<1>6. /\ Parts = {"subsList", "subs", "over", "file"} /\ disk \in [Parts -> Contents] /\ "none" \in Contents
      /\ work[c].data.parts \in [Parts -> Contents]
  BY <1>1, FileRecords, WorkTypes DEF BackupTypeOK, Contents
<1>7. ASSUME disk' \in [Parts -> Contents] PROVE BackupTypeOK'
  BY <1>1, <1>5, <1>7 DEF BackupTypeOK
<1>8. Merged(c)' = Merged(c) /\ work'[c] = work[c] /\ prefs' = prefs
  BY <1>5 DEF Merged
<1>9. CASE Clear(c)
  <2>1. PICK part \in {"subs", "over"} :
           /\ At(c) = (IF part = "subs" THEN "clearSubs" ELSE "clearOver")
           /\ disk' = [disk EXCEPT ![part] = "none"]
    BY <1>2, <1>9 DEF Clear
  <2>2. disk' \in [Parts -> Contents] /\ \A q \in Parts : disk'[q] = IF q = part THEN "none" ELSE disk[q]
    BY <1>6, <2>1
  <2>3. Tail(p) \in Restoring /\ Head(Tail(p)) = (IF part = "subs" THEN "writeSubs" ELSE "writeOver")
    BY <1>3, <2>1, RestoreSteps
  <2>4. ASSUME task[c].alone, At(c)' = Head(Tail(p)) PROVE PrefsStand(c)' /\ DiskStands(c)'
    <3>1. PrefsStand(c)'
      BY <1>4, <1>8, <2>1, <2>3, <2>4 DEF PrefsStand
    <3>2. \A q \in Parts : Restored(c, q)' = IF work[c].data.parts[q] # "none" THEN work[c].data.parts[q]
                                             ELSE IF q \in {"subs", "over"} THEN "none" ELSE work[c].was.disk[q]
      BY <1>8 DEF Restored
    <3>3. Restored(c, "subs")' = Restored(c, "subs") /\ Restored(c, "subsList")' = Restored(c, "subsList")
      BY <1>8 DEF Restored
    <3>4. DiskStands(c)'
      BY <1>4, <1>6, <1>8, <2>1, <2>2, <2>3, <2>4, <3>3 DEF DiskStands
    <3> QED
      BY <3>1, <3>4
  <2> HIDE DEF p
  <2> QED
    BY <1>1, <1>3, <1>5, <1>7, <2>2, <2>3, <2>4, RestoreGoes
<1>10. CASE WritePart(c)
  <2>1. PICK step \in {"writeSubs", "writeOver", "writeFile"} :
           /\ At(c) = step
           /\ disk' = [q \in Parts |-> IF q \in Brought(c, Writes[step]) THEN work[c].data.parts[q] ELSE disk[q]]
    BY <1>2, <1>10, WritesOf DEF WritePart
  <2>2. \A q \in Parts : disk'[q] = IF q \in Writes[step] /\ work[c].data.parts[q] # "none" THEN work[c].data.parts[q] ELSE disk[q]
    BY <2>1 DEF Brought
  <2>3. disk' \in [Parts -> Contents]
    <3>1. \A q \in Parts : disk'[q] \in Contents
      BY <1>6, <2>2
    <3> QED
      BY <2>1, <3>1
  <2>4. \A q \in Parts : Restored(c, q)' = Restored(c, q)
    BY <1>8 DEF Restored
  <2>5. Restored(c, "subs")' = Restored(c, "subs") /\ Restored(c, "subsList")' = Restored(c, "subsList") /\ Restored(c, "over")' = Restored(c, "over")
    BY <1>6, <2>4
  <2>6. CASE step = "writeSubs"
    <3>1. Tail(p) \in Restoring /\ Head(Tail(p)) = "clearOver"
      <4>1. Head(p) = "writeSubs" /\ p \in Restoring
        BY <1>3, <2>1, <2>6
      <4> HIDE DEF p
      <4> QED
        BY <4>1, RestoreSteps, Zenon
    <3>2. ASSUME task[c].alone, At(c)' = Head(Tail(p)) PROVE PrefsStand(c)' /\ DiskStands(c)'
      <4>1. PrefsStand(c)'
        BY <1>4, <1>8, <2>1, <2>6, <3>1, <3>2 DEF PrefsStand
      <4>2. disk["subsList"] = work[c].was.disk["subsList"] /\ disk["subs"] = "none" /\ disk["over"] = work[c].was.disk["over"]
            /\ disk["file"] = work[c].was.disk["file"]
        BY <1>4, <2>1, <2>6, <3>2 DEF DiskStands
      <4>3. disk'["subsList"] = Restored(c, "subsList") /\ disk'["subs"] = Restored(c, "subs")
            /\ disk'["over"] = disk["over"] /\ disk'["file"] = disk["file"]
        BY <1>6, <2>2, <2>6, <4>2, WritesOf DEF Restored
      <4>4. DiskStands(c)'
        BY <1>8, <2>5, <3>1, <3>2, <4>2, <4>3 DEF DiskStands
      <4> QED
        BY <4>1, <4>4
    <3> HIDE DEF p
    <3> QED
      BY <1>1, <1>3, <1>5, <1>7, <2>3, <3>1, <3>2, RestoreGoes
  <2>7. CASE step = "writeOver"
    <3>1. Tail(p) \in Restoring /\ Head(Tail(p)) = "writeFile"
      <4>1. Head(p) = "writeOver" /\ p \in Restoring
        BY <1>3, <2>1, <2>7
      <4> HIDE DEF p
      <4> QED
        BY <4>1, RestoreSteps, Zenon
    <3>2. ASSUME task[c].alone, At(c)' = Head(Tail(p)) PROVE PrefsStand(c)' /\ DiskStands(c)'
      <4>1. PrefsStand(c)'
        BY <1>4, <1>8, <2>1, <2>7, <3>1, <3>2 DEF PrefsStand
      <4>2. disk["subsList"] = Restored(c, "subsList") /\ disk["subs"] = Restored(c, "subs") /\ disk["over"] = "none"
            /\ disk["file"] = work[c].was.disk["file"]
        BY <1>4, <2>1, <2>7, <3>2 DEF DiskStands
      <4>3. disk'["subsList"] = disk["subsList"] /\ disk'["subs"] = disk["subs"]
            /\ disk'["over"] = Restored(c, "over") /\ disk'["file"] = disk["file"]
        BY <1>6, <2>2, <2>7, <4>2, WritesOf DEF Restored
      <4>4. DiskStands(c)'
        BY <1>8, <2>5, <3>1, <3>2, <4>2, <4>3 DEF DiskStands
      <4> QED
        BY <4>1, <4>4
    <3> HIDE DEF p
    <3> QED
      BY <1>1, <1>3, <1>5, <1>7, <2>3, <3>1, <3>2, RestoreGoes
  <2>8. CASE step = "writeFile"
    <3>1. Tail(p) = <<>>
      BY <1>3, <2>1, <2>8, RestoreSteps
    <3>2. ASSUME task[c].alone PROVE prefs = Merged(c) /\ RestoreEnds(c)
      <4>1. disk["subsList"] = Restored(c, "subsList") /\ disk["subs"] = Restored(c, "subs")
            /\ disk["over"] = Restored(c, "over") /\ disk["file"] = work[c].was.disk["file"] /\ prefs = Merged(c)
        BY <1>4, <2>1, <2>8, <3>2 DEF DiskStands, PrefsStand
      <4>2. disk'["subsList"] = disk["subsList"] /\ disk'["subs"] = disk["subs"]
            /\ disk'["over"] = disk["over"] /\ disk'["file"] = Restored(c, "file")
        BY <1>6, <2>2, <2>8, <4>1, WritesOf DEF Restored
      <4>3. \A q \in Parts : disk'[q] = Restored(c, q)
        BY <1>6, <4>1, <4>2
      <4> QED
        BY <1>8, <4>1, <4>3 DEF RestoreEnds, Merged
    <3>3. CallsAre(BackupPlans) /\ <<>> \in BackupPlans /\ GoTo(c, <<>>, TRUE)
      BY <1>5, <3>1 DEF CallsInv, BackupCalls, BackupPlans
    <3>4. call' = call /\ ~Running(c)'
      BY <1>1, <1>5, <3>3, Gone DEF Running
    <3>5. task[c].alone => Stands(c)'
      BY <1>3, <1>8, <3>2, <3>4 DEF Stands, Gathers, Restores, Stays, Alone
    <3> QED
      BY <1>1, <1>3, <1>5, <1>7, <2>3, <3>2, <3>3, <3>5, TaskStands
  <2> QED
    BY <2>6, <2>7, <2>8
<1> QED
  BY <1>9, <1>10

\* A restore that fails leaves a part of what it was to write.
LEMMA RestoreFailsStands ==
    ASSUME CallsInv, WorkInv, NEW c \in Calls, RestoreFails(c), UNCHANGED <<cache, saving, saves>>
    PROVE  BackupTypeOK' /\ (\A d \in Calls : Stands(d)') /\ CreateResult /\ RestoreResult
<1>1. Running(c) /\ BackupTypeOK /\ faults \in Nat /\ faults + 1 \in Nat
  BY DEF RestoreFails, Doing, WorkInv, CallsInv, BackupCalls, CallsAre
<1>2. GoTo(c, <<>>, FALSE) /\ faults' = faults + 1 /\ UNCHANGED <<prefs, file, work>>
  BY DEF RestoreFails, StepBreaks, Breaks
<1>3. /\ Parts = {"subsList", "subs", "over", "file"} /\ disk \in [Parts -> Contents] /\ "part" \in Contents
      /\ work[c].data.parts \in [Parts -> Contents]
  BY <1>1, FileRecords, WorkTypes DEF BackupTypeOK, Contents
<1>4. disk' \in [Parts -> Contents]
  <2>1. CASE UNCHANGED disk
    BY <1>3, <2>1
  <2>2. CASE \E part \in {"subs", "over"} : disk' = [disk EXCEPT ![part] = "part"]
    BY <1>3, <2>2
  <2>3. ASSUME NEW p \in Parts,
               disk' = [disk EXCEPT ![p] = "part",
                                    !["subsList"] = IF p = "subs" /\ "subsList" \in Brought(c, Parts)
                                                    THEN work[c].data.parts["subsList"]
                                                    ELSE IF p = "subsList" THEN "part" ELSE @]
        PROVE  disk' \in [Parts -> Contents]
    BY <1>3, <2>3
  <2> QED
    BY <2>1, <2>2, <2>3 DEF RestoreFails, Brought, Writes, Parts
<1>5. BackupTypeOK'
  BY <1>1, <1>2, <1>4 DEF BackupTypeOK
<1> QED
  BY <1>1, <1>2, <1>5, FailStands

\* What is left of a plan after its first step is left of the same job.
LEMMA PlanTail ==
    ASSUME BackupCalls, NEW c \in Calls, Running(c)
    PROVE  /\ Tail(task[c].todo) \in BackupPlans /\ <<>> \in BackupPlans /\ <<>> \notin Creating \cup Restoring
           /\ Tail(task[c].todo) \in Creating => call[c].kind = "create"
           /\ Tail(task[c].todo) \in Restoring => call[c].kind = "restore"
<1> DEFINE p == task[c].todo
<1>1. CASE call[c].kind = "create" /\ p \in Creating
  <2>1. Tail(p) \in Creating \/ Tail(p) = <<>>
    <3> HIDE DEF p
    <3> QED
      BY <1>1, CreateSteps
  <2> QED
    BY <1>1, <2>1, CreateSteps DEF BackupPlans
<1>2. CASE call[c].kind = "restore" /\ p \in Restoring
  <2>1. Tail(p) \in Restoring \/ Tail(p) = <<>>
    <3> HIDE DEF p
    <3> QED
      BY <1>2, RestoreSteps
  <2> QED
    BY <1>2, <2>1, CreateSteps DEF BackupPlans
<1> QED
  BY <1>1, <1>2, PlanOf

\* A step of a task, to the calls.
LEMMA TaskCalls == ASSUME CallsInv, NEW c \in Calls, BackupTask(c) PROVE CallsInv'
<1>1. Running(c)
  BY DEF BackupTask, Collect, CollectPrefs, CollectSubs, CollectOver, CollectFile, WriteFile, CreateFails,
     Verify, ReadPrefs, WritePrefs, Clear, WritePart, RestoreFails, Doing
<1>2. \/ GoTo(c, Tail(task[c].todo), TRUE) /\ faults' \in {faults, faults + 1}
      \/ GoTo(c, <<>>, FALSE) /\ faults' \in {faults, faults + 1}
  BY DEF BackupTask, Collect, CollectPrefs, CollectSubs, CollectOver, CollectFile, WriteFile, CreateFails,
     Verify, ReadPrefs, WritePrefs, Clear, WritePart, RestoreFails, StepDone, Refuse, StepBreaks, Breaks
<1>3. faults' \in Nat
  <2>1. faults' \in {faults, faults + 1}
    BY <1>2
  <2>2. faults \in Nat
    BY DEF CallsInv, BackupCalls, CallsAre
  <2> QED
    BY <2>1, <2>2
<1> QED
  BY <1>1, <1>2, <1>3, PlanTail, CallsGo DEF CallsInv

\* The actions of CreateDoes, RestoreDoes and DeviceKept, and what stays.
WorkAfter == WorkInv' /\ CreateResult /\ RestoreResult /\ ReloadResult

\* A step of a task.
LEMMA TaskWorks == ASSUME CallsInv, WorkInv, NEW c \in Calls, BackupTask(c) PROVE WorkAfter
<1>1. UNCHANGED cache /\ UNCHANGED <<cache, saving, saves>>
  BY DEF BackupTask
<1>2. BackupTypeOK' /\ (\A d \in Calls : Stands(d)') /\ CreateResult /\ RestoreResult
  <2>1. CASE Collect(c) \/ WriteFile(c) \/ CreateFails(c)
    BY <1>1, <2>1, CreateStands
  <2>2. CASE Verify(c) \/ ReadPrefs(c) \/ WritePrefs(c)
    BY <1>1, <2>2, RestorePrefsStands
  <2>3. CASE Clear(c) \/ WritePart(c)
    BY <1>1, <2>3, RestorePartsStands
  <2>4. CASE RestoreFails(c)
    BY <1>1, <2>4, RestoreFailsStands
  <2> QED
    BY <2>1, <2>2, <2>3, <2>4 DEF BackupTask
<1> QED
  BY <1>1, <1>2 DEF WorkAfter, WorkInv, ReloadResult

\* A step that leaves what a task works on, and the task.
LEMMA StandsKept ==
    ASSUME NEW d \in Calls, Stands(d), UNCHANGED <<prefs, disk, work, faults>>,
           task'[d] = task[d], call'[d].kind = call[d].kind,
           Ended(d)' /\ call'[d].phase # "over" => Ended(d) /\ call[d].phase # "over"
    PROVE  Stands(d)'
<1>1. (Alone(d)' <=> Alone(d)) /\ At(d)' = At(d)
  BY DEF Alone, Running, At
<1>2. PrefsStand(d)' <=> PrefsStand(d)
  BY <1>1 DEF PrefsStand, Merged
<1>3. DiskStands(d)' <=> DiskStands(d)
  BY <1>1 DEF DiskStands, Restored
<1>4. Gathers(d)'
  BY <1>1 DEF Stands, Gathers
<1>5. Restores(d)'
  BY <1>1, <1>2, <1>3 DEF Stands, Restores
<1>6. Stays(d)'
  BY DEF Stands, Stays, Merged
<1> QED
  BY <1>4, <1>5, <1>6 DEF Stands

\* A task that is not alone, and one that was not asked for, claim nothing.
LEMMA NothingStands ==
    ASSUME NEW d \in Calls, ~(task'[d].alone /\ Running(d)') /\ ~(task'[d].alone /\ Ended(d)' /\ call'[d].phase # "over")
    PROVE  Stands(d)'
BY DEF Stands, Gathers, Restores, Stays, Alone

\* No result is sent.
LEMMA NoResult ==
    ASSUME (\A d \in Calls : task'[d].todo = task[d].todo) \/ mail' = <<>>
    PROVE  CreateResult /\ RestoreResult
<1>1. \A d \in Calls : ~Sends(d)
  BY DEF Sends, Running
<1> QED
  BY <1>1 DEF CreateResult, RestoreResult, EndsWell

\* A restore that is loaded has ended, and what it has made of the preferences stays.
LEMMA Reloaded == ASSUME CallsInv, WorkInv PROVE ReloadResult
<1> SUFFICES ASSUME NEW c \in Calls, Reload(c), cache' # cache, call[c].from = c, task[c].alone
             PROVE  /\ cache'.shared = work[c].data.shared
                    /\ work[c].was.prefs = Good(cache) => cache'.device = cache.device
  BY DEF ReloadResult
<1>1. call[c].kind = "restore" /\ call[c].phase = "answered" /\ task[c].ok /\ cache' = Load(prefs)
  BY DEF Reload
<1>2. c # NoCall
  BY CallsAssumption
<1>3. Ended(c)
  BY <1>2 DEF CallsInv, Results, Taken
<1>4. prefs = Merged(c)
  BY <1>1, <1>3 DEF WorkInv, Stands, Stays
<1>5. cache' = [shared |-> work[c].data.shared, device |-> Load(work[c].was.prefs).device]
  BY <1>1, <1>4 DEF Merged, Load, Good
<1>6. ASSUME work[c].was.prefs = Good(cache) PROVE Load(work[c].was.prefs) = cache
  BY <1>6 DEF Load, Good
<1> QED
  BY <1>5, <1>6

\* A backup or a restore is asked for.
LEMMA AskWorks == ASSUME CallsInv, WorkInv, NEW c \in Calls, AskBackup(c) PROVE CallsInv' /\ WorkAfter
<1>1. PICK kind \in {"create", "restore"}, plan \in Creating \cup Restoring :
         /\ Ask(c, kind, plan)
         /\ plan \in Creating => kind = "create" /\ Head(plan) = "collectPrefs"
         /\ plan \in Restoring => kind = "restore" /\ Head(plan) = "verify"
  <2>1. CASE Ask(c, "create", CreatePlan)
    <3>1. CreatePlan \in Creating /\ CreatePlan \notin Restoring /\ Head(CreatePlan) = "collectPrefs"
      BY CreateSteps
    <3> QED
      BY <2>1, <3>1
  <2>2. CASE Ask(c, "restore", RestorePlan)
    <3>1. RestorePlan \notin Creating /\ RestorePlan \in Restoring /\ Head(RestorePlan) = "verify"
      BY CreateSteps, RestoreSteps
    <3> QED
      BY <2>2, <3>1
  <2> QED
    BY <2>1, <2>2 DEF AskBackup
<1>2. kind \in Kinds /\ plan \in BackupPlans /\ plan # <<>> /\ CallsAre(BackupPlans) /\ ~IsOperating
  BY CreateSteps DEF Kinds, BackupPlans, CallsInv, BackupCalls, AskBackup
<1>3. CallsInv'
  BY <1>1, <1>2, CallsAsk
<1>4. /\ call[c].phase = "idle" /\ call'[c] = [kind |-> kind, phase |-> "waits", from |-> NoCall]
      /\ task'[c].todo = plan /\ UNCHANGED <<mail, faults>>
      /\ \A d \in Calls \ {c} :
            /\ call'[d] = call[d]
            /\ task'[d].todo = task[d].todo
            /\ task'[d].alone => ~Mate(d, kind)
  BY <1>1, <1>2, Asked
<1>5. /\ BackupTypeOK' /\ UNCHANGED <<prefs, disk, file>> /\ UNCHANGED cache
      /\ work'[c].was.prefs = prefs /\ work'[c].was.disk = disk
  BY WorkAsked DEF WorkInv, AskBackup
<1>6. ASSUME NEW d \in Calls \ {c} PROVE Stands(d)'
  <2>1. CASE call[d].phase = "idle"
    <3>1. ~Running(d)' /\ ~Ended(d)'
      BY <1>4, <2>1 DEF CallsInv, BackupCalls, Running, Ended
    <3> QED
      BY <3>1, NothingStands
  <2>2. CASE call[d].phase # "idle"
    <3>1. Mate(d, kind)
      BY <2>2 DEF Mate, Channel, CallsInv, BackupCalls
    <3> QED
      BY <1>4, <3>1, NothingStands
  <2> QED
    BY <2>1, <2>2
<1>7. Stands(c)'
  <2>1. At(c)' = Head(plan) /\ call'[c].kind = kind /\ Running(c)'
    BY <1>2, <1>4 DEF At, Running
  <2>2. Gathers(c)'
    BY <1>1, <1>5, <2>1 DEF Gathers
  <2>3. Restores(c)'
    BY <1>1, <1>5, <2>1 DEF Restores, PrefsStand, DiskStands
  <2>4. Stays(c)'
    BY <2>1 DEF Stays, Ended
  <2> QED
    BY <2>2, <2>3, <2>4 DEF Stands
<1>8. CreateResult /\ RestoreResult
  <2>1. \A d \in Calls : ~Sends(d)
    BY <1>2, <1>4 DEF Sends, Running, CallsInv, BackupCalls
  <2> QED
    BY <2>1 DEF CreateResult, RestoreResult, EndsWell
<1> QED
  BY <1>3, <1>5, <1>6, <1>7, <1>8, Reloaded DEF WorkAfter, WorkInv

\* The application writes its preferences: nothing is alone any more.
LEMMA SaveWorks == ASSUME CallsInv, WorkInv, BeginSave \/ EndSave PROVE CallsInv' /\ WorkAfter
<1>1. /\ UNCHANGED <<call, mail, faults, disk, file, work>>
      /\ task' = [c \in Calls |-> IF call[c].phase = "idle" THEN task[c] ELSE [task[c] EXCEPT !.alone = FALSE]]
  BY DEF BeginSave, EndSave, NobodyAlone
<1>2. CallsAre(BackupPlans)
  BY DEF CallsInv, BackupCalls
<1>3. ASSUME NEW d \in Calls
      PROVE  /\ task'[d] \in [todo: BackupPlans, ok: BOOLEAN, alone: BOOLEAN] /\ task'[d].todo = task[d].todo
             /\ call[d].phase # "idle" => ~task'[d].alone
             /\ call[d].phase = "idle" => task'[d] = task[d]
  <2>1. task[d] \in [todo: BackupPlans, ok: BOOLEAN, alone: BOOLEAN]
    BY <1>2 DEF CallsAre
  <2>2. CASE call[d].phase = "idle"
    BY <1>1, <2>1, <2>2
  <2>3. CASE call[d].phase # "idle"
    <3>1. task'[d] = [task[d] EXCEPT !.alone = FALSE]
      BY <1>1, <2>3
    <3> QED
      BY <2>1, <2>3, <3>1
  <2> QED
    BY <2>2, <2>3
<1>4. CallsAre(BackupPlans)'
  <2>1. \A d \in Calls : task'[d] \in [todo: BackupPlans, ok: BOOLEAN, alone: BOOLEAN]
    BY <1>3
  <2>2. task' = [d \in Calls |-> task'[d]]
    BY <1>1
  <2>3. task' \in [Calls -> [todo: BackupPlans, ok: BOOLEAN, alone: BOOLEAN]]
    BY <2>1, <2>2
  <2> QED
    BY <1>1, <1>2, <2>3 DEF CallsAre
<1>5. CallsInv'
  BY <1>1, <1>3, <1>4, CallsStay
<1>6. BackupTypeOK'
  <2>1. BackupTypeOK /\ MaxSaves \in Nat
    BY FileRecords DEF WorkInv
  <2>2. CASE BeginSave
    <3>1. cache' \in Preferences
      <4>1. saves + 2 \in 0..(MaxSaves + 1)
        BY <2>1, <2>2 DEF BeginSave, BackupTypeOK
      <4>2. cache' = [cache EXCEPT !.device = saves + 2] /\ cache \in Preferences
        BY <2>1, <2>2 DEF BeginSave, BackupTypeOK
      <4> QED
        BY <4>1, <4>2 DEF Preferences
    <3>2. saves' \in 0..MaxSaves
      BY <2>1, <2>2 DEF BeginSave, BackupTypeOK
    <3>3. saving' \in Seq(Preferences) /\ prefs' \in PrefsFiles
      BY <2>2, <3>1, FileRecords DEF BeginSave
    <3> QED
      BY <1>1, <2>1, <3>1, <3>2, <3>3 DEF BackupTypeOK
  <2>3. CASE EndSave
    <3>1. Head(saving) \in Preferences
      BY <2>1, <2>3 DEF EndSave, BackupTypeOK
    <3>2. prefs' \in PrefsFiles /\ saving' \in Seq(Preferences) /\ UNCHANGED <<cache, saves>>
      BY <2>3, <3>1, FileRecords DEF EndSave
    <3> QED
      BY <1>1, <2>1, <3>2 DEF BackupTypeOK
  <2> QED
    BY <2>2, <2>3
<1>7. ASSUME NEW d \in Calls PROVE Stands(d)'
  <2>1. CASE call[d].phase = "idle"
    <3>1. ~Running(d)' /\ ~Ended(d)'
      BY <1>1, <1>3, <2>1 DEF CallsInv, BackupCalls, Running, Ended
    <3> QED
      BY <3>1, NothingStands
  <2>2. CASE call[d].phase # "idle"
    BY <1>3, <2>2, NothingStands
  <2> QED
    BY <2>1, <2>2
<1>8. CreateResult /\ RestoreResult
  BY <1>3, NoResult
<1> QED
  BY <1>5, <1>6, <1>7, <1>8, Reloaded DEF WorkAfter, WorkInv

\* A page loads what was restored.
LEMMA ReloadWorks == ASSUME CallsInv, WorkInv, NEW c \in Calls, Reload(c) PROVE CallsInv' /\ WorkAfter
<1>1. CallsAre(BackupPlans) /\ call[c] \in CallRecord
  BY DEF CallsInv, BackupCalls, CallsAre
<1>2. /\ UNCHANGED <<task, mail, faults, prefs, saving, saves, disk, file, work>>
      /\ call' = [call EXCEPT ![c].phase = "over"] /\ cache' \in {cache, Load(prefs)}
      /\ call[c].phase = "answered"
  BY DEF Reload
<1>3. /\ call' \in [Calls -> CallRecord] /\ call'[c].kind = call[c].kind /\ call'[c].from = call[c].from
      /\ call'[c].phase = "over" /\ \A d \in Calls \ {c} : call'[d] = call[d]
  <2> DEFINE new == [call[c] EXCEPT !.phase = "over"]
  <2>1. new \in CallRecord /\ new.kind = call[c].kind /\ new.from = call[c].from /\ new.phase = "over"
    BY <1>1 DEF CallRecord
  <2>2. call' = [call EXCEPT ![c] = new] /\ call \in [Calls -> CallRecord]
    BY <1>1, <1>2 DEF CallsAre
  <2> HIDE DEF new
  <2> QED
    BY <2>1, <2>2
<1>4. CallsAre(BackupPlans)'
  BY <1>1, <1>2, <1>3 DEF CallsAre
<1>5. CallsInv'
  BY <1>2, <1>3, <1>4, CallsStay
<1>6. BackupTypeOK'
  <2>1. BackupTypeOK /\ Load(prefs) \in Preferences
    BY FileRecords DEF WorkInv, BackupTypeOK
  <2> QED
    BY <1>2, <2>1 DEF BackupTypeOK
<1>7. ASSUME NEW d \in Calls PROVE Stands(d)'
  <2>1. /\ task'[d] = task[d] /\ call'[d].kind = call[d].kind
        /\ Ended(d)' /\ call'[d].phase # "over" => Ended(d) /\ call[d].phase # "over"
    BY <1>2, <1>3 DEF Ended, Running
  <2> QED
    BY <1>2, <2>1, StandsKept DEF WorkInv
<1>8. CreateResult /\ RestoreResult
  BY <1>2, NoResult
<1> QED
  BY <1>5, <1>6, <1>7, <1>8, Reloaded DEF WorkAfter, WorkInv

\* The application is killed.
LEMMA KillWorks == ASSUME CallsInv, WorkInv, AppEnds, BackupAppEnds PROVE CallsInv' /\ WorkAfter
<1>1. CallsAre(BackupPlans) /\ <<>> \in BackupPlans
  BY DEF CallsInv, BackupCalls, BackupPlans
<1>2. /\ mail' = <<>>
      /\ \A d \in Calls : /\ task'[d].todo = <<>>
                          /\ call'[d].phase = IF call[d].phase = "idle" THEN "idle" ELSE "over"
  BY <1>1, Killed
<1>3. BackupTypeOK'
  <2>1. BackupTypeOK /\ Load(prefs) \in Preferences
    BY FileRecords DEF WorkInv, BackupTypeOK
  <2>2. UNCHANGED <<prefs, saves, disk, file, work>> /\ cache' = Load(prefs) /\ saving' \in Seq(Preferences)
    BY DEF BackupAppEnds
  <2> QED
    BY <2>1, <2>2 DEF BackupTypeOK
<1>4. ASSUME NEW d \in Calls PROVE Stands(d)'
  <2>1. ~Running(d)' /\ ~(Ended(d)' /\ call'[d].phase # "over")
    BY <1>2 DEF Running, Ended
  <2> QED
    BY <2>1, NothingStands
<1>5. CreateResult /\ RestoreResult
  BY <1>2, NoResult
<1> QED
  BY <1>3, <1>4, <1>5, CallsKill, Reloaded DEF WorkAfter, WorkInv

\* A result is taken, and a limit passes.
LEMMA ResultWorks ==
    ASSUME CallsInv, WorkInv, Deliver \/ (\E c \in Calls : TimeOut(c)), UNCHANGED backupVars
    PROVE  CallsInv' /\ WorkAfter
<1>1. CallsAre(BackupPlans)
  BY DEF CallsInv, BackupCalls
<1>2. UNCHANGED <<task, faults>> /\ \A d \in Calls : /\ call'[d].kind = call[d].kind
                                                     /\ call'[d].phase = "idle" <=> call[d].phase = "idle"
                                                     /\ call[d].phase = "over" => call'[d].phase = "over"
  <2>1. CASE Deliver
    BY <1>1, <2>1, Delivered DEF Waits
  <2>2. CASE \E c \in Calls : TimeOut(c)
    <3>1. PICK c \in Calls : TimeOut(c)
      BY <2>2
    <3>2. /\ UNCHANGED <<task, mail, faults>>
          /\ Waits(c) /\ call'[c].kind = call[c].kind /\ call'[c].phase = "timedOut"
          /\ \A d \in Calls \ {c} : call'[d] = call[d]
      BY <1>1, <3>1, Limited
    <3> QED
      BY <3>2 DEF Waits
  <2> QED
    BY <2>1, <2>2
<1>3. CallsInv'
  BY CallsDeliver, CallsLimit
<1>4. UNCHANGED <<prefs, cache, saving, saves, disk, file, work>>
  BY DEF backupVars
<1>5. BackupTypeOK'
  BY <1>4 DEF WorkInv, BackupTypeOK
<1>6. ASSUME NEW d \in Calls PROVE Stands(d)'
  <2>1. Ended(d)' /\ call'[d].phase # "over" => Ended(d) /\ call[d].phase # "over"
    BY <1>2 DEF Ended, Running
  <2> QED
    BY <1>2, <1>4, <2>1, StandsKept DEF WorkInv
<1>7. CreateResult /\ RestoreResult
  BY <1>2, NoResult
<1> QED
  BY <1>3, <1>5, <1>6, <1>7, Reloaded DEF WorkAfter, WorkInv

-----------------------------------------------------------------------------
(***************************************************************************)
(* Backups and updates together.                                           *)
(***************************************************************************)
\* Backups leave the files of the core alone; of updates no call listens to the results
\* of backups.
JobsInv ==
    /\ UpdatesInv
    /\ page = "backup" => CallsInv /\ WorkInv

\* What may be relied on at each step.
JobsResult == DownloadResult /\ ReplaceResult /\ CreateResult /\ RestoreResult /\ ReloadResult

LEMMA JobsBegin == JobsInit => JobsInv
<1> SUFFICES ASSUME JobsInit PROVE JobsInv
  OBVIOUS
<1>1. ReplaceInv
  BY InvInit
<1>2. /\ \A c \in Calls : call[c] = [kind |-> "create", phase |-> "idle", from |-> NoCall]
      /\ \A c \in Calls : task[c].todo = <<>>
      /\ call = [c \in Calls |-> [kind |-> "create", phase |-> "idle", from |-> NoCall]]
      /\ task = [c \in Calls |-> [todo |-> <<>>, ok |-> TRUE, alone |-> TRUE]]
      /\ mail = <<>> /\ faults = 0
  BY DEF JobsInit, CallsInit
<1>3. \A c \in Calls : call[c].phase = "idle" /\ call[c].kind = "create" /\ call[c].from = NoCall
  BY <1>2
<1>4. \A c \in Calls : ~Running(c) /\ ~Ended(c) /\ ~Waits(c)
  BY <1>2, <1>3 DEF Running, Ended, Waits
<1>5. got = [c \in Calls |-> Nothing]
  BY DEF JobsInit, UpdateInit, Nothing
<1>6. OfUpdates /\ Apart
  BY <1>3 DEF OfUpdates, Apart
<1>7. Chosen
  <2>1. Nothing \in GotRecord
    <3>1. Foreign \in Assets
      BY DEF Foreign, Assets
    <3>2. 0 \in 0..MaxChunks
      BY UpdateAssumption
    <3> QED
      BY <3>1, <3>2 DEF GotRecord, Nothing
  <2>2. \A c \in Calls : task[c].todo # <<"fetch">>
    BY <1>2
  <2> QED
    BY <1>5, <2>1, <2>2 DEF Chosen
<1>10. CallsAre(BackupPlans)
  <2>1. [kind |-> "create", phase |-> "idle", from |-> NoCall] \in CallRecord
    BY DEF CallRecord, Kinds
  <2>2. call \in [Calls -> CallRecord]
    BY <1>2, <2>1
  <2>3. task \in [Calls -> [todo: BackupPlans, ok: BOOLEAN, alone: BOOLEAN]]
    BY <1>2 DEF BackupPlans
  <2> QED
    BY <1>2, <2>2, <2>3 DEF CallsAre
<1>11. BackupCalls
  BY <1>2, <1>3, <1>10, CreateSteps DEF BackupCalls
<1>12. \A c \in Calls : ~OnMail(c) /\ ~Live(c)
  <2>1. Len(mail) = 0
    BY <1>2
  <2> QED
    BY <1>4, <2>1 DEF OnMail, Live
<1>13. Results /\ OneWaits /\ Late /\ OwnAnswer
  <2>1. Len(mail) = 0
    BY <1>2
  <2>2. \A i, j \in 1..Len(mail) : mail[i] = mail[j] => i = j
    BY <2>1
  <2> QED
    BY <1>3, <1>4, <1>12, <2>2 DEF Results, OneWaits, Late, OwnAnswer
<1>14. BackupTypeOK
  <2>1. 0 \in 0..(MaxSaves + 1) /\ 1 \in 0..(MaxSaves + 1) /\ 0 \in 0..MaxSaves
    BY BackupAssumption
  <2>2. [shared |-> "app", device |-> 1] \in Preferences
    BY <2>1 DEF Preferences, Shared
  <2>3. Good([shared |-> "app", device |-> 1]) \in PrefsFiles /\ Broken \in PrefsFiles
    BY <2>2, FileRecords
  <2>4. \A content \in Contents : EveryPart(content) \in [Parts -> Contents]
    BY DEF EveryPart
  <2>5. /\ EveryPart("none") \in [Parts -> Contents] /\ EveryPart("app") \in [Parts -> Contents]
        /\ EveryPart("backup") \in [Parts -> Contents]
    BY <2>4 DEF Contents
  <2>6. Full("backup") \in BackupFiles /\ Full("none") \in BackupFiles /\ Unread \in BackupFiles
    BY <2>5, FileRecords DEF Full, BackupFiles, Shared
  <2>7. prefs \in PrefsFiles /\ disk \in [Parts -> Contents] /\ file \in BackupFiles
    BY <2>3, <2>5, <2>6 DEF JobsInit, BackupInit
  <2>8. cache \in Preferences /\ saving \in Seq(Preferences) /\ saves \in 0..MaxSaves
    BY <2>1, <2>7, FileRecords DEF JobsInit, BackupInit
  <2>9. work \in [Calls -> WorkRecord]
    <3>1. [prefs |-> prefs, disk |-> disk] \in [prefs: PrefsFiles, disk: [Parts -> Contents]]
      BY <2>7
    <3>2. [data |-> Unread, keys |-> 0, was |-> [prefs |-> prefs, disk |-> disk]] \in WorkRecord
      BY <2>1, <2>6, <3>1 DEF WorkRecord
    <3> QED
      BY <3>2 DEF JobsInit, BackupInit
  <2> QED
    BY <2>7, <2>8, <2>9 DEF BackupTypeOK, WorkRecord
<1>15. WorkInv
  BY <1>4, <1>14 DEF WorkInv, Stands, Gathers, Restores, Stays, Alone
<1> QED
  BY <1>1, <1>6, <1>7, <1>11, <1>13, <1>15 DEF JobsInv, UpdatesInv, CallsInv

\* The steps of the page of backups.
LEMMA BackupSteps ==
    ASSUME CallsInv, WorkInv, page = "backup", [JobsNext]_jobsVars
    PROVE  CallsInv' /\ WorkInv' /\ (JobsResult \/ UNCHANGED jobsVars)
<1>3. ASSUME UNCHANGED jobsVars PROVE CallsInv' /\ WorkInv'
  <2>1. UNCHANGED <<call, task, mail, faults, prefs, cache, saving, saves, disk, file, work>>
    BY <1>3 DEF jobsVars, callVars, backupVars
  <2>2. CallsAre(BackupPlans)'
    BY <2>1 DEF CallsInv, BackupCalls, CallsAre
  <2>3. CallsInv'
    BY <2>1, <2>2, CallsStay
  <2>4. BackupTypeOK'
    BY <2>1 DEF WorkInv, BackupTypeOK
  <2>5. \A d \in Calls : Stands(d)'
    BY <2>1, StandsKept DEF WorkInv, Ended, Running
  <2> QED
    BY <2>3, <2>4, <2>5 DEF WorkInv
<1>4. ASSUME JobsNext PROVE CallsInv' /\ WorkAfter
  <2>1. ASSUME NEW c \in Calls, AskBackup(c) \/ BackupTask(c) \/ Reload(c) PROVE CallsInv' /\ WorkAfter
    BY <2>1, AskWorks, TaskWorks, TaskCalls, ReloadWorks
  <2>2. CASE BeginSave \/ EndSave
    BY <2>2, SaveWorks
  <2>3. CASE AppEnds /\ BackupAppEnds
    BY <2>3, KillWorks
  <2>4. CASE (Deliver \/ \E c \in Calls : TimeOut(c)) /\ UNCHANGED backupVars
    BY <2>4, ResultWorks
  <2> QED
    BY <1>4, <2>1, <2>2, <2>3, <2>4 DEF JobsNext, BackupStep, UpdateStep, Limit
<1>5. DownloadResult /\ ReplaceResult
  BY DEF DownloadResult, ReplaceResult, CallsInv, BackupCalls
<1> QED
  BY <1>3, <1>4, <1>5 DEF WorkAfter, JobsResult

\* The steps of the page of updates.
LEMMA UpdateSteps ==
    ASSUME UpdatesInv, page = "update", [JobsNext]_jobsVars
    PROVE  UpdatesInv' /\ (JobsResult \/ UNCHANGED jobsVars)
<1>1. page' = page /\ ReplaceInv'
  BY InvStep DEF UpdatesInv, JobsNext, Limit, jobsVars
<1>2. UpdateBefore
  BY DEF UpdatesInv, ReplaceInv, UpdateBefore
<1>3. ASSUME UNCHANGED jobsVars PROVE UpdatesInv'
  <2>1. UNCHANGED <<call, task, got>>
    BY <1>3 DEF jobsVars, callVars, updateVars
  <2>2. OfUpdates' /\ Chosen'
    BY <1>2, <2>1 DEF UpdateBefore, OfUpdates, Chosen, Fresh
  <2> QED
    BY <1>1, <2>2 DEF UpdatesInv
<1>4. ASSUME JobsNext PROVE UpdateAfter
  <2>1. ASSUME NEW c \in Calls, AskDownload(c) \/ AskReplace(c) \/ UpdateTask(c) PROVE UpdateAfter
    BY <1>2, <2>1, AskTells, DownloadTells, ReplaceTells DEF UpdateTask
  <2>2. CASE AppEnds /\ UNCHANGED updateVars
    BY <1>2, <2>2, KillTells
  <2>3. CASE (Deliver \/ \E c \in Calls : TimeOut(c)) /\ UNCHANGED updateVars
    BY <1>2, <2>3, ResultTells
  <2> QED
    BY <1>4, <2>1, <2>2, <2>3 DEF JobsNext, BackupStep, UpdateStep, Limit
<1>5. CreateResult /\ RestoreResult /\ ReloadResult
  <2>1. \A c \in Calls : Running(c) \/ call[c].phase = "answered" => call[c].kind \in {"download", "replace"}
    BY <1>2 DEF UpdateBefore, FilesInv, OfUpdates, Plans, Running
  <2> QED
    BY <2>1 DEF CreateResult, RestoreResult, ReloadResult, EndsWell, Sends, Reload
<1> QED
  BY <1>1, <1>3, <1>4, <1>5 DEF UpdateAfter, UpdatesInv, JobsResult

LEMMA JobsStep == JobsInv /\ [JobsNext]_jobsVars => JobsInv' /\ [JobsResult]_jobsVars
<1> SUFFICES ASSUME JobsInv, [JobsNext]_jobsVars PROVE JobsInv' /\ (JobsResult \/ UNCHANGED jobsVars)
  OBVIOUS
<1>1. page' = page /\ page \in {"backup", "update"} /\ ReplaceInv'
  BY InvStep DEF JobsInv, UpdatesInv, ReplaceInv, JobsNext, Limit, jobsVars
<1>2. CASE page = "backup"
  BY <1>1, <1>2, BackupSteps DEF JobsInv, UpdatesInv
<1>3. CASE page = "update"
  BY <1>1, <1>3, UpdateSteps DEF JobsInv
<1> QED
  BY <1>1, <1>2, <1>3

-----------------------------------------------------------------------------
(***************************************************************************)
(* The theorems.                                                           *)
(***************************************************************************)
\* At every point of a behaviour, also of one in which replacements overlap, what the core
\* still lacks is what some replacement is about to give it; and when none overlap, one of
\* the two files is known to be a program that can be executed, by where the replacement is.
THEOREM ReplaceInductive == JobsSpec => []ReplaceInv
BY InvInit, InvStep, PTL DEF JobsSpec

\* One program that can be executed is there at any time, the core or its backup, as long
\* as nothing goes wrong and replacements do not overlap, and after one failure at least
\* while nothing is replaced; as long as nothing goes wrong the core is one whenever nothing
\* is replaced, even after replacements that overlapped (replace_core of updater.rs).
THEOREM OneAlwaysUsable == JobsSpec => []OneIsUsable
<1>1. ReplaceInv => OneIsUsable
  <2> SUFFICES ASSUME ReplaceInv PROVE OneIsUsable
    OBVIOUS
  <2>1. CASE page = "backup"
    BY <2>1 DEF ReplaceInv, OneIsUsable, Restorable
  <2>2. CASE page = "update"
    <3>1. FilesInv /\ Types /\ Plans /\ Pending /\ Lone
      BY <2>2 DEF ReplaceInv, FilesInv
    <3>2. faults = 0 /\ ~Replacing => Usable(core)
      BY <3>1, Positions DEF Pending, Replacing, Usable
    <3>3. ASSUME faults = 0, ~crowded, Replacing PROVE Restorable
      <4>1. PICK c \in Calls : Replaces(c)
        BY <3>3 DEF Replacing
      <4>2. Place(c) /\ task[c].todo \in Forward
        BY <3>1, <3>3, <4>1, Positions DEF Lone, Pending
      <4>3. Doing(c, "look") \/ Doing(c, "rename") \/ Doing(c, "open") \/ Doing(c, "fill") \/ Doing(c, "permit")
        BY <4>1, <4>2, PlanHeads DEF Doing, Replaces
      <4> QED
        BY <3>3, <4>2, <4>3 DEF Place, Saved, Restorable
    <3> QED
      BY <3>1, <3>2, <3>3 DEF OneIsUsable, Lone, Restorable
  <2> QED
    BY <2>1, <2>2 DEF ReplaceInv
<1> QED
  BY <1>1, ReplaceInductive, PTL

\* At every point of a behaviour the calls, the results on their way and what each task
\* has read and written belong together.
THEOREM JobsInductive == JobsSpec => []JobsInv
BY JobsBegin, JobsStep, PTL DEF JobsSpec

\* The steps of a behaviour.
LEMMA JobsResults == JobsSpec => [][JobsResult]_jobsVars
BY JobsBegin, JobsStep, PTL DEF JobsSpec

\* A download that ends well has read the whole of an asset that can be unpacked; a
\* replacement beside no other that ends well leaves its own file, which can be executed,
\* and one that the first failure ends the core that it found, unless that was the change
\* of permissions (download_core, extract_core and replace_core of updater.rs).
THEOREM UpdatesAlwaysDo == JobsSpec => UpdatesDo
<1>1. JobsResult => DownloadResult /\ ReplaceResult
  BY DEF JobsResult
<1>2. [][JobsResult]_jobsVars => [][DownloadResult]_jobsVars /\ [][ReplaceResult]_jobsVars
  BY <1>1, PTL
<1>3. [][DownloadResult]_jobsVars /\ [][ReplaceResult]_jobsVars => UpdatesDo
  BY PTL DEF UpdatesDo, DownloadDoes, ReplaceDoes, DownloadResult, ReplaceResult
<1> QED
  BY <1>2, <1>3, JobsResults, PTL

\* When a restore that was alone is loaded, the application has the preferences of the
\* backup and keeps its own of this device (EXCLUDED_PREFERENCE_KEYS of backup.rs).
THEOREM DeviceAlwaysKept == JobsSpec => DeviceKept
<1>1. JobsResult => ReloadResult
  BY DEF JobsResult
<1>2. [][JobsResult]_jobsVars => [][ReloadResult]_jobsVars
  BY <1>1, PTL
<1>3. [][ReloadResult]_jobsVars => DeviceKept
  BY PTL DEF DeviceKept, ReloadResult
<1> QED
  BY <1>2, <1>3, JobsResults, PTL

\* A backup or a restore that ends well, beside which nothing else was done, has saved
\* or written everything, also in the application once it is loaded; a call is answered
\* by another one's result only after a limit has passed (createBackup and restoreBackup
\* of backup_service.dart, create_backup and restore_backup of backup.rs).
THEOREM BackupsAlwaysDo == JobsSpec => BackupsDo
<1>1. JobsResult => CreateResult /\ RestoreResult
  BY DEF JobsResult
<1>2. [][JobsResult]_jobsVars => [][CreateResult]_jobsVars /\ [][RestoreResult]_jobsVars
  BY <1>1, PTL
<1>3. JobsInv => OwnAnswer
  <2> SUFFICES ASSUME JobsInv PROVE OwnAnswer
    OBVIOUS
  <2>1. CASE page = "backup"
    BY <2>1 DEF JobsInv, CallsInv
  <2>2. CASE page = "update"
    BY <2>2 DEF JobsInv, UpdatesInv, OfUpdates, OwnAnswer, Channel
  <2> QED
    BY <2>1, <2>2 DEF JobsInv, UpdatesInv, ReplaceInv
<1>4. [][CreateResult]_jobsVars /\ [][RestoreResult]_jobsVars /\ DeviceKept /\ []OwnAnswer => BackupsDo
  BY PTL DEF BackupsDo, CreateDoes, RestoreDoes, CreateResult, RestoreResult, CreateEnds, RestoreEnds
<1> QED
  BY <1>2, <1>3, <1>4, JobsResults, JobsInductive, DeviceAlwaysKept, PTL

=============================================================================
