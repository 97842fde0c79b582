-------------------------- MODULE ServiceSetupProofs --------------------------
(***************************************************************************)
(* Theorems about ServiceSetup: what a command of the service program that *)
(* had the machine to itself has done when it says that it went well, and  *)
(* why it failed when it says so.  Both are about a sequence of steps, so  *)
(* the inductive invariant says, for each command on each system and for   *)
(* each rest of its plan, what holds when that rest is what is left.       *)
(***************************************************************************)
EXTENDS ServiceSetup, SequenceTheorems, TLAPS

-----------------------------------------------------------------------------
(***************************************************************************)
(* What may be left of a plan.  The proofs below use of these sequences    *)
(* only what the lemmas of this section say.                               *)
(***************************************************************************)
copy_create_describe_tryStart_awaitStart == <<"copy", "create", "describe", "tryStart", "awaitStart">>
create_describe_tryStart_awaitStart == <<"create", "describe", "tryStart", "awaitStart">>
describe_tryStart_awaitStart == <<"describe", "tryStart", "awaitStart">>
tryStart_awaitStart == <<"tryStart", "awaitStart">>
only_awaitStart == <<"awaitStart">>
tryStop_awaitStop_copy_tryStart_awaitStart == <<"tryStop", "awaitStop", "copy", "tryStart", "awaitStart">>
awaitStop_copy_tryStart_awaitStart == <<"awaitStop", "copy", "tryStart", "awaitStart">>
copy_tryStart_awaitStart == <<"copy", "tryStart", "awaitStart">>
only_startService == <<"startService">>
tryStop_awaitGone_delete == <<"tryStop", "awaitGone", "delete">>
awaitGone_delete == <<"awaitGone", "delete">>
only_delete == <<"delete">>
stop_copy_write_reload_start == <<"stop", "copy", "write", "reload", "start">>
stop_copy_reload_start == <<"stop", "copy", "reload", "start">>
stop_write_reload_start == <<"stop", "write", "reload", "start">>
copy_write_reload_start == <<"copy", "write", "reload", "start">>
copy_reload_start == <<"copy", "reload", "start">>
write_reload_start == <<"write", "reload", "start">>
reload_start == <<"reload", "start">>
only_start == <<"start">>
copy_write_reload == <<"copy", "write", "reload">>
copy_reload == <<"copy", "reload">>
write_reload == <<"write", "reload">>
only_reload == <<"reload">>
copy_write_reload_enable_start_check == <<"copy", "write", "reload", "enable", "start", "check">>
write_reload_enable_start_check == <<"write", "reload", "enable", "start", "check">>
reload_enable_start_check == <<"reload", "enable", "start", "check">>
enable_start_check == <<"enable", "start", "check">>
start_check == <<"start", "check">>
only_check == <<"check">>
stop_disable_remove_reload == <<"stop", "disable", "remove", "reload">>
disable_remove_reload == <<"disable", "remove", "reload">>
remove_reload == <<"remove", "reload">>
copy_write_start == <<"copy", "write", "start">>
write_start == <<"write", "start">>
stop_copy_start == <<"stop", "copy", "start">>
copy_start == <<"copy", "start">>
only_copy == <<"copy">>
stop_remove == <<"stop", "remove">>
only_remove == <<"remove">>
only_stop == <<"stop">>
only_bail == <<"bail">>

\* What can be read from a plan or the rest of one.
Reads(todo, step, rest) ==
    /\ todo \in Seq(Steps) /\ todo # <<>>
    /\ Head(todo) = step /\ Tail(todo) = rest

\* An install on Windows.
LEMMA InstallOnWindows ==
  /\ Reads(copy_create_describe_tryStart_awaitStart, "copy", create_describe_tryStart_awaitStart)
  /\ Reads(create_describe_tryStart_awaitStart, "create", describe_tryStart_awaitStart)
  /\ Reads(describe_tryStart_awaitStart, "describe", tryStart_awaitStart)
  /\ Reads(tryStart_awaitStart, "tryStart", only_awaitStart)
  /\ Reads(only_awaitStart, "awaitStart", <<>>)
  /\ Reads(tryStop_awaitStop_copy_tryStart_awaitStart, "tryStop", awaitStop_copy_tryStart_awaitStart)
  /\ Reads(awaitStop_copy_tryStart_awaitStart, "awaitStop", copy_tryStart_awaitStart)
  /\ Reads(copy_tryStart_awaitStart, "copy", tryStart_awaitStart)
  /\ Reads(only_startService, "startService", <<>>)
  BY DEF Reads, Steps, awaitStop_copy_tryStart_awaitStart, copy_create_describe_tryStart_awaitStart,
         copy_tryStart_awaitStart, create_describe_tryStart_awaitStart,
         describe_tryStart_awaitStart, only_awaitStart, only_startService, tryStart_awaitStart,
         tryStop_awaitStop_copy_tryStart_awaitStart

\* An uninstall on Windows.
LEMMA UninstallOnWindows ==
  /\ Reads(tryStop_awaitGone_delete, "tryStop", awaitGone_delete)
  /\ Reads(awaitGone_delete, "awaitGone", only_delete)
  /\ Reads(only_delete, "delete", <<>>)
  BY DEF Reads, Steps, awaitGone_delete, only_delete, tryStop_awaitGone_delete

\* An install on Linux, and a command to start.
LEMMA InstallOnLinux ==
  /\ Reads(stop_copy_write_reload_start, "stop", copy_write_reload_start)
  /\ Reads(stop_copy_reload_start, "stop", copy_reload_start)
  /\ Reads(stop_write_reload_start, "stop", write_reload_start)
  /\ Reads(copy_write_reload_start, "copy", write_reload_start)
  /\ Reads(copy_reload_start, "copy", reload_start)
  /\ Reads(write_reload_start, "write", reload_start)
  /\ Reads(reload_start, "reload", only_start)
  /\ Reads(only_start, "start", <<>>)
  /\ Reads(copy_write_reload, "copy", write_reload)
  /\ Reads(copy_reload, "copy", only_reload)
  /\ Reads(write_reload, "write", only_reload)
  /\ Reads(only_reload, "reload", <<>>)
  /\ Reads(copy_write_reload_enable_start_check, "copy", write_reload_enable_start_check)
  /\ Reads(write_reload_enable_start_check, "write", reload_enable_start_check)
  /\ Reads(reload_enable_start_check, "reload", enable_start_check)
  /\ Reads(enable_start_check, "enable", start_check)
  /\ Reads(start_check, "start", only_check)
  /\ Reads(only_check, "check", <<>>)
  BY DEF Reads, Steps, copy_reload, copy_reload_start, copy_write_reload,
         copy_write_reload_enable_start_check, copy_write_reload_start, enable_start_check,
         only_check, only_reload, only_start, reload_enable_start_check, reload_start,
         start_check, stop_copy_reload_start, stop_copy_write_reload_start,
         stop_write_reload_start, write_reload, write_reload_enable_start_check,
         write_reload_start

\* An uninstall on Linux.
LEMMA UninstallOnLinux ==
  /\ Reads(stop_disable_remove_reload, "stop", disable_remove_reload)
  /\ Reads(disable_remove_reload, "disable", remove_reload)
  /\ Reads(remove_reload, "remove", only_reload)
  BY DEF Reads, Steps, disable_remove_reload, only_reload, remove_reload, stop_disable_remove_reload

\* The commands of macOS that are not like those of Linux.
LEMMA OnMac ==
  /\ Reads(copy_write_start, "copy", write_start)
  /\ Reads(write_start, "write", only_start)
  /\ Reads(stop_copy_start, "stop", copy_start)
  /\ Reads(copy_start, "copy", only_start)
  /\ Reads(only_copy, "copy", <<>>)
  /\ Reads(stop_remove, "stop", only_remove)
  /\ Reads(only_remove, "remove", <<>>)
  BY DEF Reads, Steps, copy_start, copy_write_start, only_copy, only_remove, only_start, stop_copy_start,
         stop_remove, write_start

\* The command to stop, and one that has nothing to work on.
LEMMA StartAndStop ==
  /\ Reads(only_stop, "stop", <<>>)
  /\ Reads(only_bail, "bail", <<>>)
  BY DEF Reads, Steps, only_bail, only_stop

-----------------------------------------------------------------------------
(***************************************************************************)
(* The plans.                                                              *)
(***************************************************************************)
\* A sequence is its first element and the rest.
LEMMA HeadAndTail ==
  ASSUME NEW S, NEW t \in Seq(S), t # <<>>
  PROVE  <<Head(t)>> \o Tail(t) = t
  <1> DEFINE h == <<Head(t)>>
  <1>1. /\ Head(t) \in S /\ Tail(t) \in Seq(S) /\ Len(Tail(t)) = Len(t) - 1
        /\ \A i \in 1..Len(Tail(t)): Tail(t)[i] = t[i + 1]
    BY HeadTailProperties
  <1>2. Len(t) \in Nat /\ Len(t) # 0
    BY EmptySeq, LenProperties
  <1>3. h \in Seq(S) /\ Len(h) = 1 /\ h[1] = t[1]
    BY <1>1
  <1> HIDE DEF h
  <1>4. /\ h \o Tail(t) \in Seq(S) /\ Len(h \o Tail(t)) = Len(h) + Len(Tail(t))
        /\ \A i \in 1..(Len(h) + Len(Tail(t))):
             (h \o Tail(t))[i] = IF i <= Len(h) THEN h[i] ELSE Tail(t)[i - Len(h)]
    <2>1. h \in Seq(S) /\ Tail(t) \in Seq(S)
      BY <1>1, <1>3
    <2> QED
      BY <2>1, ConcatProperties
  <1>5. Len(h \o Tail(t)) = Len(t)
    BY <1>1, <1>2, <1>3, <1>4
  <1>6. ASSUME NEW i \in 1..Len(t) PROVE (h \o Tail(t))[i] = t[i]
    <2>1. CASE i = 1
      BY <2>1, <1>1, <1>2, <1>3, <1>4
    <2>2. CASE i # 1
      <3>1. i - 1 \in 1..Len(Tail(t)) /\ i \in 1..(1 + Len(Tail(t))) /\ ~(i <= 1) /\ (i - 1) + 1 = i
        BY <2>2, <1>1, <1>2
      <3>2. (h \o Tail(t))[i] = Tail(t)[i - 1]
        BY <3>1, <1>3, <1>4
      <3>3. Tail(t)[i - 1] = t[(i - 1) + 1]
        BY <3>1, <1>1
      <3> QED
        BY <3>1, <3>2, <3>3
    <2> QED
      BY <2>1, <2>2
  <1>7. h \o Tail(t) = t
    BY <1>4, <1>5, <1>6, SeqEqual
  <1> QED
    BY <1>7 DEF h

\* A step and what is left after it.
LEMMA Before ==
  ASSUME NEW todo, NEW step, NEW rest, Reads(todo, step, rest)
  PROVE  <<step>> \o rest = todo
  BY HeadAndTail DEF Reads

\* Two steps and what is left after them.
LEMMA FirstTwo ==
  ASSUME NEW t \in Seq(Steps), t # <<>>, Tail(t) # <<>>
  PROVE  <<Head(t), Head(Tail(t))>> \o Tail(Tail(t)) = t
  <1> DEFINE u == Tail(t)
             h == <<Head(t)>>
             g == <<Head(u)>>
             two == <<Head(t), Head(u)>>
  <1>1. Head(t) \in Steps /\ u \in Seq(Steps)
    BY HeadTailProperties
  <1>2. u # <<>> /\ Head(u) \in Steps /\ Tail(u) \in Seq(Steps)
    BY <1>1, HeadTailProperties
  <1>3. h \o u = t /\ g \o Tail(u) = u
    BY <1>1, <1>2, HeadAndTail
  <1>4. h \in Seq(Steps) /\ g \in Seq(Steps)
    BY <1>1, <1>2
  <1>5. h \o g = two
    <2>1. two \in Seq(Steps) /\ two # <<>> /\ Head(two) = Head(t) /\ Tail(two) = g
      BY <1>1, <1>2
    <2> QED
      BY <2>1, HeadAndTail
  <1> HIDE DEF h, g, u
  <1>6. (h \o g) \o Tail(u) = h \o (g \o Tail(u))
    BY <1>2, <1>4, ConcatAssociative, SMTT(30)
  <1> QED
    BY <1>3, <1>5, <1>6 DEF u

\* The concatenations that the plans are written with.
LEMMA Pieces ==
  /\ <<"tryStop", "awaitStop">> \o <<"copy", "tryStart", "awaitStart">> = tryStop_awaitStop_copy_tryStart_awaitStart
  /\ <<>> \o <<"copy", "tryStart", "awaitStart">> = copy_tryStart_awaitStart
  /\ <<"tryStop", "awaitGone">> \o <<"delete">> = tryStop_awaitGone_delete
  /\ <<>> \o <<"delete">> = only_delete
  /\ <<"stop">> \o <<"disable", "remove", "reload">> = stop_disable_remove_reload
  /\ <<>> \o <<"disable", "remove", "reload">> = disable_remove_reload
  <1>1. /\ copy_tryStart_awaitStart \in Seq(Steps) /\ only_delete \in Seq(Steps)
        /\ disable_remove_reload \in Seq(Steps)
    BY InstallOnWindows, UninstallOnWindows, UninstallOnLinux DEF Reads
  <1>2. /\ <<>> \o copy_tryStart_awaitStart = copy_tryStart_awaitStart
        /\ <<>> \o only_delete = only_delete
        /\ <<>> \o disable_remove_reload = disable_remove_reload
    BY <1>1, ConcatEmptySeq
  <1>3. <<"tryStop", "awaitStop">> \o copy_tryStart_awaitStart = tryStop_awaitStop_copy_tryStart_awaitStart
    BY InstallOnWindows, FirstTwo DEF Reads
  <1>4. <<"tryStop", "awaitGone">> \o only_delete = tryStop_awaitGone_delete
    BY UninstallOnWindows, FirstTwo DEF Reads
  <1>5. <<"stop">> \o disable_remove_reload = stop_disable_remove_reload
    BY UninstallOnLinux, Before
  <1> QED
    BY <1>2, <1>3, <1>4, <1>5 DEF copy_tryStart_awaitStart, only_delete, disable_remove_reload

\* What the commands decide to do.
LEMMA PlansOnWindows ==
  /\ WindowsInstall =
       IF unit = "none" THEN copy_create_describe_tryStart_awaitStart
       ELSE IF NeedsUpdate
       THEN (IF state = "running" THEN tryStop_awaitStop_copy_tryStart_awaitStart ELSE copy_tryStart_awaitStart)
       ELSE IF state = "running" THEN <<>>
       ELSE IF state = "stopped" THEN only_startService ELSE copy_create_describe_tryStart_awaitStart
  /\ WindowsUninstall =
       IF unit = "none" THEN <<>> ELSE IF state # "stopped" THEN tryStop_awaitGone_delete ELSE only_delete
  /\ WindowsStart = IF unit # "none" /\ state # "running" THEN only_start ELSE <<>>
  /\ WindowsStop = IF unit # "none" /\ state # "stopped" THEN only_stop ELSE <<>>
  <1> DEFINE rest == <<"copy", "tryStart", "awaitStart">>
             stopping == <<"tryStop", "awaitStop">>
             new == <<"copy", "create", "describe", "tryStart", "awaitStart">>
  <1>1. stopping \o rest = tryStop_awaitStop_copy_tryStart_awaitStart /\ <<>> \o rest = copy_tryStart_awaitStart
    BY Pieces
  <1>2. new = copy_create_describe_tryStart_awaitStart /\ <<"startService">> = only_startService
    BY DEF copy_create_describe_tryStart_awaitStart, only_startService
  <1>3. /\ unit = "none" => WindowsInstall = new
        /\ unit # "none" /\ NeedsUpdate => WindowsInstall = When(state = "running", stopping) \o rest
        /\ unit # "none" /\ ~NeedsUpdate /\ state = "running" => WindowsInstall = <<>>
        /\ unit # "none" /\ ~NeedsUpdate /\ state = "stopped" => WindowsInstall = <<"startService">>
        /\ unit # "none" /\ ~NeedsUpdate /\ state # "running" /\ state # "stopped" => WindowsInstall = new
    BY DEF WindowsInstall
  <1>4. WindowsUninstall = IF unit = "none" THEN <<>>
                           ELSE When(state # "stopped", <<"tryStop", "awaitGone">>) \o <<"delete">>
    BY DEF WindowsUninstall, When
  <1>5. When(state # "stopped", <<"tryStop", "awaitGone">>) \o <<"delete">>
          = IF state # "stopped" THEN tryStop_awaitGone_delete ELSE only_delete
    BY Pieces DEF When
  <1> HIDE DEF rest, stopping, new
  <1>6. /\ state = "running" => When(state = "running", stopping) = stopping
        /\ state # "running" => When(state = "running", stopping) = <<>>
    BY DEF When
  <1> QED
    BY <1>1, <1>2, <1>3, <1>4, <1>5, <1>6 DEF WindowsStart, WindowsStop, When, only_start, only_stop

\* An update on Linux: each of its steps on a condition.
LEMMA UpdateOnLinux ==
  ASSUME NEW s \in BOOLEAN, NEW c \in BOOLEAN, NEW w \in BOOLEAN
  PROVE  When(s, <<"stop">>) \o When(c, <<"copy">>) \o When(w, <<"write">>) \o <<"reload">>
           \o When(s, <<"start">>)
           = IF s
             THEN IF c THEN (IF w THEN stop_copy_write_reload_start ELSE stop_copy_reload_start)
                  ELSE IF w THEN stop_write_reload_start ELSE <<"stop">> \o reload_start
             ELSE IF c THEN (IF w THEN copy_write_reload ELSE copy_reload)
                  ELSE IF w THEN write_reload ELSE only_reload
  <1> DEFINE a == When(s, <<"stop">>)
             b == When(c, <<"copy">>)
             d == When(w, <<"write">>)
             r == <<"reload">>
             e == When(s, <<"start">>)
             rest1 == IF s THEN reload_start ELSE only_reload
             rest2 == IF s THEN (IF w THEN write_reload_start ELSE reload_start)
                      ELSE IF w THEN write_reload ELSE only_reload
             rest3 == IF s THEN (IF c THEN (IF w THEN copy_write_reload_start ELSE copy_reload_start)
                                 ELSE IF w THEN write_reload_start ELSE reload_start)
                      ELSE IF c THEN (IF w THEN copy_write_reload ELSE copy_reload)
                      ELSE IF w THEN write_reload ELSE only_reload
  <1>1. a \in Seq(Steps) /\ b \in Seq(Steps) /\ d \in Seq(Steps) /\ r \in Seq(Steps) /\ e \in Seq(Steps)
    <2>1. /\ <<>> \in Seq(Steps) /\ <<"stop">> \in Seq(Steps) /\ <<"copy">> \in Seq(Steps)
          /\ <<"write">> \in Seq(Steps) /\ <<"reload">> \in Seq(Steps) /\ <<"start">> \in Seq(Steps)
      BY DEF Steps
    <2> QED
      BY <2>1 DEF When
  <1>2. a \o b \o d \o r \o e = a \o (b \o (d \o (r \o e)))
    <2> HIDE DEF a, b, d, r, e
    <2>1. r \o e \in Seq(Steps) /\ d \o (r \o e) \in Seq(Steps) /\ a \o b \in Seq(Steps) /\ a \o b \o d \in Seq(Steps)
      BY <1>1, ConcatProperties
    <2>2. a \o b \o d \o r \o e = (a \o b \o d) \o (r \o e)
      BY <1>1, <2>1, ConcatAssociative, SMTT(30)
    <2>3. (a \o b \o d) \o (r \o e) = (a \o b) \o (d \o (r \o e))
      BY <1>1, <2>1, ConcatAssociative, SMTT(30)
    <2>4. (a \o b) \o (d \o (r \o e)) = a \o (b \o (d \o (r \o e)))
      BY <1>1, <2>1, ConcatAssociative, SMTT(30)
    <2> QED
      BY <2>2, <2>3, <2>4
  <1>3. r \o e = rest1
    <2>1. r \o only_start = reload_start /\ r \o <<>> = r /\ r = only_reload
      <3>1. r \o only_start = reload_start
        BY InstallOnLinux, Before
      <3>2. r \o <<>> = r
        BY <1>1, ConcatEmptySeq
      <3> QED
        BY <3>1, <3>2 DEF only_reload
    <2> QED
      BY <2>1 DEF When, only_start
  <1>4. d \o rest1 = rest2
    <2>1. /\ <<"write">> \o reload_start = write_reload_start
          /\ <<"write">> \o only_reload = write_reload
      BY InstallOnLinux, Before
    <2>2. <<>> \o reload_start = reload_start /\ <<>> \o only_reload = only_reload
      BY InstallOnLinux, ConcatEmptySeq DEF Reads
    <2> QED
      BY <2>1, <2>2 DEF When
  <1>5. b \o rest2 = rest3
    <2>1. /\ <<"copy">> \o write_reload_start = copy_write_reload_start
          /\ <<"copy">> \o reload_start = copy_reload_start
          /\ <<"copy">> \o write_reload = copy_write_reload
          /\ <<"copy">> \o only_reload = copy_reload
      BY InstallOnLinux, Before
    <2>2. <<>> \o rest2 = rest2
      BY InstallOnLinux, ConcatEmptySeq DEF Reads
    <2> QED
      BY <2>1, <2>2 DEF When
  <1>6. /\ <<"stop">> \o copy_write_reload_start = stop_copy_write_reload_start
        /\ <<"stop">> \o copy_reload_start = stop_copy_reload_start
        /\ <<"stop">> \o write_reload_start = stop_write_reload_start
    BY InstallOnLinux, Before
  <1>7. <<>> \o rest3 = rest3
    BY InstallOnLinux, ConcatEmptySeq DEF Reads
  <1>8. s => a = <<"stop">>
    BY DEF When
  <1>9. ~s => a = <<>>
    BY DEF When
  <1>10. a \o rest3 = IF s
                      THEN IF c THEN (IF w THEN stop_copy_write_reload_start ELSE stop_copy_reload_start)
                           ELSE IF w THEN stop_write_reload_start ELSE <<"stop">> \o reload_start
                      ELSE rest3
    <2> HIDE DEF a
    <2> QED
      BY <1>6, <1>7, <1>8, <1>9
  <1> HIDE DEF a, b, d, r, e, rest1, rest2
  <1>11. a \o b \o d \o r \o e = a \o rest3
    BY <1>2, <1>3, <1>4, <1>5
  <1> QED
    BY <1>10, <1>11 DEF a, b, d, r, e

\* What the commands decide to do on Linux.
LEMMA PlansOnLinux ==
  /\ LinuxInstall =
       IF unit # "none" /\ (NeedsUpdate \/ UnitStale)
       THEN IF state = "running"
            THEN IF NeedsUpdate THEN (IF UnitStale THEN stop_copy_write_reload_start ELSE stop_copy_reload_start)
                 ELSE stop_write_reload_start
            ELSE IF NeedsUpdate THEN (IF UnitStale THEN copy_write_reload ELSE copy_reload)
                 ELSE write_reload
       ELSE IF unit # "none" /\ state = "running" THEN <<>>
       ELSE IF unit # "none" /\ state = "stopped" THEN only_startService
       ELSE copy_write_reload_enable_start_check
  /\ LinuxUninstall =
       IF unit = "none" THEN <<>> ELSE IF state = "running" THEN stop_disable_remove_reload ELSE disable_remove_reload
  /\ UnixStart = IF unit = "none" THEN only_bail ELSE IF state # "running" THEN only_start ELSE <<>>
  /\ UnixStop = IF unit = "none" THEN only_bail ELSE IF state # "stopped" THEN only_stop ELSE <<>>
  <1> DEFINE update == When(state = "running", <<"stop">>) \o When(NeedsUpdate, <<"copy">>)
                         \o When(UnitStale, <<"write">>) \o <<"reload">> \o When(state = "running", <<"start">>)
             new == <<"copy", "write", "reload", "enable", "start", "check">>
  <1>1. (state = "running") \in BOOLEAN /\ NeedsUpdate \in BOOLEAN /\ UnitStale \in BOOLEAN
    BY DEF NeedsUpdate, UnitStale
  <1>2. update = IF state = "running"
                 THEN IF NeedsUpdate THEN (IF UnitStale THEN stop_copy_write_reload_start ELSE stop_copy_reload_start)
                      ELSE IF UnitStale THEN stop_write_reload_start ELSE <<"stop">> \o reload_start
                 ELSE IF NeedsUpdate THEN (IF UnitStale THEN copy_write_reload ELSE copy_reload)
                      ELSE IF UnitStale THEN write_reload ELSE only_reload
    BY <1>1, UpdateOnLinux
  <1>3. new = copy_write_reload_enable_start_check /\ <<"startService">> = only_startService
    BY DEF copy_write_reload_enable_start_check, only_startService
  <1> HIDE DEF update, new
  <1>4. /\ unit # "none" /\ (NeedsUpdate \/ UnitStale) => LinuxInstall = update
        /\ unit # "none" /\ ~NeedsUpdate /\ ~UnitStale /\ state = "running" => LinuxInstall = <<>>
        /\ unit # "none" /\ ~NeedsUpdate /\ ~UnitStale /\ state = "stopped" => LinuxInstall = <<"startService">>
        /\ unit = "none" \/ (~NeedsUpdate /\ ~UnitStale /\ state # "running" /\ state # "stopped") =>
             LinuxInstall = new
    BY DEF LinuxInstall, update, new
  <1>5. LinuxInstall = IF unit # "none" /\ (NeedsUpdate \/ UnitStale) THEN update
                       ELSE IF unit # "none" /\ state = "running" THEN <<>>
                       ELSE IF unit # "none" /\ state = "stopped" THEN <<"startService">> ELSE new
    BY <1>4
  <1>6. LinuxUninstall = IF unit = "none" THEN <<>>
                         ELSE IF state = "running" THEN stop_disable_remove_reload ELSE disable_remove_reload
    <2>1. LinuxUninstall = IF unit = "none" THEN <<>>
                           ELSE When(state = "running", <<"stop">>) \o <<"disable", "remove", "reload">>
      BY DEF LinuxUninstall, When
    <2>2. /\ state = "running" => When(state = "running", <<"stop">>) = <<"stop">>
          /\ state # "running" => When(state = "running", <<"stop">>) = <<>>
      BY DEF When
    <2> QED
      BY <2>1, <2>2, Pieces
  <1> QED
    BY <1>2, <1>3, <1>5, <1>6 DEF UnixStart, UnixStop, When, only_bail, only_start, only_stop

\* What the commands decide to do on macOS.
LEMMA PlansOnMac ==
  /\ MacInstall =
       IF unit = "none" THEN copy_write_start
       ELSE IF NeedsUpdate THEN (IF state = "running" THEN stop_copy_start ELSE only_copy)
       ELSE IF state = "running" THEN <<>> ELSE only_start
  /\ MacUninstall = IF unit = "none" THEN <<>> ELSE stop_remove
  <1> DEFINE update == When(state = "running", <<"stop">>) \o <<"copy">> \o When(state = "running", <<"start">>)
  <1>1. update = IF state = "running" THEN stop_copy_start ELSE only_copy
    <2>1. <<"stop">> \in Seq(Steps) /\ <<"copy">> \in Seq(Steps) /\ <<"start">> \in Seq(Steps)
      BY DEF Steps
    <2>2. (<<"stop">> \o <<"copy">>) \o <<"start">> = <<"stop">> \o (<<"copy">> \o <<"start">>)
      BY <2>1, ConcatAssociative, SMTT(30)
    <2>3. <<"copy">> \o only_start = copy_start /\ <<"stop">> \o copy_start = stop_copy_start
      BY OnMac, Before
    <2>4. <<>> \o <<"copy">> = <<"copy">> /\ <<"copy">> \o <<>> = <<"copy">>
      BY <2>1, ConcatEmptySeq
    <2>5. state = "running" => update = (<<"stop">> \o <<"copy">>) \o <<"start">>
      BY DEF When
    <2>6. state # "running" => update = (<<>> \o <<"copy">>) \o <<>>
      BY DEF When
    <2> QED
      BY <2>2, <2>3, <2>4, <2>5, <2>6 DEF only_start, only_copy
  <1> HIDE DEF update
  <1>2. MacInstall = IF unit = "none" THEN <<"copy", "write", "start">>
                     ELSE IF NeedsUpdate THEN update ELSE When(state # "running", <<"start">>)
    BY DEF MacInstall, update
  <1> QED
    BY <1>1, <1>2 DEF MacUninstall, When, copy_write_start, only_start, stop_remove

-----------------------------------------------------------------------------
(***************************************************************************)
(* The invariant.                                                          *)
(***************************************************************************)
\* What each system's service manager can say, and that a service that lives was started
\* from the program that is there.
ServiceInv ==
    /\ Alive(state) => runs = binary \/ binary = "none"
    /\ os = "windows" => /\ unit \in {"none", "current", "deleting"}
                         /\ state \in {"stopped", "starting", "running", "stopping"}
                         /\ unit = "none" => state = "stopped"
    /\ os = "linux" => /\ unit \in {"none", "old", "current"}
                       /\ state \in {"stopped", "running", "restarting", "failed"}
    /\ os = "macos" => unit \in {"none", "current"} /\ state \in {"stopped", "running"}

\* A process that is by itself is the only one at work.
ByItself == \A p, q \in Procs: Working(p) /\ proc[p].alone /\ Working(q) => p = q

\* A service that was there is there, perhaps to go as soon as nobody has it open.
Opened(r) == ~r.fresh /\ unit # "none"

\* There was none and there is none, or there was one that was about to change its state.
Found(r) ==
    /\ r.fresh => unit = "none"
    /\ ~r.fresh => r.saw \in {"starting", "stopping"}

\* The registration for which the command starts the service.
Entered(r) == unit = "current" \/ (unit = "deleting" /\ ~r.fresh)

\* What is left of an install on Windows, and, if the process is by itself, what it has done.
InstallingOnWindows(r) ==
    \/ r.todo = copy_create_describe_tryStart_awaitStart /\ (r.alone => Found(r))
    \/ r.todo = create_describe_tryStart_awaitStart /\ (r.alone => Found(r) /\ binary = "current")
    \/ r.todo = describe_tryStart_awaitStart /\
          (r.alone => unit = "current" /\ binary = "current" /\ state = "stopped")
    \/ r.todo = tryStop_awaitStop_copy_tryStart_awaitStart /\ (r.alone => Opened(r))
    \/ r.todo = awaitStop_copy_tryStart_awaitStart /\ (r.alone => Opened(r))
    \/ r.todo = copy_tryStart_awaitStart /\
          (r.alone => Opened(r) /\ (r.calm /\ r.saw \notin {"starting", "stopping"} => state = "stopped"))
    \/ r.todo = tryStart_awaitStart /\ (r.alone => Entered(r) /\ binary = "current" /\ state = "stopped")
    \/ r.todo = only_awaitStart /\
          (r.alone => /\ Entered(r) /\ binary = "current"
                      /\ Alive(state) => unit = "current"
                      /\ r.calm /\ unit = "current" => state \in {"starting", "running"})
    \/ r.todo \in {only_startService, only_start} /\
          (r.alone => Opened(r) /\ binary = "current" /\ state = "stopped" /\ r.saw = "stopped")

\* A service that was at rest, or has been stopped, stays so.
AtRest(r) == r.calm /\ r.saw # "restarting" => ~Alive(state) /\ state # "restarting"

\* The same on Linux: an update of a service that ran, of one that did not, the start of
\* one that is current, and an install from nothing.
InstallingOnLinux(r) ==
    \/ r.todo = stop_copy_write_reload_start /\ (r.alone => ~r.fresh /\ r.saw = "running")
    \/ r.todo = stop_copy_reload_start /\ (r.alone => ~r.fresh /\ r.saw = "running" /\ unit = "current")
    \/ r.todo = stop_write_reload_start /\ (r.alone => ~r.fresh /\ r.saw = "running" /\ binary = "current")
    \/ r.todo = copy_write_reload_start /\ (r.alone => ~r.fresh /\ r.saw = "running" /\ AtRest(r))
    \/ r.todo = copy_reload_start /\ (r.alone => ~r.fresh /\ r.saw = "running" /\ AtRest(r) /\ unit = "current")
    \/ r.todo = write_reload_start /\ (r.alone => binary = "current")
    \/ r.todo \in {reload_start, only_start} /\ (r.alone => unit = "current" /\ binary = "current")
    \/ r.todo = copy_write_reload /\ (r.alone => ~r.fresh /\ r.saw # "running" /\ AtRest(r))
    \/ r.todo = copy_reload /\ (r.alone => ~r.fresh /\ r.saw # "running" /\ AtRest(r) /\ unit = "current")
    \/ r.todo = write_reload /\ (r.alone => ~r.fresh /\ r.saw # "running" /\ binary = "current")
    \/ r.todo = only_reload /\ (r.alone => ~r.fresh /\ r.saw # "running" /\ unit = "current" /\ binary = "current")
    \/ r.todo = only_startService /\
          (r.alone => ~r.fresh /\ r.saw # "running" /\ unit = "current" /\ binary = "current")
    \/ r.todo = only_bail /\ ~r.alone
    \/ r.todo = copy_write_reload_enable_start_check /\ (r.alone => (r.saw = "running" /\ r.fresh) \/ AtRest(r))
    \/ r.todo = write_reload_enable_start_check /\ (r.alone => binary = "current")
    \/ r.todo \in {reload_enable_start_check, enable_start_check, start_check} /\
          (r.alone => unit = "current" /\ binary = "current")
    \/ r.todo = only_check /\ (r.alone => unit = "current" /\ binary = "current" /\ (r.calm => state = "running"))

InstallingOnMac(r) ==
    \/ r.todo = copy_write_start
    \/ r.todo = write_start /\ (r.alone => binary = "current")
    \/ r.todo = only_start /\ (r.alone => unit = "current" /\ binary = "current")
    \/ r.todo \in {stop_copy_start, copy_start} /\ (r.alone => unit = "current")
    \/ r.todo = only_copy /\ (r.alone => ~r.fresh /\ r.saw # "running" /\ unit = "current")

UninstallingOnWindows(r) ==
    \/ r.todo = tryStop_awaitGone_delete /\
          (r.alone => Opened(r) /\ (r.calm /\ r.saw \notin {"starting", "stopping"} => state = "running"))
    \/ r.todo = awaitGone_delete /\
          (r.alone => /\ Opened(r)
                      /\ r.calm /\ r.saw \notin {"starting", "stopping"} => state \in {"stopping", "stopped"})
    \/ r.todo = only_delete /\ (r.alone => Opened(r) /\ (r.calm => state = "stopped"))

UninstallingOnLinux(r) ==
    \/ r.todo = stop_disable_remove_reload /\ (r.alone => unit # "none")
    \/ r.todo \in {disable_remove_reload, remove_reload} /\ (r.alone => unit # "none" /\ AtRest(r))
    \/ r.todo = only_reload /\ (r.alone => unit = "none" /\ AtRest(r))

UninstallingOnMac(r) ==
    \/ r.todo = stop_remove
    \/ r.todo = only_remove /\ (r.alone => state = "stopped")

Installing(r) ==
    /\ os = "windows" => InstallingOnWindows(r)
    /\ os = "linux" => InstallingOnLinux(r)
    /\ os = "macos" => InstallingOnMac(r)

Uninstalling(r) ==
    /\ os = "windows" => UninstallingOnWindows(r)
    /\ os = "linux" => UninstallingOnLinux(r)
    /\ os = "macos" => UninstallingOnMac(r)

\* How far the process with record r is.
Line(r) ==
    /\ r.command = "install" => Installing(r)
    /\ r.command = "uninstall" => Uninstalling(r)
    /\ r.command = "start" => r.todo \in {only_bail, only_start}
    /\ r.command = "stop" => r.todo \in {only_bail, only_stop}

Lines == \A p \in Procs: proc[p].phase = "work" => Line(proc[p])

SetupInv == SetupTypeOK /\ ServiceInv /\ ByItself /\ Lines

-----------------------------------------------------------------------------
(***************************************************************************)
(* What a process may do, by the first of its steps left.                  *)
(***************************************************************************)
\* The process goes on with todo, or ends well if that is nothing.
Moves(p, todo) ==
    /\ todo # <<>> => /\ proc'[p].phase = "work" /\ proc'[p].todo = todo
                      /\ proc'[p].command = proc[p].command /\ proc'[p].saw = proc[p].saw
                      /\ proc'[p].fresh = proc[p].fresh /\ proc'[p].alone = proc[p].alone
    /\ todo = <<>> => proc'[p].phase = "done" /\ proc'[p].ok = TRUE

\* It does so after a step that went well.
Goes(p, todo) ==
    /\ Moves(p, todo)
    /\ todo # <<>> => proc'[p].calm = proc[p].calm
    /\ faults' = faults

\* It does so although the step failed.
Slips(p, todo) ==
    /\ Moves(p, todo)
    /\ todo # <<>> => proc'[p].calm = FALSE
    /\ faults' # faults
    /\ UNCHANGED service

\* It ends after a failure of the system.
Fails(p) == proc'[p].phase = "done" /\ proc'[p].ok = FALSE /\ faults' # faults

\* It ends because of what it has found.
Bails(p) == proc'[p].phase = "done" /\ proc'[p].ok = FALSE /\ faults' = faults /\ UNCHANGED service

\* What is left of a command is a sequence of steps, and not empty.
Some(todo) == todo \in Seq(Steps) /\ todo # <<>>

\* Every rest of a plan is a sequence that is not empty.
LEMMA AllSome ==
  /\ Some(copy_create_describe_tryStart_awaitStart)
  /\ Some(create_describe_tryStart_awaitStart)
  /\ Some(describe_tryStart_awaitStart)
  /\ Some(tryStart_awaitStart)
  /\ Some(only_awaitStart)
  /\ Some(tryStop_awaitStop_copy_tryStart_awaitStart)
  /\ Some(awaitStop_copy_tryStart_awaitStart)
  /\ Some(copy_tryStart_awaitStart)
  /\ Some(only_startService)
  /\ Some(tryStop_awaitGone_delete)
  /\ Some(awaitGone_delete)
  /\ Some(only_delete)
  /\ Some(stop_copy_write_reload_start)
  /\ Some(stop_copy_reload_start)
  /\ Some(stop_write_reload_start)
  /\ Some(copy_write_reload_start)
  /\ Some(copy_reload_start)
  /\ Some(write_reload_start)
  /\ Some(reload_start)
  /\ Some(only_start)
  /\ Some(copy_write_reload)
  /\ Some(copy_reload)
  /\ Some(write_reload)
  /\ Some(only_reload)
  /\ Some(copy_write_reload_enable_start_check)
  /\ Some(write_reload_enable_start_check)
  /\ Some(reload_enable_start_check)
  /\ Some(enable_start_check)
  /\ Some(start_check)
  /\ Some(only_check)
  /\ Some(stop_disable_remove_reload)
  /\ Some(disable_remove_reload)
  /\ Some(remove_reload)
  /\ Some(copy_write_start)
  /\ Some(write_start)
  /\ Some(stop_copy_start)
  /\ Some(copy_start)
  /\ Some(only_copy)
  /\ Some(stop_remove)
  /\ Some(only_remove)
  /\ Some(only_stop)
  /\ Some(only_bail)
  BY InstallOnWindows, UninstallOnWindows, InstallOnLinux, UninstallOnLinux, OnMac, StartAndStop
  DEF Reads, Some

\* A process that is on its line has a step left.
LEMMA Left ==
  ASSUME NEW r, Line(r), os \in {"windows", "linux", "macos"}, r.command \in Commands
  PROVE  Some(r.todo)
  <1>1. CASE r.command = "install" /\ os = "windows"
    BY <1>1, AllSome DEF Line, Installing, InstallingOnWindows
  <1>2. CASE r.command = "install" /\ os = "linux"
    BY <1>2, AllSome DEF Line, Installing, InstallingOnLinux
  <1>3. CASE r.command = "install" /\ os = "macos"
    BY <1>3, AllSome DEF Line, Installing, InstallingOnMac
  <1>4. CASE r.command = "uninstall"
    BY <1>4, AllSome
    DEF Line, Uninstalling, UninstallingOnWindows, UninstallingOnLinux, UninstallingOnMac
  <1>5. CASE r.command \in {"start", "stop"}
    BY <1>5, AllSome DEF Line
  <1> QED
    BY <1>1, <1>2, <1>3, <1>4, <1>5 DEF Commands

\* A process that is given a plan is at work on it, or has ended well.
LEMMA WithMoves ==
  ASSUME SetupTypeOK, NEW p \in Procs, proc[p].phase = "work", NEW todo \in Seq(Steps), proc'[p] = With(p, todo)
  PROVE  Moves(p, todo) /\ (todo # <<>> => proc'[p].calm = proc[p].calm)
  BY DEF SetupTypeOK, InstallerTypeOK, With, Done, Off, Moves

\* The steps that go well or not as the system is.
LEMMA GoesOn ==
  ASSUME SetupTypeOK, NEW p \in Procs, proc[p].phase = "work", proc[p].todo # <<>>, GoOn(p)
  PROVE  Moves(p, Tail(proc[p].todo)) /\ (Tail(proc[p].todo) # <<>> => proc'[p].calm = proc[p].calm)
  <1>1. proc[p].todo \in Seq(Steps)
    BY DEF SetupTypeOK, InstallerTypeOK
  <1>2. Tail(proc[p].todo) \in Seq(Steps)
    BY <1>1, HeadTailProperties
  <1>3. proc'[p] = With(p, Tail(proc[p].todo))
    BY DEF SetupTypeOK, InstallerTypeOK, GoOn
  <1> QED
    BY <1>2, <1>3, WithMoves

\* A process that bails out has ended badly.
LEMMA BailsOut ==
  ASSUME SetupTypeOK, NEW p \in Procs, Bail(p)
  PROVE  proc'[p].phase = "done" /\ proc'[p].ok = FALSE
  BY DEF SetupTypeOK, InstallerTypeOK, Bail, Done, Off

\* A failure of the system ends a command, but for the steps whose failure it ignores.
LEMMA Failing ==
  ASSUME SetupTypeOK, NEW p \in Procs, proc[p].phase = "work", proc[p].todo # <<>>, ProcFails(p)
  PROVE  /\ os' = os
         /\ \/ Fails(p)
            \/ /\ Head(proc[p].todo) \in {"tryStart", "tryStop", "disable", "awaitStop", "awaitGone"}
               /\ Slips(p, Tail(proc[p].todo))
  <1> DEFINE rest == Tail(proc[p].todo)
  <1>1. proc[p].todo \in Seq(Steps) /\ faults \in Nat
    BY DEF SetupTypeOK, InstallerTypeOK
  <1>2. rest \in Seq(Steps)
    BY <1>1, HeadTailProperties
  <1>3. Fault => faults' # faults
    BY <1>1 DEF Fault
  <1>4. ASSUME proc' = [Disturbed EXCEPT ![p] = Done(FALSE)] PROVE proc'[p].phase = "done" /\ proc'[p].ok = FALSE
    BY <1>4 DEF Disturbed, Done, Off
  <1>5. ASSUME proc' = [Disturbed EXCEPT ![p] = Later(p)]
        PROVE  Moves(p, rest) /\ (rest # <<>> => proc'[p].calm = FALSE)
    <2>1. proc'[p] = Later(p)
      BY <1>5 DEF Disturbed
    <2>2. CASE rest = <<>>
      BY <2>1, <2>2 DEF Later, Done, Off, Moves
    <2>3. CASE rest # <<>>
      <3>1. proc'[p] = [proc[p] EXCEPT !.todo = rest, !.calm = FALSE]
        BY <2>1, <2>3 DEF Later
      <3> HIDE DEF rest
      <3> QED
        BY <2>3, <3>1, <1>2 DEF SetupTypeOK, InstallerTypeOK, Moves
    <2> QED
      BY <2>2, <2>3
  <1>6. CASE CopyBreaks(p)
    BY <1>3, <1>4, <1>6 DEF CopyBreaks, Fails
  <1>7. CASE StepFails(p)
    <2>1. CASE Head(proc[p].todo) \in {"tryStart", "tryStop", "disable"}
      <3>1. proc' = [Disturbed EXCEPT ![p] = Later(p)] /\ Fault /\ UNCHANGED <<os, service>>
        BY <1>7, <2>1 DEF StepFails
      <3> QED
        BY <1>3, <1>5, <2>1, <3>1 DEF Slips
    <2>2. CASE Head(proc[p].todo) \notin {"tryStart", "tryStop", "disable"}
      BY <1>3, <1>4, <1>7, <2>2 DEF StepFails, Fails
    <2> QED
      BY <2>1, <2>2
  <1>8. CASE StateUnknown(p)
    BY <1>3, <1>5, <1>8 DEF StateUnknown, At, Slips
  <1> QED
    BY <1>6, <1>7, <1>8 DEF ProcFails

\* Which action is next: the one that is named in the plan.
LEMMA ByName ==
  ASSUME NEW p \in Procs, proc[p].phase = "work", ProcStep(p)
  PROVE  LET step == Head(proc[p].todo)
         IN \/ step = "bail" /\ StepBails(p)
            \/ step = "startService" /\ StartService(p)
            \/ step = "copy" /\ Copy(p)
            \/ step = "create" /\ Create(p)
            \/ step = "write" /\ WriteUnit(p)
            \/ step = "describe" /\ Describe(p)
            \/ step = "reload" /\ Reload(p)
            \/ step \in {"enable", "disable"} /\ Enable(p)
            \/ step = "start" /\ Start(p)
            \/ step = "stop" /\ Stop(p)
            \/ step = "tryStart" /\ TryStart(p)
            \/ step = "tryStop" /\ TryStop(p)
            \/ step = "awaitStart" /\ AwaitStart(p)
            \/ step = "awaitStop" /\ AwaitStop(p)
            \/ step = "awaitGone" /\ AwaitGone(p)
            \/ step = "check" /\ Check(p)
            \/ step = "remove" /\ RemoveUnit(p)
            \/ step = "delete" /\ Delete(p)
  BY DEF ProcStep, Look, StepBails, StartService, Copy, Create, WriteUnit, Describe, Reload, Enable,
         Start, Stop, TryStart, TryStop, AwaitStart, AwaitStop, AwaitGone, Check, RemoveUnit, Delete, At

\* What the steps do, if the system does not fail.
Steady == UNCHANGED <<unit, state>>

StepDoes(p, step, rest) ==
    /\ step = "copy" => IF Busy THEN Bails(p) ELSE Goes(p, rest) /\ binary' = "current" /\ Steady
    /\ step = "create" => IF unit # "none" THEN Bails(p)
                          ELSE Goes(p, rest) /\ unit' = "current" /\ UNCHANGED <<state, binary>>
    /\ step = "write" => Goes(p, rest) /\ unit' = "current" /\ UNCHANGED <<state, binary>>
    /\ step \in {"describe", "reload", "enable", "disable"} => Goes(p, rest) /\ Steady /\ UNCHANGED binary
    /\ step = "start" => IF CanStart THEN Goes(p, rest) /\ Starts /\ UNCHANGED <<unit, binary>> ELSE Bails(p)
    /\ step = "stop" => IF CanStop THEN Goes(p, rest) /\ Stops /\ UNCHANGED <<unit, binary>> ELSE Bails(p)
    /\ step = "tryStart" => /\ Goes(p, rest) /\ UNCHANGED <<unit, binary>>
                            /\ IF CanStart THEN Starts ELSE Stays
    /\ step = "tryStop" => /\ Goes(p, rest) /\ UNCHANGED <<unit, binary>>
                           /\ IF CanStop THEN Stops ELSE Stays
    /\ step = "awaitStart" => state # "starting"
    /\ step \in {"awaitStart", "check"} => IF state = "running" THEN Goes(p, rest) /\ UNCHANGED service ELSE Bails(p)
    /\ step = "awaitStop" => state = "stopped" /\ Goes(p, rest) /\ UNCHANGED service
    /\ step = "awaitGone" => /\ state # "stopping"
                             /\ IF state = "stopped" THEN Goes(p, rest) /\ UNCHANGED service ELSE Bails(p)
    /\ step = "remove" => IF unit = "none" /\ os # "macos" THEN Bails(p)
                          ELSE Goes(p, rest) /\ unit' = "none" /\ UNCHANGED <<state, binary>>
    /\ step = "delete" => IF ~Registered THEN Bails(p)
                          ELSE Goes(p, rest) /\ unit' \in {"none", "deleting"} /\ UNCHANGED <<state, binary>>
    /\ step = "bail" => Bails(p)
    /\ step = "startService" => /\ UNCHANGED service /\ faults' = faults
                                /\ proc'[p] = With(p, StartPlan)

\* What a step of a process does, by the name of the step.
LEMMA Doing ==
  ASSUME SetupTypeOK, NEW p \in Procs, proc[p].phase = "work", proc[p].todo # <<>>, ProcStep(p)
  PROVE  os' = os /\ StepDoes(p, Head(proc[p].todo), Tail(proc[p].todo))
  <1> DEFINE step == Head(proc[p].todo)
             rest == Tail(proc[p].todo)
  <1>1. GoOn(p) /\ faults' = faults => Goes(p, rest)
    BY GoesOn DEF Goes
  <1>2. Bail(p) => proc'[p].phase = "done" /\ proc'[p].ok = FALSE
    BY BailsOut
  <1> SUFFICES os' = os /\ StepDoes(p, step, rest)
    OBVIOUS
  <1> HIDE DEF step, rest
  <1>3. CASE step = "bail" /\ StepBails(p)
    BY <1>2, <1>3 DEF StepBails, StepDoes, Bails
  <1>4. CASE step = "startService" /\ StartService(p)
    BY <1>4 DEF StartService, StepDoes, SetupTypeOK, InstallerTypeOK
  <1>5. CASE step = "copy" /\ Copy(p)
    BY <1>1, <1>2, <1>5 DEF Copy, StepDoes, Bails, Steady, service
  <1>6. CASE step = "create" /\ Create(p)
    BY <1>1, <1>2, <1>6 DEF Create, StepDoes, Bails, service
  <1>7. CASE step = "write" /\ WriteUnit(p)
    BY <1>1, <1>2, <1>7 DEF WriteUnit, StepDoes
  <1>8. CASE step = "describe" /\ Describe(p)
    BY <1>1, <1>2, <1>8 DEF Describe, StepDoes, Steady, service
  <1>9. CASE step = "reload" /\ Reload(p)
    BY <1>1, <1>2, <1>9 DEF Reload, StepDoes, Steady
  <1>10. CASE step \in {"enable", "disable"} /\ Enable(p)
    BY <1>1, <1>2, <1>10 DEF Enable, StepDoes, Steady
  <1>11. CASE step = "start" /\ Start(p)
    BY <1>1, <1>2, <1>11 DEF Start, StepDoes, Bails, Stays, service
  <1>12. CASE step = "stop" /\ Stop(p)
    BY <1>1, <1>2, <1>12 DEF Stop, StepDoes, Bails, Stays, service
  <1>13. CASE step = "tryStart" /\ TryStart(p)
    BY <1>1, <1>2, <1>13 DEF TryStart, StepDoes
  <1>14. CASE step = "tryStop" /\ TryStop(p)
    BY <1>1, <1>2, <1>14 DEF TryStop, StepDoes
  <1>15. CASE step = "awaitStart" /\ AwaitStart(p)
    BY <1>1, <1>2, <1>15 DEF AwaitStart, StepDoes, Bails
  <1>16. CASE step = "awaitStop" /\ AwaitStop(p)
    BY <1>1, <1>2, <1>16 DEF AwaitStop, StepDoes
  <1>17. CASE step = "awaitGone" /\ AwaitGone(p)
    BY <1>1, <1>2, <1>17 DEF AwaitGone, StepDoes, Bails
  <1>18. CASE step = "check" /\ Check(p)
    BY <1>1, <1>2, <1>18 DEF Check, StepDoes, Bails
  <1>19. CASE step = "remove" /\ RemoveUnit(p)
    BY <1>1, <1>2, <1>19 DEF RemoveUnit, StepDoes, Bails, service
  <1>20. CASE step = "delete" /\ Delete(p)
    BY <1>1, <1>2, <1>20 DEF Delete, StepDoes, Bails, service
  <1> QED
    BY <1>3, <1>4, <1>5, <1>6, <1>7, <1>8, <1>9, <1>10, <1>11, <1>12, <1>13, <1>14, <1>15, <1>16,
       <1>17, <1>18, <1>19, <1>20, ByName DEF step

-----------------------------------------------------------------------------
(***************************************************************************)
(* What a process has done after a step of its own.                        *)
(***************************************************************************)
\* The properties, of one process.
InstallSaid(p) ==
    Ends(p, "install", TRUE) =>
      /\ unit' = "current" \/ (unit = "deleting" /\ proc[p].phase = "look")
      /\ binary' = "current"
      /\ Calm(p) /\ (Fresh(p) \/ Saw(p) = "running") => state' = "running" /\ runs' = "current"

UninstallSaid(p) ==
    Ends(p, "uninstall", TRUE) =>
      /\ unit' \in {"none", "deleting"}
      /\ Calm(p) /\ proc[p].phase = "work" /\ Saw(p) # "restarting" => ~Alive(state')

Reason(p) ==
    \/ Saw(p) \in {"starting", "stopping", "restarting"}
    \/ Saw(p) = "running" /\ Fresh(p)
    \/ unit = "deleting"

FailureSaid(p) == \A command \in {"install", "uninstall"}: Ends(p, command, FALSE) /\ Calm(p) => Reason(p)

Said(p) == InstallSaid(p) /\ UninstallSaid(p) /\ FailureSaid(p)

\* After its step process p is on its line, or it has ended as it says.
OnLine(p) == (proc'[p].phase = "work" => Line(proc[p])') /\ Said(p)

\* A process that goes on ends nothing.
LEMMA GoingOn ==
  ASSUME NEW p \in Procs, proc'[p].phase = "work", Line(proc[p])'
  PROVE  OnLine(p)
  BY DEF OnLine, Said, InstallSaid, UninstallSaid, FailureSaid, Ends

\* A failure of the system is a reason for a command to fail.
LEMMA Failed ==
  ASSUME NEW p \in Procs, Fails(p)
  PROVE  OnLine(p)
  BY DEF OnLine, Said, InstallSaid, UninstallSaid, FailureSaid, Ends, Calm, Fails

\* A process that bails out keeps its word if it has a reason.
LEMMA Bailed ==
  ASSUME NEW p \in Procs, Bails(p), proc[p].alone /\ proc[p].calm => Reason(p)
  PROVE  OnLine(p)
  BY DEF OnLine, Said, InstallSaid, UninstallSaid, FailureSaid, Ends, Calm, Bails

\* How an install may end.
Installed(p) ==
    /\ proc'[p].phase = "done" /\ proc'[p].ok = TRUE
    /\ proc[p].alone => /\ unit' = "current" /\ binary' = "current"
                        /\ proc[p].calm /\ (proc[p].fresh \/ proc[p].saw = "running") =>
                             state' = "running" /\ runs' = "current"

\* An install that ends when all is installed keeps its word.
LEMMA InstallEnds ==
  ASSUME NEW p \in Procs, proc[p].phase = "work", proc[p].command = "install", Installed(p)
  PROVE  OnLine(p)
  BY DEF OnLine, Said, InstallSaid, UninstallSaid, FailureSaid, Ends, Calm, Fresh, Saw, Installed

\* How an uninstall may end.
Uninstalled(p) ==
    /\ proc'[p].phase = "done" /\ proc'[p].ok = TRUE
    /\ proc[p].alone => /\ unit' \in {"none", "deleting"}
                        /\ proc[p].calm /\ proc[p].saw # "restarting" => ~Alive(state')

\* An uninstall that ends when nothing is left keeps its word.
LEMMA UninstallEnds ==
  ASSUME NEW p \in Procs, proc[p].phase = "work", proc[p].command = "uninstall", Uninstalled(p)
  PROVE  OnLine(p)
  BY DEF OnLine, Said, InstallSaid, UninstallSaid, FailureSaid, Ends, Calm, Fresh, Saw, Uninstalled

\* The outcomes of a step.
LEMMA Outcomes ==
  ASSUME SetupTypeOK, NEW p \in Procs, proc[p].phase = "work", proc[p].todo # <<>>, ProcStep(p) \/ ProcFails(p)
  PROVE  /\ os' = os
         /\ \/ Fails(p)
            \/ /\ Head(proc[p].todo) \in {"tryStart", "tryStop", "disable", "awaitStop", "awaitGone"}
               /\ Slips(p, Tail(proc[p].todo))
            \/ StepDoes(p, Head(proc[p].todo), Tail(proc[p].todo))
  BY Failing, Doing

\* The command to start, which an install ends with.
LEMMA StartsService ==
  ASSUME SetupTypeOK, NEW p \in Procs, proc[p].phase = "work", StepDoes(p, "startService", <<>>)
  PROVE  /\ UNCHANGED service
         /\ Goes(p, IF unit = "none" THEN (IF os = "windows" THEN <<>> ELSE only_bail)
                    ELSE IF state # "running" THEN only_start ELSE <<>>)
  <1>1. StartPlan = IF unit = "none" THEN (IF os = "windows" THEN <<>> ELSE only_bail)
                    ELSE IF state # "running" THEN only_start ELSE <<>>
    BY PlansOnWindows, PlansOnLinux DEF StartPlan
  <1>2. StartPlan \in Seq(Steps)
    <2>1. only_bail \in Seq(Steps) /\ only_start \in Seq(Steps) /\ <<>> \in Seq(Steps)
      BY AllSome DEF Some
    <2> QED
      BY <1>1, <2>1
  <1>3. UNCHANGED service /\ faults' = faults /\ proc'[p] = With(p, StartPlan)
    BY DEF StepDoes
  <1>4. Goes(p, StartPlan)
    BY <1>2, <1>3, WithMoves DEF Goes
  <1> QED
    BY <1>1, <1>3, <1>4

\* An install on Windows.
LEMMA InstallStepOnWindows ==
  ASSUME SetupTypeOK, ServiceInv, os = "windows", NEW p \in Procs, proc[p].phase = "work",
         proc[p].command = "install", InstallingOnWindows(proc[p]), ProcStep(p) \/ ProcFails(p)
  PROVE  OnLine(p)
  <1> DEFINE r == proc[p]
             Went == /\ proc'[p].phase = "work" /\ proc'[p].command = "install"
                     /\ InstallingOnWindows(proc[p])'
             GaveUp == Bails(p) /\ (r.alone /\ r.calm => Reason(p))
  <1>1. r.todo # <<>>
    BY AllSome DEF InstallingOnWindows, Some
  <1>2. os' = os
    BY <1>1, Outcomes
  <1>3. Went => OnLine(p)
    BY <1>2, GoingOn DEF Line, Installing
  <1>4. Fails(p) \/ GaveUp \/ Installed(p) => OnLine(p)
    BY Failed, Bailed, InstallEnds
  <1> SUFFICES Went \/ Fails(p) \/ GaveUp \/ Installed(p)
    BY <1>3, <1>4
  <1>5. CASE r.todo = copy_create_describe_tryStart_awaitStart /\ (r.alone => Found(r))
    <2>1. Fails(p) \/ StepDoes(p, "copy", create_describe_tryStart_awaitStart)
      BY <1>1, <1>5, InstallOnWindows, Outcomes DEF Reads
    <2>2. create_describe_tryStart_awaitStart # <<>>
      BY InstallOnWindows DEF Reads
    <2> QED
      BY <1>5, <2>1, <2>2
      DEF StepDoes, Goes, Moves, Bails, InstallingOnWindows, Busy, Alive, Steady, Reason, Saw, Fresh,
          ServiceInv, Found, Opened, Entered
  <1>6. CASE /\ r.todo = create_describe_tryStart_awaitStart
             /\ (r.alone => /\ Found(r)
                            /\ binary = "current")
    <2>1. Fails(p) \/ StepDoes(p, "create", describe_tryStart_awaitStart)
      BY <1>1, <1>6, InstallOnWindows, Outcomes DEF Reads
    <2>2. describe_tryStart_awaitStart # <<>>
      BY InstallOnWindows DEF Reads
    <2> QED
      BY <1>6, <2>1, <2>2
      DEF StepDoes, Goes, Moves, Bails, InstallingOnWindows, Reason, Saw, ServiceInv, Found, Opened, Entered
  <1>7. CASE /\ r.todo = describe_tryStart_awaitStart
             /\ (r.alone => /\ unit = "current"
                            /\ binary = "current"
                            /\ state = "stopped")
    <2>1. Fails(p) \/ StepDoes(p, "describe", tryStart_awaitStart)
      BY <1>1, <1>7, InstallOnWindows, Outcomes DEF Reads
    <2>2. tryStart_awaitStart # <<>>
      BY InstallOnWindows DEF Reads
    <2> QED
      BY <1>7, <2>1, <2>2 DEF StepDoes, Goes, Moves, Bails, InstallingOnWindows, Steady, Found, Opened, Entered
  <1>8. CASE r.todo = tryStop_awaitStop_copy_tryStart_awaitStart /\ (r.alone => Opened(r))
    <2>1. \/ Fails(p) \/ Slips(p, awaitStop_copy_tryStart_awaitStart)
          \/ StepDoes(p, "tryStop", awaitStop_copy_tryStart_awaitStart)
      BY <1>1, <1>8, InstallOnWindows, Outcomes DEF Reads
    <2>2. awaitStop_copy_tryStart_awaitStart # <<>>
      BY InstallOnWindows DEF Reads
    <2> QED
      BY <1>8, <2>1, <2>2
      DEF StepDoes, Goes, Moves, Bails, Slips, InstallingOnWindows, CanStop, Stops, Stays, Becomes, Alive,
          ServiceInv, service, Found, Opened, Entered
  <1>9. CASE r.todo = awaitStop_copy_tryStart_awaitStart /\ (r.alone => Opened(r))
    <2>1. Fails(p) \/ Slips(p, copy_tryStart_awaitStart) \/ StepDoes(p, "awaitStop", copy_tryStart_awaitStart)
      BY <1>1, <1>9, InstallOnWindows, Outcomes DEF Reads
    <2>2. copy_tryStart_awaitStart # <<>>
      BY InstallOnWindows DEF Reads
    <2> QED
      BY <1>9, <2>1, <2>2
      DEF StepDoes, Goes, Moves, Bails, Slips, InstallingOnWindows, service, ServiceInv, Found, Opened, Entered
  <1>10. CASE /\ r.todo = copy_tryStart_awaitStart
              /\ (r.alone => /\ Opened(r)
                             /\ (r.calm /\ r.saw \notin {"starting", "stopping"} => state = "stopped"))
    <2>1. Fails(p) \/ StepDoes(p, "copy", tryStart_awaitStart)
      BY <1>1, <1>10, InstallOnWindows, Outcomes DEF Reads
    <2>2. tryStart_awaitStart # <<>>
      BY InstallOnWindows DEF Reads
    <2> QED
      BY <1>10, <2>1, <2>2
      DEF StepDoes, Goes, Moves, Bails, InstallingOnWindows, Busy, Alive, Steady, Reason, Saw, Fresh,
          ServiceInv, Found, Opened, Entered
  <1>11. CASE /\ r.todo = tryStart_awaitStart
              /\ (r.alone => /\ Entered(r)
                             /\ binary = "current"
                             /\ state = "stopped")
    <2>1. Fails(p) \/ Slips(p, only_awaitStart) \/ StepDoes(p, "tryStart", only_awaitStart)
      BY <1>1, <1>11, InstallOnWindows, Outcomes DEF Reads
    <2>2. only_awaitStart # <<>>
      BY InstallOnWindows DEF Reads
    <2> QED
      BY <1>11, <2>1, <2>2
      DEF StepDoes, Goes, Moves, Bails, Slips, InstallingOnWindows, CanStart, Starts, Stays, Becomes,
          Registered, Runnable, Alive, ServiceInv, service, Found, Opened, Entered
  <1>12. CASE /\ r.todo = only_startService
              /\ (r.alone => /\ Opened(r)
                             /\ binary = "current"
                             /\ state = "stopped"
                             /\ r.saw = "stopped")
    <2>1. Fails(p) \/ StepDoes(p, "startService", <<>>)
      BY <1>1, <1>12, InstallOnWindows, Outcomes DEF Reads
    <2>2. Fails(p) \/ ( /\ UNCHANGED service
                         /\ Goes(p, IF unit = "none" THEN (IF os = "windows" THEN <<>> ELSE only_bail)
                                    ELSE IF state # "running" THEN only_start ELSE <<>>))
      BY <2>1, StartsService
    <2>3. only_start # <<>> /\ only_bail # <<>>
      BY AllSome DEF Some
    <2> QED
      BY <1>12, <2>2, <2>3 DEF Goes, Moves, InstallingOnWindows, Installed, service, Found, Opened, Entered
  <1>13. CASE /\ r.todo = only_start
              /\ (r.alone => /\ Opened(r)
                             /\ binary = "current"
                             /\ state = "stopped"
                             /\ r.saw = "stopped")
    <2>1. Fails(p) \/ StepDoes(p, "start", <<>>)
      BY <1>1, <1>13, InstallOnLinux, Outcomes DEF Reads
    <2> QED
      BY <1>13, <2>1
      DEF StepDoes, Goes, Moves, Bails, Installed, CanStart, Starts, Becomes, Registered, Runnable, Alive,
          ServiceInv, Reason, Saw, Found, Opened, Entered
  <1>14. CASE /\ r.todo = only_awaitStart
              /\ (r.alone => /\ Entered(r)
                             /\ binary = "current"
                             /\ (Alive(state) => unit = "current")
                             /\ (r.calm /\ unit = "current" => state \in {"starting", "running"}))
    <2>1. Fails(p) \/ StepDoes(p, "awaitStart", <<>>)
      BY <1>1, <1>14, InstallOnWindows, Outcomes DEF Reads
    <2> QED
      BY <1>14, <2>1
      DEF StepDoes, Goes, Moves, Bails, Installed, service, ServiceInv, Alive, Reason, Saw, Entered, Found,
          Opened
  <1> QED
    BY <1>5, <1>6, <1>7, <1>8, <1>9, <1>10, <1>11, <1>12, <1>13, <1>14 DEF InstallingOnWindows

\* An install on Linux.
LEMMA InstallStepOnLinux ==
  ASSUME SetupTypeOK, ServiceInv, os = "linux", NEW p \in Procs, proc[p].phase = "work",
         proc[p].command = "install", InstallingOnLinux(proc[p]), ProcStep(p) \/ ProcFails(p)
  PROVE  OnLine(p)
  <1> DEFINE r == proc[p]
             Went == /\ proc'[p].phase = "work" /\ proc'[p].command = "install"
                     /\ InstallingOnLinux(proc[p])'
             GaveUp == Bails(p) /\ (r.alone /\ r.calm => Reason(p))
  <1>1. r.todo # <<>>
    BY AllSome DEF InstallingOnLinux, Some
  <1>2. os' = os
    BY <1>1, Outcomes
  <1>3. Went => OnLine(p)
    BY <1>2, GoingOn DEF Line, Installing
  <1>4. Fails(p) \/ GaveUp \/ Installed(p) => OnLine(p)
    BY Failed, Bailed, InstallEnds
  <1> SUFFICES Went \/ Fails(p) \/ GaveUp \/ Installed(p)
    BY <1>3, <1>4
  <1>5. CASE r.todo = stop_copy_write_reload_start /\ (r.alone => ~r.fresh /\ r.saw = "running")
    <2>1. Fails(p) \/ StepDoes(p, "stop", copy_write_reload_start)
      BY <1>1, <1>5, InstallOnLinux, Outcomes DEF Reads
    <2>2. copy_write_reload_start # <<>>
      BY InstallOnLinux DEF Reads
    <2> QED
      BY <1>5, <2>1, <2>2
      DEF StepDoes, Goes, Moves, Bails, InstallingOnLinux, CanStop, Stops, Becomes, Alive, ServiceInv, Reason,
          Saw, AtRest
  <1>6. CASE /\ r.todo = stop_copy_reload_start
             /\ (r.alone => /\ ~r.fresh
                            /\ r.saw = "running"
                            /\ unit = "current")
    <2>1. Fails(p) \/ StepDoes(p, "stop", copy_reload_start)
      BY <1>1, <1>6, InstallOnLinux, Outcomes DEF Reads
    <2>2. copy_reload_start # <<>>
      BY InstallOnLinux DEF Reads
    <2> QED
      BY <1>6, <2>1, <2>2
      DEF StepDoes, Goes, Moves, Bails, InstallingOnLinux, CanStop, Stops, Becomes, Alive, ServiceInv, Reason,
          Saw, AtRest
  <1>7. CASE /\ r.todo = stop_write_reload_start
             /\ (r.alone => /\ ~r.fresh
                            /\ r.saw = "running"
                            /\ binary = "current")
    <2>1. Fails(p) \/ StepDoes(p, "stop", write_reload_start)
      BY <1>1, <1>7, InstallOnLinux, Outcomes DEF Reads
    <2>2. write_reload_start # <<>>
      BY InstallOnLinux DEF Reads
    <2> QED
      BY <1>7, <2>1, <2>2
      DEF StepDoes, Goes, Moves, Bails, InstallingOnLinux, CanStop, Stops, Becomes, Alive, ServiceInv, Reason,
          Saw, AtRest
  <1>8. CASE /\ r.todo = copy_write_reload_start
             /\ (r.alone => /\ ~r.fresh
                            /\ r.saw = "running"
                            /\ AtRest(r))
    <2>1. Fails(p) \/ StepDoes(p, "copy", write_reload_start)
      BY <1>1, <1>8, InstallOnLinux, Outcomes DEF Reads
    <2>2. write_reload_start # <<>>
      BY InstallOnLinux DEF Reads
    <2> QED
      BY <1>8, <2>1, <2>2
      DEF StepDoes, Goes, Moves, Bails, InstallingOnLinux, Busy, Alive, Steady, Reason, Saw, Fresh, ServiceInv,
          AtRest
  <1>9. CASE /\ r.todo = copy_reload_start
             /\ (r.alone => /\ ~r.fresh
                            /\ r.saw = "running"
                            /\ AtRest(r)
                            /\ unit = "current")
    <2>1. Fails(p) \/ StepDoes(p, "copy", reload_start)
      BY <1>1, <1>9, InstallOnLinux, Outcomes DEF Reads
    <2>2. reload_start # <<>>
      BY InstallOnLinux DEF Reads
    <2> QED
      BY <1>9, <2>1, <2>2
      DEF StepDoes, Goes, Moves, Bails, InstallingOnLinux, Busy, Alive, Steady, Reason, Saw, Fresh, ServiceInv,
          AtRest
  <1>10. CASE r.todo = write_reload_start /\ (r.alone => binary = "current")
    <2>1. Fails(p) \/ StepDoes(p, "write", reload_start)
      BY <1>1, <1>10, InstallOnLinux, Outcomes DEF Reads
    <2>2. reload_start # <<>>
      BY InstallOnLinux DEF Reads
    <2> QED
      BY <1>10, <2>1, <2>2 DEF StepDoes, Goes, Moves, Bails, InstallingOnLinux, AtRest, Alive
  <1>11. CASE r.todo = reload_start /\ (r.alone => unit = "current" /\ binary = "current")
    <2>1. Fails(p) \/ StepDoes(p, "reload", only_start)
      BY <1>1, <1>11, InstallOnLinux, Outcomes DEF Reads
    <2>2. only_start # <<>>
      BY InstallOnLinux DEF Reads
    <2> QED
      BY <1>11, <2>1, <2>2 DEF StepDoes, Goes, Moves, Bails, InstallingOnLinux, Steady, AtRest, Alive
  <1>12. CASE r.todo = only_start /\ (r.alone => unit = "current" /\ binary = "current")
    <2>1. Fails(p) \/ StepDoes(p, "start", <<>>)
      BY <1>1, <1>12, InstallOnLinux, Outcomes DEF Reads
    <2> QED
      BY <1>12, <2>1
      DEF StepDoes, Goes, Moves, Bails, Installed, CanStart, Starts, Becomes, Registered, Runnable, Alive,
          ServiceInv, Reason, Saw, AtRest
  <1>13. CASE r.todo = copy_write_reload /\ (r.alone => ~r.fresh /\ r.saw # "running" /\ AtRest(r))
    <2>1. Fails(p) \/ StepDoes(p, "copy", write_reload)
      BY <1>1, <1>13, InstallOnLinux, Outcomes DEF Reads
    <2>2. write_reload # <<>>
      BY InstallOnLinux DEF Reads
    <2> QED
      BY <1>13, <2>1, <2>2
      DEF StepDoes, Goes, Moves, Bails, InstallingOnLinux, Busy, Alive, Steady, Reason, Saw, Fresh, ServiceInv,
          AtRest
  <1>14. CASE /\ r.todo = copy_reload
              /\ (r.alone => /\ ~r.fresh
                             /\ r.saw # "running"
                             /\ AtRest(r)
                             /\ unit = "current")
    <2>1. Fails(p) \/ StepDoes(p, "copy", only_reload)
      BY <1>1, <1>14, InstallOnLinux, Outcomes DEF Reads
    <2>2. only_reload # <<>>
      BY InstallOnLinux DEF Reads
    <2> QED
      BY <1>14, <2>1, <2>2
      DEF StepDoes, Goes, Moves, Bails, InstallingOnLinux, Busy, Alive, Steady, Reason, Saw, Fresh, ServiceInv,
          AtRest
  <1>15. CASE /\ r.todo = write_reload
              /\ (r.alone => /\ ~r.fresh
                             /\ r.saw # "running"
                             /\ binary = "current")
    <2>1. Fails(p) \/ StepDoes(p, "write", only_reload)
      BY <1>1, <1>15, InstallOnLinux, Outcomes DEF Reads
    <2>2. only_reload # <<>>
      BY InstallOnLinux DEF Reads
    <2> QED
      BY <1>15, <2>1, <2>2 DEF StepDoes, Goes, Moves, Bails, InstallingOnLinux, AtRest, Alive
  <1>16. CASE /\ r.todo = only_reload
              /\ (r.alone => /\ ~r.fresh
                             /\ r.saw # "running"
                             /\ unit = "current"
                             /\ binary = "current")
    <2>1. Fails(p) \/ StepDoes(p, "reload", <<>>)
      BY <1>1, <1>16, InstallOnLinux, Outcomes DEF Reads
    <2> QED
      BY <1>16, <2>1 DEF StepDoes, Goes, Moves, Bails, Installed, Steady, AtRest, Alive
  <1>17. CASE /\ r.todo = only_startService
              /\ (r.alone => /\ ~r.fresh
                             /\ r.saw # "running"
                             /\ unit = "current"
                             /\ binary = "current")
    <2>1. Fails(p) \/ StepDoes(p, "startService", <<>>)
      BY <1>1, <1>17, InstallOnWindows, Outcomes DEF Reads
    <2>2. Fails(p) \/ ( /\ UNCHANGED service
                         /\ Goes(p, IF unit = "none" THEN (IF os = "windows" THEN <<>> ELSE only_bail)
                                    ELSE IF state # "running" THEN only_start ELSE <<>>))
      BY <2>1, StartsService
    <2>3. only_start # <<>> /\ only_bail # <<>>
      BY AllSome DEF Some
    <2> QED
      BY <1>17, <2>2, <2>3 DEF Goes, Moves, InstallingOnLinux, Installed, service, AtRest, Alive
  <1>18. CASE r.todo = only_bail /\ ~r.alone
    <2>1. Fails(p) \/ StepDoes(p, "bail", <<>>)
      BY <1>1, <1>18, StartAndStop, Outcomes DEF Reads
    <2> QED
      BY <1>18, <2>1 DEF StepDoes, Goes, Moves, Bails, Installed, AtRest, Alive
  <1>19. CASE /\ r.todo = copy_write_reload_enable_start_check
              /\ (r.alone => (r.saw = "running" /\ r.fresh) \/ AtRest(r))
    <2>1. Fails(p) \/ StepDoes(p, "copy", write_reload_enable_start_check)
      BY <1>1, <1>19, InstallOnLinux, Outcomes DEF Reads
    <2>2. write_reload_enable_start_check # <<>>
      BY InstallOnLinux DEF Reads
    <2> QED
      BY <1>19, <2>1, <2>2
      DEF StepDoes, Goes, Moves, Bails, InstallingOnLinux, Busy, Alive, Steady, Reason, Saw, Fresh, ServiceInv,
          AtRest
  <1>20. CASE r.todo = write_reload_enable_start_check /\ (r.alone => binary = "current")
    <2>1. Fails(p) \/ StepDoes(p, "write", reload_enable_start_check)
      BY <1>1, <1>20, InstallOnLinux, Outcomes DEF Reads
    <2>2. reload_enable_start_check # <<>>
      BY InstallOnLinux DEF Reads
    <2> QED
      BY <1>20, <2>1, <2>2 DEF StepDoes, Goes, Moves, Bails, InstallingOnLinux, AtRest, Alive
  <1>21. CASE /\ r.todo = reload_enable_start_check
              /\ (r.alone => /\ unit = "current"
                             /\ binary = "current")
    <2>1. Fails(p) \/ StepDoes(p, "reload", enable_start_check)
      BY <1>1, <1>21, InstallOnLinux, Outcomes DEF Reads
    <2>2. enable_start_check # <<>>
      BY InstallOnLinux DEF Reads
    <2> QED
      BY <1>21, <2>1, <2>2 DEF StepDoes, Goes, Moves, Bails, InstallingOnLinux, Steady, AtRest, Alive
  <1>22. CASE r.todo = enable_start_check /\ (r.alone => unit = "current" /\ binary = "current")
    <2>1. Fails(p) \/ StepDoes(p, "enable", start_check)
      BY <1>1, <1>22, InstallOnLinux, Outcomes DEF Reads
    <2>2. start_check # <<>>
      BY InstallOnLinux DEF Reads
    <2> QED
      BY <1>22, <2>1, <2>2 DEF StepDoes, Goes, Moves, Bails, InstallingOnLinux, Steady, AtRest, Alive
  <1>23. CASE r.todo = start_check /\ (r.alone => unit = "current" /\ binary = "current")
    <2>1. Fails(p) \/ StepDoes(p, "start", only_check)
      BY <1>1, <1>23, InstallOnLinux, Outcomes DEF Reads
    <2>2. only_check # <<>>
      BY InstallOnLinux DEF Reads
    <2> QED
      BY <1>23, <2>1, <2>2
      DEF StepDoes, Goes, Moves, Bails, InstallingOnLinux, CanStart, Starts, Becomes, Registered, Runnable,
          Alive, ServiceInv, Reason, Saw, AtRest
  <1>24. CASE /\ r.todo = only_check
              /\ (r.alone => /\ unit = "current"
                             /\ binary = "current"
                             /\ (r.calm => state = "running"))
    <2>1. Fails(p) \/ StepDoes(p, "check", <<>>)
      BY <1>1, <1>24, InstallOnLinux, Outcomes DEF Reads
    <2> QED
      BY <1>24, <2>1
      DEF StepDoes, Goes, Moves, Bails, Installed, service, ServiceInv, Alive, Reason, Saw, AtRest
  <1> QED
    BY <1>5, <1>6, <1>7, <1>8, <1>9, <1>10, <1>11, <1>12, <1>13, <1>14, <1>15, <1>16, <1>17, <1>18, <1>19,
       <1>20, <1>21, <1>22, <1>23, <1>24
    DEF InstallingOnLinux

\* An install on macOS.
LEMMA InstallStepOnMac ==
  ASSUME SetupTypeOK, ServiceInv, os = "macos", NEW p \in Procs, proc[p].phase = "work",
         proc[p].command = "install", InstallingOnMac(proc[p]), ProcStep(p) \/ ProcFails(p)
  PROVE  OnLine(p)
  <1> DEFINE r == proc[p]
             Went == /\ proc'[p].phase = "work" /\ proc'[p].command = "install"
                     /\ InstallingOnMac(proc[p])'
             GaveUp == Bails(p) /\ (r.alone /\ r.calm => Reason(p))
  <1>1. r.todo # <<>>
    BY AllSome DEF InstallingOnMac, Some
  <1>2. os' = os
    BY <1>1, Outcomes
  <1>3. Went => OnLine(p)
    BY <1>2, GoingOn DEF Line, Installing
  <1>4. Fails(p) \/ GaveUp \/ Installed(p) => OnLine(p)
    BY Failed, Bailed, InstallEnds
  <1> SUFFICES Went \/ Fails(p) \/ GaveUp \/ Installed(p)
    BY <1>3, <1>4
  <1>5. CASE r.todo = copy_write_start
    <2>1. Fails(p) \/ StepDoes(p, "copy", write_start)
      BY <1>1, <1>5, OnMac, Outcomes DEF Reads
    <2>2. write_start # <<>>
      BY OnMac DEF Reads
    <2> QED
      BY <1>5, <2>1, <2>2
      DEF StepDoes, Goes, Moves, Bails, InstallingOnMac, Busy, Alive, Steady, Reason, Saw, Fresh, ServiceInv
  <1>6. CASE r.todo = write_start /\ (r.alone => binary = "current")
    <2>1. Fails(p) \/ StepDoes(p, "write", only_start)
      BY <1>1, <1>6, OnMac, Outcomes DEF Reads
    <2>2. only_start # <<>>
      BY InstallOnLinux DEF Reads
    <2> QED
      BY <1>6, <2>1, <2>2 DEF StepDoes, Goes, Moves, Bails, InstallingOnMac
  <1>7. CASE r.todo = only_start /\ (r.alone => unit = "current" /\ binary = "current")
    <2>1. Fails(p) \/ StepDoes(p, "start", <<>>)
      BY <1>1, <1>7, InstallOnLinux, Outcomes DEF Reads
    <2> QED
      BY <1>7, <2>1
      DEF StepDoes, Goes, Moves, Bails, Installed, CanStart, Starts, Becomes, Registered, Runnable, Alive,
          ServiceInv, Reason, Saw
  <1>8. CASE r.todo = stop_copy_start /\ (r.alone => unit = "current")
    <2>1. Fails(p) \/ StepDoes(p, "stop", copy_start)
      BY <1>1, <1>8, OnMac, Outcomes DEF Reads
    <2>2. copy_start # <<>>
      BY OnMac DEF Reads
    <2> QED
      BY <1>8, <2>1, <2>2
      DEF StepDoes, Goes, Moves, Bails, InstallingOnMac, CanStop, Stops, Becomes, Alive, ServiceInv, Reason, Saw
  <1>9. CASE r.todo = copy_start /\ (r.alone => unit = "current")
    <2>1. Fails(p) \/ StepDoes(p, "copy", only_start)
      BY <1>1, <1>9, OnMac, Outcomes DEF Reads
    <2>2. only_start # <<>>
      BY InstallOnLinux DEF Reads
    <2> QED
      BY <1>9, <2>1, <2>2
      DEF StepDoes, Goes, Moves, Bails, InstallingOnMac, Busy, Alive, Steady, Reason, Saw, Fresh, ServiceInv
  <1>10. CASE r.todo = only_copy /\ (r.alone => ~r.fresh /\ r.saw # "running" /\ unit = "current")
    <2>1. Fails(p) \/ StepDoes(p, "copy", <<>>)
      BY <1>1, <1>10, OnMac, Outcomes DEF Reads
    <2> QED
      BY <1>10, <2>1
      DEF StepDoes, Goes, Moves, Bails, Installed, Busy, Alive, Steady, Reason, Saw, Fresh, ServiceInv
  <1> QED
    BY <1>5, <1>6, <1>7, <1>8, <1>9, <1>10 DEF InstallingOnMac

\* An uninstall on Windows.
LEMMA UninstallStepOnWindows ==
  ASSUME SetupTypeOK, ServiceInv, os = "windows", NEW p \in Procs, proc[p].phase = "work",
         proc[p].command = "uninstall", UninstallingOnWindows(proc[p]), ProcStep(p) \/ ProcFails(p)
  PROVE  OnLine(p)
  <1> DEFINE r == proc[p]
             Went == /\ proc'[p].phase = "work" /\ proc'[p].command = "uninstall"
                     /\ UninstallingOnWindows(proc[p])'
             GaveUp == Bails(p) /\ (r.alone /\ r.calm => Reason(p))
  <1>1. r.todo # <<>>
    BY AllSome DEF UninstallingOnWindows, Some
  <1>2. os' = os
    BY <1>1, Outcomes
  <1>3. Went => OnLine(p)
    BY <1>2, GoingOn DEF Line, Uninstalling
  <1>4. Fails(p) \/ GaveUp \/ Uninstalled(p) => OnLine(p)
    BY Failed, Bailed, UninstallEnds
  <1> SUFFICES Went \/ Fails(p) \/ GaveUp \/ Uninstalled(p)
    BY <1>3, <1>4
  <1>5. CASE /\ r.todo = tryStop_awaitGone_delete
             /\ (r.alone => /\ Opened(r)
                            /\ (r.calm /\ r.saw \notin {"starting", "stopping"} => state = "running"))
    <2>1. Fails(p) \/ Slips(p, awaitGone_delete) \/ StepDoes(p, "tryStop", awaitGone_delete)
      BY <1>1, <1>5, UninstallOnWindows, Outcomes DEF Reads
    <2>2. awaitGone_delete # <<>>
      BY UninstallOnWindows DEF Reads
    <2> QED
      BY <1>5, <2>1, <2>2
      DEF StepDoes, Goes, Moves, Bails, Slips, UninstallingOnWindows, CanStop, Stops, Stays, Becomes, Alive,
          ServiceInv, service, Opened
  <1>6. CASE /\ r.todo = awaitGone_delete
             /\ (r.alone => /\ Opened(r)
                            /\ (r.calm /\ r.saw \notin {"starting", "stopping"} => state \in {"stopping", "stopped"}))
    <2>1. Fails(p) \/ Slips(p, only_delete) \/ StepDoes(p, "awaitGone", only_delete)
      BY <1>1, <1>6, UninstallOnWindows, Outcomes DEF Reads
    <2>2. only_delete # <<>>
      BY UninstallOnWindows DEF Reads
    <2> QED
      BY <1>6, <2>1, <2>2
      DEF StepDoes, Goes, Moves, Bails, Slips, UninstallingOnWindows, service, Reason, Saw, ServiceInv, Opened,
          Alive
  <1>7. CASE r.todo = only_delete /\ (r.alone => Opened(r) /\ (r.calm => state = "stopped"))
    <2>1. Fails(p) \/ StepDoes(p, "delete", <<>>)
      BY <1>1, <1>7, UninstallOnWindows, Outcomes DEF Reads
    <2> QED
      BY <1>7, <2>1
      DEF StepDoes, Goes, Moves, Bails, Uninstalled, Registered, Reason, Saw, ServiceInv, Opened, Alive
  <1> QED
    BY <1>5, <1>6, <1>7 DEF UninstallingOnWindows

\* An uninstall on Linux.
LEMMA UninstallStepOnLinux ==
  ASSUME SetupTypeOK, ServiceInv, os = "linux", NEW p \in Procs, proc[p].phase = "work",
         proc[p].command = "uninstall", UninstallingOnLinux(proc[p]), ProcStep(p) \/ ProcFails(p)
  PROVE  OnLine(p)
  <1> DEFINE r == proc[p]
             Went == /\ proc'[p].phase = "work" /\ proc'[p].command = "uninstall"
                     /\ UninstallingOnLinux(proc[p])'
             GaveUp == Bails(p) /\ (r.alone /\ r.calm => Reason(p))
  <1>1. r.todo # <<>>
    BY AllSome DEF UninstallingOnLinux, Some
  <1>2. os' = os
    BY <1>1, Outcomes
  <1>3. Went => OnLine(p)
    BY <1>2, GoingOn DEF Line, Uninstalling
  <1>4. Fails(p) \/ GaveUp \/ Uninstalled(p) => OnLine(p)
    BY Failed, Bailed, UninstallEnds
  <1> SUFFICES Went \/ Fails(p) \/ GaveUp \/ Uninstalled(p)
    BY <1>3, <1>4
  <1>5. CASE r.todo = stop_disable_remove_reload /\ (r.alone => unit # "none")
    <2>1. Fails(p) \/ StepDoes(p, "stop", disable_remove_reload)
      BY <1>1, <1>5, UninstallOnLinux, Outcomes DEF Reads
    <2>2. disable_remove_reload # <<>>
      BY UninstallOnLinux DEF Reads
    <2> QED
      BY <1>5, <2>1, <2>2
      DEF StepDoes, Goes, Moves, Bails, UninstallingOnLinux, CanStop, Stops, Becomes, Alive, ServiceInv,
          Reason, Saw, AtRest
  <1>6. CASE r.todo = disable_remove_reload /\ (r.alone => unit # "none" /\ AtRest(r))
    <2>1. Fails(p) \/ Slips(p, remove_reload) \/ StepDoes(p, "disable", remove_reload)
      BY <1>1, <1>6, UninstallOnLinux, Outcomes DEF Reads
    <2>2. remove_reload # <<>>
      BY UninstallOnLinux DEF Reads
    <2> QED
      BY <1>6, <2>1, <2>2
      DEF StepDoes, Goes, Moves, Bails, Slips, UninstallingOnLinux, Steady, service, AtRest, Alive
  <1>7. CASE r.todo = remove_reload /\ (r.alone => unit # "none" /\ AtRest(r))
    <2>1. Fails(p) \/ StepDoes(p, "remove", only_reload)
      BY <1>1, <1>7, UninstallOnLinux, Outcomes DEF Reads
    <2>2. only_reload # <<>>
      BY InstallOnLinux DEF Reads
    <2> QED
      BY <1>7, <2>1, <2>2
      DEF StepDoes, Goes, Moves, Bails, UninstallingOnLinux, Reason, Saw, ServiceInv, AtRest, Alive
  <1>8. CASE r.todo = only_reload /\ (r.alone => unit = "none" /\ AtRest(r))
    <2>1. Fails(p) \/ StepDoes(p, "reload", <<>>)
      BY <1>1, <1>8, InstallOnLinux, Outcomes DEF Reads
    <2> QED
      BY <1>8, <2>1 DEF StepDoes, Goes, Moves, Bails, Uninstalled, Steady, AtRest, Alive
  <1> QED
    BY <1>5, <1>6, <1>7, <1>8 DEF UninstallingOnLinux

\* An uninstall on macOS.
LEMMA UninstallStepOnMac ==
  ASSUME SetupTypeOK, ServiceInv, os = "macos", NEW p \in Procs, proc[p].phase = "work",
         proc[p].command = "uninstall", UninstallingOnMac(proc[p]), ProcStep(p) \/ ProcFails(p)
  PROVE  OnLine(p)
  <1> DEFINE r == proc[p]
             Went == /\ proc'[p].phase = "work" /\ proc'[p].command = "uninstall"
                     /\ UninstallingOnMac(proc[p])'
             GaveUp == Bails(p) /\ (r.alone /\ r.calm => Reason(p))
  <1>1. r.todo # <<>>
    BY AllSome DEF UninstallingOnMac, Some
  <1>2. os' = os
    BY <1>1, Outcomes
  <1>3. Went => OnLine(p)
    BY <1>2, GoingOn DEF Line, Uninstalling
  <1>4. Fails(p) \/ GaveUp \/ Uninstalled(p) => OnLine(p)
    BY Failed, Bailed, UninstallEnds
  <1> SUFFICES Went \/ Fails(p) \/ GaveUp \/ Uninstalled(p)
    BY <1>3, <1>4
  <1>5. CASE r.todo = stop_remove
    <2>1. Fails(p) \/ StepDoes(p, "stop", only_remove)
      BY <1>1, <1>5, OnMac, Outcomes DEF Reads
    <2>2. only_remove # <<>>
      BY OnMac DEF Reads
    <2> QED
      BY <1>5, <2>1, <2>2
      DEF StepDoes, Goes, Moves, Bails, UninstallingOnMac, CanStop, Stops, Becomes, Alive, ServiceInv, Reason,
          Saw
  <1>6. CASE r.todo = only_remove /\ (r.alone => state = "stopped")
    <2>1. Fails(p) \/ StepDoes(p, "remove", <<>>)
      BY <1>1, <1>6, OnMac, Outcomes DEF Reads
    <2> QED
      BY <1>6, <2>1 DEF StepDoes, Goes, Moves, Bails, Uninstalled, Reason, Saw, ServiceInv, Alive
  <1> QED
    BY <1>5, <1>6 DEF UninstallingOnMac

\* The commands to start and to stop, of which nothing is said.
LEMMA ControlStep ==
  ASSUME SetupTypeOK, NEW p \in Procs, proc[p].phase = "work", proc[p].command \in {"start", "stop"},
         Line(proc[p]), ProcStep(p) \/ ProcFails(p)
  PROVE  OnLine(p)
  <1>1. proc[p].todo \in {only_bail, only_start, only_stop}
    BY DEF Line
  <1>2. proc[p].todo # <<>>
    BY <1>1, AllSome DEF Some
  <1>3. Tail(proc[p].todo) = <<>> /\ Head(proc[p].todo) \in {"bail", "start", "stop"}
    BY <1>1, InstallOnLinux, StartAndStop DEF Reads
  <1>4. Fails(p) \/ StepDoes(p, Head(proc[p].todo), <<>>)
    BY <1>2, <1>3, Outcomes
  <1>5. proc'[p].phase = "done"
    BY <1>3, <1>4 DEF Fails, StepDoes, Goes, Moves, Bails
  <1> QED
    BY <1>5 DEF OnLine, Said, InstallSaid, UninstallSaid, FailureSaid, Ends

\* A process that looks has not done anything yet.
LEMMA Looking ==
  ASSUME SetupTypeOK, NEW p \in Procs, Look(p)
  PROVE  /\ UNCHANGED <<os, service, faults>>
         /\ Plan(proc[p].command) = <<>> => proc'[p].phase = "done" /\ proc'[p].ok = TRUE
         /\ Plan(proc[p].command) # <<>> =>
              /\ proc'[p].phase = "work" /\ proc'[p].todo = Plan(proc[p].command)
              /\ proc'[p].command = proc[p].command /\ proc'[p].alone = proc[p].alone
              /\ proc'[p].calm = proc[p].calm /\ proc'[p].saw = state /\ proc'[p].fresh = (unit = "none")
  <1> DEFINE todo == Plan(proc[p].command)
  <1> SUFFICES /\ UNCHANGED <<os, service, faults>>
               /\ todo = <<>> => proc'[p].phase = "done" /\ proc'[p].ok = TRUE
               /\ todo # <<>> =>
                    /\ proc'[p].phase = "work" /\ proc'[p].todo = todo
                    /\ proc'[p].command = proc[p].command /\ proc'[p].alone = proc[p].alone
                    /\ proc'[p].calm = proc[p].calm /\ proc'[p].saw = state /\ proc'[p].fresh = (unit = "none")
    OBVIOUS
  <1>1. /\ UNCHANGED <<os, service, faults>>
        /\ todo = <<>> => proc' = [proc EXCEPT ![p] = Done(TRUE)]
        /\ todo # <<>> => proc' = [proc EXCEPT ![p].todo = todo, ![p].phase = "work", ![p].saw = state,
                                               ![p].fresh = (unit = "none")]
    BY DEF Look
  <1> HIDE DEF todo
  <1> QED
    BY <1>1 DEF SetupTypeOK, InstallerTypeOK, Done, Off

\* An install that has nothing to do.
LEMMA NothingToInstall ==
  ASSUME SetupTypeOK, ServiceInv, NEW p \in Procs, proc[p].command = "install", Look(p),
         Plan(proc[p].command) = <<>>, unit # "none", unit # "old", binary = "current", state = "running"
  PROVE  OnLine(p)
  <1>1. proc[p].phase = "look" /\ proc'[p].phase = "done" /\ proc'[p].ok = TRUE /\ UNCHANGED <<os, service, faults>>
    BY Looking DEF Look
  <1>2. unit \in {"current", "deleting"} /\ runs = "current"
    BY DEF SetupTypeOK, InstallerTypeOK, ServiceInv, Alive
  <1> QED
    BY <1>1, <1>2 DEF OnLine, Said, InstallSaid, UninstallSaid, FailureSaid, Ends, service

\* An uninstall that has nothing to do.
LEMMA NothingToUninstall ==
  ASSUME SetupTypeOK, ServiceInv, NEW p \in Procs, proc[p].command = "uninstall", Look(p),
         Plan(proc[p].command) = <<>>, unit = "none"
  PROVE  OnLine(p)
  <1>1. proc[p].phase = "look" /\ proc'[p].phase = "done" /\ proc'[p].ok = TRUE /\ UNCHANGED <<os, service, faults>>
    BY Looking DEF Look
  <1> QED
    BY <1>1 DEF OnLine, Said, InstallSaid, UninstallSaid, FailureSaid, Ends, service

\* A command decides on a plan whose line it is on.
LEMMA LookStep ==
  ASSUME SetupTypeOK, ServiceInv, NEW p \in Procs, Look(p)
  PROVE  OnLine(p)
  <1> DEFINE todo == Plan(proc[p].command)
  <1>1. os \in {"windows", "linux", "macos"} /\ proc[p].command \in Commands
    BY DEF SetupTypeOK, InstallerTypeOK
  <1>2. ASSUME todo # <<>>, Line(proc[p])' PROVE OnLine(p)
    BY <1>2, Looking, GoingOn
  <1>3. todo # <<>> => /\ UNCHANGED <<os, service>>
                       /\ proc'[p].todo = todo /\ proc'[p].command = proc[p].command
                       /\ proc'[p].saw = state /\ proc'[p].fresh = (unit = "none")
    BY Looking
  <1>4. CASE proc[p].command = "install"
    <2>1. CASE os = "windows"
      <3>1. todo = WindowsInstall
        BY <1>4, <2>1 DEF Plan
      <3>2. CASE todo = <<>>
        <4>1. unit # "none" /\ binary = "current" /\ state = "running"
          BY <3>1, <3>2, PlansOnWindows, AllSome DEF Some, NeedsUpdate
        <4>2. unit # "old"
          BY <2>1 DEF ServiceInv
        <4> QED
          BY <1>4, <3>2, <4>1, <4>2, NothingToInstall
      <3>3. CASE todo # <<>>
        <4> HIDE DEF todo
        <4>1. InstallingOnWindows(proc[p])'
          BY <1>3, <2>1, <3>1, <3>3, PlansOnWindows
          DEF InstallingOnWindows, Found, Opened, ServiceInv, NeedsUpdate, service
        <4>2. Line(proc[p])'
          BY <1>3, <1>4, <2>1, <3>3, <4>1 DEF Line, Installing
        <4> QED
          BY <1>2, <3>3, <4>2
      <3> QED
        BY <3>2, <3>3
    <2>2. CASE os = "linux"
      <3>1. todo = LinuxInstall
        BY <1>4, <2>2 DEF Plan
      <3>2. CASE todo = <<>>
        <4>1. unit # "none" /\ binary = "current" /\ state = "running" /\ unit # "old"
          BY <3>1, <3>2, PlansOnLinux, AllSome DEF Some, NeedsUpdate, UnitStale
        <4> QED
          BY <1>4, <3>2, <4>1, NothingToInstall
      <3>3. CASE todo # <<>>
        <4> HIDE DEF todo
        <4>1. InstallingOnLinux(proc[p])'
          <5>1. unit # "none" /\ ~UnitStale => unit = "current"
            BY <2>2 DEF ServiceInv, UnitStale
          <5>2. ~NeedsUpdate => binary = "current"
            BY DEF NeedsUpdate
          <5>3. /\ proc'[p].todo = LinuxInstall /\ proc'[p].saw = state /\ proc'[p].fresh = (unit = "none")
                /\ unit' = unit /\ binary' = binary /\ state' = state
            BY <1>3, <3>1, <3>3 DEF service
          <5>4. CASE unit # "none" /\ (NeedsUpdate \/ UnitStale) /\ state = "running"
            BY <5>1, <5>2, <5>3, <5>4, PlansOnLinux DEF InstallingOnLinux
          <5>5. CASE unit # "none" /\ (NeedsUpdate \/ UnitStale) /\ state # "running"
            <6>1. AtRest(proc[p])'
              BY <2>2, <5>3, <5>5 DEF AtRest, Alive, ServiceInv
            <6> QED
              BY <5>1, <5>2, <5>3, <5>5, <6>1, PlansOnLinux DEF InstallingOnLinux
          <5>6. CASE /\ ~(unit # "none" /\ (NeedsUpdate \/ UnitStale))
                     /\ unit # "none" /\ state \in {"running", "stopped"}
            BY <3>1, <3>3, <5>1, <5>2, <5>3, <5>6, PlansOnLinux DEF InstallingOnLinux
          <5>7. CASE /\ ~(unit # "none" /\ (NeedsUpdate \/ UnitStale))
                     /\ ~(unit # "none" /\ state \in {"running", "stopped"})
            <6>1. (proc'[p].saw = "running" /\ proc'[p].fresh) \/ AtRest(proc[p])'
              BY <2>2, <5>3, <5>7 DEF AtRest, Alive, ServiceInv
            <6> QED
              BY <5>3, <5>7, <6>1, PlansOnLinux DEF InstallingOnLinux
          <5> QED
            BY <5>4, <5>5, <5>6, <5>7
        <4>2. Line(proc[p])'
          BY <1>3, <1>4, <2>2, <3>3, <4>1 DEF Line, Installing
        <4> QED
          BY <1>2, <3>3, <4>2
      <3> QED
        BY <3>2, <3>3
    <2>3. CASE os = "macos"
      <3>1. todo = MacInstall
        BY <1>4, <2>3 DEF Plan
      <3>2. CASE todo = <<>>
        <4>1. unit # "none" /\ binary = "current" /\ state = "running"
          BY <3>1, <3>2, PlansOnMac, AllSome DEF Some, NeedsUpdate
        <4>2. unit # "old"
          BY <2>3 DEF ServiceInv
        <4> QED
          BY <1>4, <3>2, <4>1, <4>2, NothingToInstall
      <3>3. CASE todo # <<>>
        <4> HIDE DEF todo
        <4>1. InstallingOnMac(proc[p])'
          BY <1>3, <2>3, <3>1, <3>3, PlansOnMac
          DEF InstallingOnMac, ServiceInv, NeedsUpdate, service
        <4>2. Line(proc[p])'
          BY <1>3, <1>4, <2>3, <3>3, <4>1 DEF Line, Installing
        <4> QED
          BY <1>2, <3>3, <4>2
      <3> QED
        BY <3>2, <3>3
    <2> QED
      BY <1>1, <2>1, <2>2, <2>3
  <1>5. CASE proc[p].command = "uninstall"
    <2>1. CASE todo = <<>>
      <3>1. unit = "none"
        BY <1>1, <1>5, <2>1, PlansOnWindows, PlansOnLinux, PlansOnMac, AllSome DEF Plan, Some
      <3> QED
        BY <1>5, <2>1, <3>1, NothingToUninstall
    <2>2. CASE todo # <<>>
      <3>1. /\ os = "windows" => todo = WindowsUninstall
            /\ os = "linux" => todo = LinuxUninstall
            /\ os = "macos" => todo = MacUninstall
        BY <1>5 DEF Plan
      <3> HIDE DEF todo
      <3>2. os = "windows" => UninstallingOnWindows(proc[p])'
        BY <1>3, <2>2, <3>1, PlansOnWindows DEF UninstallingOnWindows, Opened, ServiceInv, service
      <3>3. os = "linux" => UninstallingOnLinux(proc[p])'
        BY <1>3, <2>2, <3>1, PlansOnLinux DEF UninstallingOnLinux, AtRest, Alive, ServiceInv, service
      <3>4. os = "macos" => UninstallingOnMac(proc[p])'
        BY <1>3, <2>2, <3>1, PlansOnMac DEF UninstallingOnMac
      <3>5. Line(proc[p])'
        BY <1>3, <1>5, <2>2, <3>2, <3>3, <3>4 DEF Line, Uninstalling
      <3> QED
        BY <1>2, <2>2, <3>5
    <2> QED
      BY <2>1, <2>2
  <1>6. CASE proc[p].command \in {"start", "stop"}
    <2>1. CASE todo = <<>>
      BY <1>6, <2>1, Looking DEF OnLine, Said, InstallSaid, UninstallSaid, FailureSaid, Ends
    <2>2. CASE todo # <<>>
      <3>1. /\ proc[p].command = "start" => todo \in {only_bail, only_start}
            /\ proc[p].command = "stop" => todo \in {only_bail, only_stop}
        BY <1>6, <2>2, PlansOnWindows, PlansOnLinux DEF Plan, StartPlan, StopPlan
      <3> HIDE DEF todo
      <3>2. Line(proc[p])'
        BY <1>3, <1>6, <2>2, <3>1 DEF Line
      <3> QED
        BY <1>2, <2>2, <3>2
    <2> QED
      BY <2>1, <2>2
  <1> QED
    BY <1>1, <1>4, <1>5, <1>6 DEF Commands

\* Every step of a process keeps it on its line.
LEMMA OwnStep ==
  ASSUME SetupInv, NEW p \in Procs, ProcStep(p) \/ ProcFails(p)
  PROVE  OnLine(p)
  <1> USE DEF SetupInv
  <1>1. /\ os \in {"windows", "linux", "macos"} /\ proc[p].command \in Commands
        /\ proc[p].phase \in {"look", "work", "done"}
    BY DEF SetupTypeOK, InstallerTypeOK
  <1>2. CASE Look(p)
    BY <1>2, LookStep
  <1>3. CASE ~Look(p)
    <2>1. proc[p].phase = "work"
      BY <1>3
      DEF ProcStep, ProcFails, StepBails, StartService, Copy, Create, WriteUnit, Describe, Reload, Enable,
         Start, Stop, TryStart, TryStop, AwaitStart, AwaitStop, AwaitGone, Check, RemoveUnit, Delete, At,
         CopyBreaks, StepFails, StateUnknown
    <2>2. Line(proc[p])
      BY <2>1 DEF Lines
    <2>3. CASE proc[p].command = "install"
      BY <1>1, <2>1, <2>2, <2>3, InstallStepOnWindows, InstallStepOnLinux, InstallStepOnMac DEF Line, Installing
    <2>4. CASE proc[p].command = "uninstall"
      BY <1>1, <2>1, <2>2, <2>4, UninstallStepOnWindows, UninstallStepOnLinux, UninstallStepOnMac
      DEF Line, Uninstalling
    <2>5. CASE proc[p].command \in {"start", "stop"}
      BY <2>1, <2>2, <2>5, ControlStep
    <2> QED
      BY <1>1, <2>3, <2>4, <2>5 DEF Commands
  <1> QED
    BY <1>2, <1>3

-----------------------------------------------------------------------------
(***************************************************************************)
(* What the steps do to the processes.                                     *)
(***************************************************************************)
ProcRecords ==
    [command: Commands, phase: {"look", "work", "done"}, todo: Seq(Steps), saw: States,
     fresh: BOOLEAN, alone: BOOLEAN, calm: BOOLEAN, ok: BOOLEAN]

\* The processes, with the name that the proofs give to their records.
LEMMA Records ==
  ASSUME SetupTypeOK
  PROVE  proc \in [Procs -> ProcRecords]
  BY DEF SetupTypeOK, InstallerTypeOK, ProcRecords

\* A process that has ended is a record of the type.
LEMMA Ending ==
  ASSUME NEW ok \in BOOLEAN
  PROVE  Done(ok) \in ProcRecords
  <1>1. <<>> \in Seq(Steps)
    OBVIOUS
  <1> QED
    BY <1>1 DEF Done, Off, ProcRecords, Commands, States

\* A process that is given a plan is a record of the type.
LEMMA WithTyped ==
  ASSUME SetupTypeOK, NEW p \in Procs, NEW todo \in Seq(Steps)
  PROVE  With(p, todo) \in ProcRecords
  <1>1. proc[p] \in ProcRecords
    BY Records
  <1>2. Done(TRUE) \in ProcRecords
    BY Ending
  <1>3. [proc[p] EXCEPT !.todo = todo, !.phase = "work"] \in ProcRecords
    BY <1>1 DEF ProcRecords
  <1> QED
    BY <1>2, <1>3 DEF With

\* Every plan is a sequence of steps.
LEMMA PlanTyped ==
  ASSUME os \in {"windows", "linux", "macos"}, NEW command \in Commands
  PROVE  Plan(command) \in Seq(Steps)
  <1> DEFINE S == Seq(Steps)
  <1>1. <<>> \in S
    OBVIOUS
  <1> HIDE DEF S
  <1>2. WindowsInstall \in S /\ WindowsUninstall \in S /\ WindowsStart \in S /\ WindowsStop \in S
    BY <1>1, PlansOnWindows, AllSome DEF Some, S
  <1>3. LinuxInstall \in S /\ LinuxUninstall \in S /\ UnixStart \in S /\ UnixStop \in S
    BY <1>1, PlansOnLinux, AllSome DEF Some, S
  <1>4. MacInstall \in S /\ MacUninstall \in S
    BY <1>1, PlansOnMac, AllSome DEF Some, S
  <1>5. Plan(command) \in S
    BY <1>2, <1>3, <1>4 DEF Plan, StartPlan, StopPlan, Commands
  <1> QED
    BY <1>5 DEF S

\* A process changes nothing of the others but whether they were disturbed.
LEMMA ProcForm ==
  ASSUME SetupTypeOK, NEW p \in Procs, proc[p].phase = "work" => proc[p].todo # <<>>, ProcStep(p) \/ ProcFails(p)
  PROVE  \E r \in ProcRecords: proc' = [proc EXCEPT ![p] = r] \/ proc' = [Disturbed EXCEPT ![p] = r]
  <1> USE Records
  <1>1. proc[p] \in ProcRecords /\ Done(TRUE) \in ProcRecords /\ Done(FALSE) \in ProcRecords
    BY Ending
  <1>2. os \in {"windows", "linux", "macos"} /\ state \in States
    BY DEF SetupTypeOK, InstallerTypeOK
  <1>3. proc[p].phase = "work" => Tail(proc[p].todo) \in Seq(Steps)
    BY <1>1, HeadTailProperties DEF ProcRecords
  <1>4. proc[p].phase = "work" /\ GoOn(p) => \E r \in ProcRecords: proc' = [proc EXCEPT ![p] = r]
    BY <1>3, WithTyped DEF GoOn
  <1>5. Bail(p) => \E r \in ProcRecords: proc' = [proc EXCEPT ![p] = r]
    BY <1>1 DEF Bail
  <1>6. CASE Look(p)
    <2> DEFINE todo == Plan(proc[p].command)
               r == [proc[p] EXCEPT !.todo = todo, !.phase = "work", !.saw = state, !.fresh = (unit = "none")]
    <2>1. todo \in Seq(Steps)
      BY <1>1, <1>2, PlanTyped DEF ProcRecords
    <2>2. proc' = [proc EXCEPT ![p] = Done(TRUE)] \/ proc' = [proc EXCEPT ![p] = r]
      <3>1. \/ proc' = [proc EXCEPT ![p] = Done(TRUE)]
            \/ proc' = [proc EXCEPT ![p].todo = todo, ![p].phase = "work", ![p].saw = state, ![p].fresh = (unit = "none")]
        BY <1>6 DEF Look
      <3> HIDE DEF todo
      <3> QED
        BY <3>1
    <2> HIDE DEF todo
    <2>3. r \in ProcRecords
      BY <1>1, <1>2, <2>1 DEF ProcRecords
    <2> HIDE DEF r
    <2> QED
      BY <1>1, <2>2, <2>3
  <1>7. CASE StartService(p)
    <2>1. StartPlan \in Seq(Steps)
      BY <1>2, PlanTyped DEF Plan, Commands
    <2> QED
      BY <1>7, <2>1, WithTyped DEF StartService
  <1>8. CASE proc[p].phase = "work" /\ ProcStep(p) /\ ~StartService(p)
    <2>1. GoOn(p) \/ Bail(p)
      BY <1>8, ByName DEF StepBails, Copy, Create, WriteUnit, Describe, Reload, Enable,
         Start, Stop, TryStart, TryStop, AwaitStart, AwaitStop, AwaitGone, Check, RemoveUnit, Delete
    <2> QED
      BY <1>4, <1>5, <1>8, <2>1
  <1>9. CASE ProcFails(p)
    <2>1. proc[p].phase = "work"
      BY <1>9 DEF ProcFails, CopyBreaks, StepFails, StateUnknown, At
    <2>2. Later(p) \in ProcRecords
      <3>1. [proc[p] EXCEPT !.todo = Tail(proc[p].todo), !.calm = FALSE] \in ProcRecords
        BY <1>1, <1>3, <2>1 DEF ProcRecords
      <3> QED
        BY <1>1, <3>1 DEF Later
    <2>3. proc' = [Disturbed EXCEPT ![p] = Later(p)] \/ proc' = [Disturbed EXCEPT ![p] = Done(FALSE)]
      BY <1>9 DEF ProcFails, CopyBreaks, StepFails, StateUnknown
    <2> QED
      BY <1>1, <2>2, <2>3
  <1>10. Look(p) \/ proc[p].phase = "work"
    BY DEF ProcStep, ProcFails, StepBails, StartService, Copy, Create, WriteUnit, Describe, Reload, Enable,
       Start, Stop, TryStart, TryStop, AwaitStart, AwaitStop, AwaitGone, Check, RemoveUnit, Delete, At,
       CopyBreaks, StepFails, StateUnknown
  <1> QED
    BY <1>6, <1>7, <1>8, <1>9, <1>10

\* What it means that the processes at work are disturbed or joined.
LEMMA Disturbing ==
  ASSUME SetupTypeOK
  PROVE  /\ Disturbed \in [Procs -> ProcRecords] /\ Joined \in [Procs -> ProcRecords]
         /\ \A q \in Procs: /\ Disturbed[q] = IF Working(q) THEN [proc[q] EXCEPT !.calm = FALSE] ELSE proc[q]
                            /\ Joined[q] = IF Working(q) THEN [proc[q] EXCEPT !.alone = FALSE] ELSE proc[q]
  <1>1. \A q \in Procs: /\ proc[q] \in ProcRecords
                        /\ [proc[q] EXCEPT !.calm = FALSE] \in ProcRecords
                        /\ [proc[q] EXCEPT !.alone = FALSE] \in ProcRecords
    BY Records DEF ProcRecords
  <1> QED
    BY <1>1 DEF Disturbed, Joined

\* What stays of a process that does not take the step itself.
Same(q) ==
    /\ proc'[q].phase = proc[q].phase /\ proc'[q].command = proc[q].command
    /\ proc'[q].todo = proc[q].todo /\ proc'[q].saw = proc[q].saw /\ proc'[q].fresh = proc[q].fresh

\* A step of a process leaves another as it is, but for being disturbed.
LEMMA Bystander ==
  ASSUME SetupTypeOK, NEW p \in Procs, NEW q \in Procs, p # q,
         proc[p].phase = "work" => proc[p].todo # <<>>, ProcStep(p) \/ ProcFails(p)
  PROVE  Same(q) /\ proc'[q].alone = proc[q].alone
  <1>1. PICK r \in ProcRecords: proc' = [proc EXCEPT ![p] = r] \/ proc' = [Disturbed EXCEPT ![p] = r]
    BY ProcForm
  <1>2. proc \in [Procs -> ProcRecords] /\ Disturbed \in [Procs -> ProcRecords]
    BY Records, Disturbing
  <1>3. proc'[q] = proc[q] \/ proc'[q] = Disturbed[q]
    BY <1>1, <1>2
  <1>4. Disturbed[q] = proc[q] \/ Disturbed[q] = [proc[q] EXCEPT !.calm = FALSE]
    BY Disturbing
  <1>5. proc[q] \in ProcRecords
    BY <1>2
  <1> QED
    BY <1>3, <1>4, <1>5 DEF ProcRecords, Same

\* The processes when one is started.
LEMMA Launching ==
  ASSUME SetupTypeOK, NEW p \in Procs, NEW command \in Commands, Launch(p, command)
  PROVE  /\ proc' \in [Procs -> ProcRecords] /\ ~Working(p)
         /\ proc'[p].phase = "look" /\ proc'[p].alone = (Free = Procs)
         /\ \A q \in Procs: q # p => Same(q) /\ (Working(q) => ~proc'[q].alone) /\ proc'[q].ok = proc[q].ok
  <1> DEFINE new == [Off EXCEPT !.command = command, !.phase = "look", !.alone = (Free = Procs)]
  <1>1. proc' = [Joined EXCEPT ![p] = new]
    BY DEF Launch
  <1>2. p \in Free
    BY DEF Launch, NewProc
  <1>3. Joined \in [Procs -> ProcRecords] /\ proc \in [Procs -> ProcRecords]
    BY Disturbing, Records
  <1>4. Off \in ProcRecords
    <2>1. <<>> \in Seq(Steps)
      OBVIOUS
    <2> QED
      BY <2>1 DEF Off, ProcRecords, Commands, States
  <1>5. new \in ProcRecords /\ new.phase = "look" /\ new.alone = (Free = Procs)
    BY <1>4 DEF ProcRecords
  <1> HIDE DEF new
  <1>6. proc' \in [Procs -> ProcRecords] /\ proc'[p] = new
    BY <1>1, <1>3, <1>5
  <1>7. ASSUME NEW q \in Procs, q # p
        PROVE  Same(q) /\ (Working(q) => ~proc'[q].alone) /\ proc'[q].ok = proc[q].ok
    <2>1. proc'[q] = IF Working(q) THEN [proc[q] EXCEPT !.alone = FALSE] ELSE proc[q]
      BY <1>1, <1>3, <1>7, Disturbing
    <2>2. proc[q] \in ProcRecords
      BY <1>3
    <2> QED
      BY <2>1, <2>2 DEF Same, ProcRecords
  <1> QED
    BY <1>2, <1>5, <1>6, <1>7 DEF Free

-----------------------------------------------------------------------------
(***************************************************************************)
(* The kinds of steps, and types.                                          *)
(***************************************************************************)
\* A process is started.
Launches ==
    /\ \E p \in Procs: \E command \in Commands: Launch(p, command)
    /\ UNCHANGED <<os, service, faults>>

\* The hub deletes the program, or tries to.
Removes ==
    /\ proc' = Joined
    /\ binary' = binary \/ (binary' = "none" /\ ~(os = "windows" /\ Alive(state)))
    /\ UNCHANGED <<os, unit, loaded, enabled, state, runs, launches, faults>>

\* The steps of the whole, by what they do to the service and its commands.
LEMMA Kinds ==
  ASSUME SetupTypeOK, SetupNext
  PROVE  \/ \E p \in Procs: ProcStep(p) \/ ProcFails(p)
         \/ ServiceStep
         \/ Crashes
         \/ Launches
         \/ Removes
         \/ UNCHANGED installerVars
  <1>1. ASSUME NEW t \in Tasks, TaskStep(t) \/ \E op \in {"install", "uninstall"}: Request(t, op)
        PROVE  Launches \/ Removes \/ UNCHANGED installerVars
    <2>1. task[t].op \in Commands
      BY DEF SetupTypeOK, Commands
    <2>2. CASE Elevate(t)
      BY <2>1, <2>2 DEF Elevate, HubStep, Launches, service
    <2>3. CASE RemoveBinary(t)
      BY <2>3 DEF RemoveBinary, HubStep, Removes
    <2>4. CASE ~Elevate(t) /\ ~RemoveBinary(t)
      <3>1. \/ AskStatus(t) \/ Refused(t) \/ Poll(t) \/ Waited(t) \/ StopCore(t)
            \/ \E op \in {"install", "uninstall"}: Request(t, op)
        BY <1>1, <2>4 DEF TaskStep
      <3> QED
        BY <3>1 DEF AskStatus, Refused, Poll, Waited, StopCore, Request, HubStep, installerVars, service
    <2> QED
      BY <2>2, <2>3, <2>4
  <1>2. ASSUME \E p \in Procs: \E command \in Commands: ShellCommand(p, command) PROVE Launches
    BY <1>2 DEF ShellCommand, Launches
  <1> QED
    BY <1>1, <1>2 DEF SetupNext

TaskRecords ==
    [op: {"install", "uninstall"},
     phase: {"idle", "asked", "elevated", "waiting", "polling", "stopping", "removing"},
     proc: Procs, n: 0..(MaxPolls + MaxTries), was: BOOLEAN, answer: {"none", "ok", "error"}]

\* The counters of the handlers stay in their range.
LEMMA Bounds ==
  /\ 0 \in 0..(MaxPolls + MaxTries)
  /\ \A n \in 0..(MaxPolls + MaxTries): n < MaxPolls \/ n < MaxTries => n + 1 \in 0..(MaxPolls + MaxTries)
  BY SetupAssumption

\* A handler that is idle is a record of the type.
LEMMA IdleTyped == Idle \in TaskRecords
  <1>1. (CHOOSE p \in Procs: TRUE) \in Procs
    BY InstallerAssumption
  <1> QED
    BY <1>1, Bounds DEF Idle, TaskRecords

\* The handlers keep their type.
LEMMA TaskTyped ==
  ASSUME SetupTypeOK, [SetupNext]_vars
  PROVE  root' \in BOOLEAN /\ task' \in [Tasks -> TaskRecords]
  <1>1. root \in BOOLEAN /\ task \in [Tasks -> TaskRecords]
    BY DEF SetupTypeOK, TaskRecords
  <1>2. CASE UNCHANGED <<root, task>>
    BY <1>1, <1>2
  <1>3. ASSUME NEW t \in Tasks, TaskStep(t) \/ \E op \in {"install", "uninstall"}: Request(t, op)
        PROVE  root' \in BOOLEAN /\ task' \in [Tasks -> TaskRecords]
    <2>1. root' = root
      BY <1>3 DEF TaskStep, Request, AskStatus, Refused, Elevate, Poll, Waited, StopCore, RemoveBinary, HubStep
    <2> SUFFICES task' \in [Tasks -> TaskRecords]
      BY <1>1, <2>1
    <2>2. ASSUME NEW r \in TaskRecords, task' = [task EXCEPT ![t] = r]
          PROVE  task' \in [Tasks -> TaskRecords]
      BY <1>1, <2>2
    <2>3. task[t] \in TaskRecords
      BY <1>1
    <2>4. ASSUME NEW answer \in {"none", "ok", "error"}, Answer(t, answer)
          PROVE  task' \in [Tasks -> TaskRecords]
      <3>1. [Idle EXCEPT !.answer = answer] \in TaskRecords
        BY IdleTyped DEF TaskRecords
      <3> QED
        BY <2>2, <2>4, <3>1 DEF Answer
    <2>5. ASSUME NEW phase \in {"stopping", "removing"}, To(t, phase)
          PROVE  task' \in [Tasks -> TaskRecords]
      <3>1. [task[t] EXCEPT !.phase = phase, !.n = 0] \in TaskRecords
        BY <2>3, Bounds DEF TaskRecords
      <3>2. task' = [task EXCEPT ![t] = [task[t] EXCEPT !.phase = phase, !.n = 0]]
        BY <2>5 DEF To
      <3> QED
        BY <2>2, <3>1, <3>2
    <2>6. ASSUME task[t].n < MaxPolls \/ task[t].n < MaxTries, task' = [task EXCEPT ![t].n = @ + 1]
          PROVE  task' \in [Tasks -> TaskRecords]
      <3>1. task[t].n \in 0..(MaxPolls + MaxTries)
        BY <2>3 DEF TaskRecords
      <3>2. task[t].n + 1 \in 0..(MaxPolls + MaxTries)
        BY <2>6, <3>1, Bounds
      <3>3. [task[t] EXCEPT !.n = task[t].n + 1] \in TaskRecords
        BY <2>3, <3>2 DEF TaskRecords
      <3>4. task' = [task EXCEPT ![t] = [task[t] EXCEPT !.n = task[t].n + 1]]
        BY <2>6
      <3> QED
        BY <2>2, <3>3, <3>4
    <2>7. CASE \E op \in {"install", "uninstall"}: Request(t, op)
      <3>1. PICK op \in {"install", "uninstall"}: Request(t, op)
        BY <2>7
      <3>2. [task[t] EXCEPT !.op = op, !.phase = "asked", !.answer = "none"] \in TaskRecords
        BY <2>3 DEF TaskRecords
      <3>3. task' = [task EXCEPT ![t] = [task[t] EXCEPT !.op = op, !.phase = "asked", !.answer = "none"]]
        BY <3>1 DEF Request
      <3> QED
        BY <2>2, <3>2, <3>3
    <2>8. CASE AskStatus(t)
      <3>1. PICK was \in BOOLEAN: task' = [task EXCEPT ![t].phase = "elevated", ![t].was = was]
        BY <2>8 DEF AskStatus, CoreSeen
      <3>2. [task[t] EXCEPT !.phase = "elevated", !.was = was] \in TaskRecords
        BY <2>3 DEF TaskRecords
      <3>3. task' = [task EXCEPT ![t] = [task[t] EXCEPT !.phase = "elevated", !.was = was]]
        BY <3>1
      <3> QED
        BY <2>2, <3>2, <3>3
    <2>9. CASE Refused(t)
      BY <2>4, <2>9 DEF Refused
    <2>10. CASE Elevate(t)
      <3>1. PICK p \in Procs, phase \in {"polling", "waiting"}: task' = [task EXCEPT ![t].phase = phase, ![t].proc = p]
        BY <2>10 DEF Elevate
      <3>2. [task[t] EXCEPT !.phase = phase, !.proc = p] \in TaskRecords
        BY <2>3 DEF TaskRecords
      <3>3. task' = [task EXCEPT ![t] = [task[t] EXCEPT !.phase = phase, !.proc = p]]
        BY <3>1
      <3> QED
        BY <2>2, <3>2, <3>3
    <2>11. CASE Poll(t)
      <3>1. task[t].op \in {"install", "uninstall"}
        BY <2>3 DEF TaskRecords
      <3>2. \/ task[t].n < MaxPolls /\ task' = [task EXCEPT ![t].n = @ + 1]
            \/ To(t, "removing") \/ To(t, "stopping") \/ Answer(t, "ok")
        BY <2>11, <3>1 DEF Poll
      <3> QED
        BY <2>4, <2>5, <2>6, <3>2
    <2>12. CASE Waited(t)
      <3>1. To(t, "removing") \/ Answer(t, "ok") \/ Answer(t, "error")
        BY <2>12 DEF Waited
      <3> QED
        BY <2>4, <2>5, <3>1
    <2>13. CASE StopCore(t)
      BY <2>4, <2>13 DEF StopCore
    <2>14. CASE RemoveBinary(t)
      <3>1. \/ task[t].n < MaxTries /\ task' = [task EXCEPT ![t].n = @ + 1]
            \/ Answer(t, "ok") \/ Answer(t, "error")
        BY <2>14 DEF RemoveBinary
      <3> QED
        BY <2>4, <2>6, <3>1
    <2> QED
      BY <1>3, <2>7, <2>8, <2>9, <2>10, <2>11, <2>12, <2>13, <2>14 DEF TaskStep
  <1>4. UNCHANGED <<root, task>> \/ \E t \in Tasks: TaskStep(t) \/ \E op \in {"install", "uninstall"}: Request(t, op)
    BY DEF SetupNext, ShellCommand, vars
  <1> QED
    BY <1>2, <1>3, <1>4

-----------------------------------------------------------------------------
(***************************************************************************)
(* The service.                                                            *)
(***************************************************************************)
\* The counters of launches and failures stay in their range.
LEMMA Counters ==
  ASSUME SetupTypeOK
  PROVE  /\ launches < MaxLaunches => launches + 1 \in 0..MaxLaunches
         /\ Fault => faults' \in 0..MaxFaults
  <1>1. launches \in 0..MaxLaunches /\ faults \in 0..MaxFaults
    BY DEF SetupTypeOK, InstallerTypeOK
  <1>2. faults < MaxFaults => faults + 1 \in 0..MaxFaults
    BY <1>1, InstallerAssumption
  <1> QED
    BY <1>1, <1>2, InstallerAssumption DEF Fault

\* The variables of the service, and the values they may have.
ServiceTyped ==
    /\ unit \in {"none", "old", "current", "deleting"}
    /\ loaded \in {"none", "old", "current"} /\ enabled \in BOOLEAN
    /\ state \in States /\ binary \in Programs /\ runs \in Programs

\* A service that changes its state keeps its type.
LEMMA Becoming ==
  ASSUME ServiceTyped, NEW s \in States, Becomes(s)
  PROVE  state' \in States /\ runs' \in Programs
  BY DEF Becomes, ServiceTyped, Programs

\* On Windows no command removes a file, and elsewhere none deletes an entry.
LEMMA OfItsSystem ==
  ASSUME NEW r, Line(r), os \in {"windows", "linux", "macos"}, r.command \in Commands
  PROVE  /\ Head(r.todo) = "remove" => os # "windows"
         /\ Head(r.todo) = "delete" => os = "windows"
         /\ Head(r.todo) = "reload" => os = "linux"
  <1>1. CASE r.command = "install" /\ os = "windows"
    BY <1>1, InstallOnWindows, InstallOnLinux DEF Line, Installing, InstallingOnWindows, Reads
  <1>2. CASE r.command = "install" /\ os = "linux"
    BY <1>2, InstallOnWindows, InstallOnLinux, StartAndStop DEF Line, Installing, InstallingOnLinux, Reads
  <1>3. CASE r.command = "install" /\ os = "macos"
    BY <1>3, InstallOnLinux, OnMac DEF Line, Installing, InstallingOnMac, Reads
  <1>4. CASE r.command = "uninstall" /\ os = "windows"
    BY <1>4, UninstallOnWindows DEF Line, Uninstalling, UninstallingOnWindows, Reads
  <1>5. CASE r.command = "uninstall" /\ os = "linux"
    BY <1>5, UninstallOnLinux, InstallOnLinux DEF Line, Uninstalling, UninstallingOnLinux, Reads
  <1>6. CASE r.command = "uninstall" /\ os = "macos"
    BY <1>6, OnMac DEF Line, Uninstalling, UninstallingOnMac, Reads
  <1>7. CASE r.command \in {"start", "stop"}
    BY <1>7, InstallOnLinux, StartAndStop DEF Line, Reads
  <1> QED
    BY <1>1, <1>2, <1>3, <1>4, <1>5, <1>6, <1>7 DEF Commands

\* What a step may do to the service.
LEMMA OwnService ==
  ASSUME SetupInv, NEW p \in Procs, ProcStep(p) \/ ProcFails(p)
  PROVE  ServiceTyped' /\ ServiceInv' /\ os' = os /\ launches' = launches /\ faults' \in 0..MaxFaults
  <1> USE DEF SetupInv
  <1>1. ServiceTyped /\ os \in {"windows", "linux", "macos"} /\ faults \in 0..MaxFaults
    BY DEF SetupTypeOK, InstallerTypeOK, ServiceTyped
  <1>2. CASE UNCHANGED <<os, service, launches, faults>>
    BY <1>1, <1>2 DEF ServiceTyped, ServiceInv, service, Alive
  <1>3. CASE ProcFails(p)
    <2>1. faults' \in 0..MaxFaults
      BY <1>3, Counters DEF ProcFails, CopyBreaks, StepFails, StateUnknown
    <2>2. CASE CopyBreaks(p)
      BY <1>1, <2>1, <2>2 DEF CopyBreaks, ServiceTyped, ServiceInv, Busy, Alive, Programs
    <2>3. CASE StepFails(p) \/ StateUnknown(p)
      BY <1>1, <2>1, <2>3 DEF StepFails, StateUnknown, service, ServiceTyped, ServiceInv, Alive
    <2> QED
      BY <1>3, <2>2, <2>3 DEF ProcFails
  <1>4. CASE Look(p)
    BY <1>2, <1>4 DEF Look
  <1>5. CASE proc[p].phase = "work" /\ ProcStep(p)
    <2> DEFINE step == Head(proc[p].todo)
    <2>1. Line(proc[p]) /\ proc[p].command \in Commands
      BY <1>5, Records DEF Lines, ProcRecords
    <2>2. /\ step = "remove" => os # "windows"
          /\ step = "delete" => os = "windows"
          /\ step = "reload" => os = "linux"
      BY <1>1, <2>1, OfItsSystem
    <2> HIDE DEF step
    <2>3. CASE StepBails(p) \/ StartService(p) \/ Describe(p) \/ AwaitStart(p) \/ AwaitStop(p) \/ AwaitGone(p) \/ Check(p)
      BY <1>2, <2>3 DEF StepBails, StartService, Describe, AwaitStart, AwaitStop, AwaitGone, Check
    <2>4. CASE Copy(p)
      BY <1>1, <2>4 DEF Copy, ServiceTyped, ServiceInv, Busy, Alive, Programs
    <2>5. CASE Create(p)
      BY <1>1, <2>5 DEF Create, ServiceTyped, ServiceInv, Alive
    <2>6. CASE WriteUnit(p)
      BY <1>1, <2>6 DEF WriteUnit, ServiceTyped, ServiceInv, Alive
    <2>7. CASE Reload(p)
      <3>1. os = "linux"
        BY <2>2, <2>7 DEF Reload, At, step
      <3>2. unit \in {"none", "old", "current"}
        BY <3>1 DEF ServiceInv
      <3> QED
        BY <1>1, <2>7, <3>2 DEF Reload, ServiceTyped, ServiceInv, Alive
    <2>8. CASE Enable(p)
      BY <1>1, <2>8 DEF Enable, At, ServiceTyped, ServiceInv, Alive
    <2>9. CASE Start(p) \/ TryStart(p)
      <3>1. /\ UNCHANGED <<os, unit, loaded, enabled, binary, launches, faults>>
            /\ (CanStart /\ Starts) \/ UNCHANGED <<state, runs>>
        BY <2>9 DEF Start, TryStart, Stays
      <3>2. CASE UNCHANGED <<state, runs>>
        BY <1>1, <3>1, <3>2 DEF ServiceTyped, ServiceInv, Alive
      <3>3. CASE CanStart /\ Starts
        BY <1>1, <3>1, <3>3
        DEF ServiceTyped, ServiceInv, Alive, CanStart, Starts, Becomes, Registered, Programs, States
      <3> QED
        BY <3>1, <3>2, <3>3
    <2>10. CASE Stop(p) \/ TryStop(p)
      <3>1. /\ UNCHANGED <<os, unit, loaded, enabled, binary, launches, faults>>
            /\ (CanStop /\ Stops) \/ UNCHANGED <<state, runs>>
        BY <2>10 DEF Stop, TryStop, Stays
      <3>2. CASE UNCHANGED <<state, runs>>
        BY <1>1, <3>1, <3>2 DEF ServiceTyped, ServiceInv, Alive
      <3>3. CASE CanStop /\ Stops
        BY <1>1, <3>1, <3>3 DEF ServiceTyped, ServiceInv, Alive, CanStop, Stops, Becomes, Programs, States
      <3> QED
        BY <3>1, <3>2, <3>3
    <2>11. CASE RemoveUnit(p)
      <3>1. os # "windows"
        BY <2>2, <2>11 DEF RemoveUnit, At, step
      <3> QED
        BY <1>1, <2>11, <3>1 DEF RemoveUnit, ServiceTyped, ServiceInv, Alive
    <2>12. CASE Delete(p)
      <3>1. os = "windows"
        BY <2>2, <2>12 DEF Delete, At, step
      <3> QED
        BY <1>1, <2>12, <3>1 DEF Delete, ServiceTyped, ServiceInv, Alive
    <2> QED
      BY <1>5, <2>3, <2>4, <2>5, <2>6, <2>7, <2>8, <2>9, <2>10, <2>11, <2>12, ByName
  <1>6. ProcFails(p) \/ Look(p) \/ (proc[p].phase = "work" /\ ProcStep(p))
    BY DEF ProcStep, StepBails, StartService, Copy, Create, WriteUnit, Describe, Reload, Enable,
       Start, Stop, TryStart, TryStop, AwaitStart, AwaitStop, AwaitGone, Check, RemoveUnit, Delete, At
  <1> QED
    BY <1>3, <1>4, <1>5, <1>6

\* What the service does by itself.
Turns ==
    /\ UNCHANGED <<os, binary>>
    /\ \/ UNCHANGED unit /\ state = "starting" /\ state' = "running"
       \/ UNCHANGED unit /\ state = "stopping" /\ state' = "stopped"
       \/ /\ unit = "deleting" /\ unit' = "none" /\ state = "stopped" /\ UNCHANGED state
          /\ \A q \in Procs: ~HasOpen(q)
       \/ UNCHANGED unit /\ state = "restarting" /\ state' \in {"failed", "running", "restarting"}

\* What the service does by itself.
LEMMA Turning ==
  ASSUME SetupTypeOK, ServiceInv, ServiceStep
  PROVE  ServiceTyped' /\ ServiceInv' /\ Turns /\ UNCHANGED <<os, proc, launches, faults>>
  <1>1. ServiceTyped /\ os \in {"windows", "linux", "macos"}
    BY DEF SetupTypeOK, InstallerTypeOK, ServiceTyped
  <1>2. CASE HasStarted
    BY <1>1, <1>2 DEF HasStarted, Becomes, Alive, ServiceTyped, ServiceInv, Turns, Programs, States
  <1>3. CASE HasStopped
    BY <1>1, <1>3 DEF HasStopped, Becomes, Alive, ServiceTyped, ServiceInv, Turns, Programs, States
  <1>4. CASE HasGone
    BY <1>1, <1>4 DEF HasGone, Alive, ServiceTyped, ServiceInv, Turns
  <1>5. CASE Restarts
    BY <1>1, <1>5 DEF Restarts, Becomes, Alive, ServiceTyped, ServiceInv, Turns, Programs, States
  <1> QED
    BY <1>2, <1>3, <1>4, <1>5 DEF ServiceStep

\* What a crash of the service does.
LEMMA Crashing ==
  ASSUME SetupTypeOK, ServiceInv, Crashes
  PROVE  /\ ServiceTyped' /\ ServiceInv' /\ UNCHANGED <<os, unit, binary, launches>> /\ faults' \in 0..MaxFaults
         /\ proc' = Disturbed /\ state = "running" /\ os # "macos"
         /\ state' = (IF os = "linux" THEN "restarting" ELSE "stopped")
  <1>1. ServiceTyped /\ os \in {"windows", "linux", "macos"}
    BY DEF SetupTypeOK, InstallerTypeOK, ServiceTyped
  <1>2. faults' \in 0..MaxFaults
    BY Counters DEF Crashes
  <1> QED
    BY <1>1, <1>2 DEF Crashes, Becomes, Alive, ServiceTyped, ServiceInv, Programs, States

\* What the hub's removal of the program does.
LEMMA Removing ==
  ASSUME SetupTypeOK, ServiceInv, Removes
  PROVE  ServiceTyped' /\ ServiceInv' /\ UNCHANGED <<os, launches, faults>> /\ proc' = Joined
  BY DEF Removes, SetupTypeOK, InstallerTypeOK, ServiceTyped, ServiceInv, Alive, Programs

-----------------------------------------------------------------------------
(***************************************************************************)
(* The processes beside one that takes a step.                             *)
(***************************************************************************)
\* Of a process in company only the plan is known.
LEMMA InCompany ==
  ASSUME NEW q \in Procs, Line(proc[q]), os' = os, Same(q), ~proc'[q].alone
  PROVE  Line(proc[q])'
  <1>1. proc'[q].command = proc[q].command /\ proc'[q].todo = proc[q].todo
    BY DEF Same
  <1>2. os = "windows" /\ InstallingOnWindows(proc[q]) => InstallingOnWindows(proc[q])'
    BY <1>1 DEF InstallingOnWindows
  <1>3. os = "linux" /\ InstallingOnLinux(proc[q]) => InstallingOnLinux(proc[q])'
    BY <1>1 DEF InstallingOnLinux
  <1>4. os = "macos" /\ InstallingOnMac(proc[q]) => InstallingOnMac(proc[q])'
    BY <1>1 DEF InstallingOnMac
  <1>5. os = "windows" /\ UninstallingOnWindows(proc[q]) => UninstallingOnWindows(proc[q])'
    BY <1>1 DEF UninstallingOnWindows
  <1>6. os = "linux" /\ UninstallingOnLinux(proc[q]) => UninstallingOnLinux(proc[q])'
    BY <1>1 DEF UninstallingOnLinux
  <1>7. os = "macos" /\ UninstallingOnMac(proc[q]) => UninstallingOnMac(proc[q])'
    BY <1>1 DEF UninstallingOnMac
  <1> QED
    BY <1>1, <1>2, <1>3, <1>4, <1>5, <1>6, <1>7 DEF Line, Installing, Uninstalling

\* Who has nothing to create, or has done so, has the service open.
LEMMA Opening ==
  \A todo \in {describe_tryStart_awaitStart, tryStop_awaitStop_copy_tryStart_awaitStart,
              awaitStop_copy_tryStart_awaitStart, copy_tryStart_awaitStart, tryStart_awaitStart,
              only_awaitStart, only_startService, only_start,
              tryStop_awaitGone_delete, awaitGone_delete, only_delete}:
    ~Contains(todo, "create")
  BY DEF Contains, describe_tryStart_awaitStart, tryStop_awaitStop_copy_tryStart_awaitStart,
     awaitStop_copy_tryStart_awaitStart, copy_tryStart_awaitStart, tryStart_awaitStart, only_awaitStart,
     only_startService, only_start, tryStop_awaitGone_delete, awaitGone_delete, only_delete

\* What the service does by itself takes no process from its line.
LEMMA WhenItTurns ==
  ASSUME ServiceInv, NEW q \in Procs, proc[q].phase = "work", Line(proc[q]), Turns, UNCHANGED proc
  PROVE  Line(proc[q])'
  <1>1. proc'[q] = proc[q] /\ os' = os /\ binary' = binary
    BY DEF Turns
  <1>2. unit' = unit \/ (unit = "deleting" /\ unit' = "none" /\ state' = state /\ Contains(proc[q].todo, "create"))
    BY DEF Turns, HasOpen
  <1>3. ASSUME os = "windows", InstallingOnWindows(proc[q]) PROVE InstallingOnWindows(proc[q])'
    <2>1. \/ state' = state
          \/ state = "starting" /\ state' = "running"
          \/ state = "stopping" /\ state' = "stopped"
      BY <1>3 DEF Turns, ServiceInv
    <2>2. CASE unit' = unit
      BY <1>1, <1>3, <2>1, <2>2 DEF InstallingOnWindows, Found, Opened, Entered, Alive
    <2>3. CASE unit' # unit
      <3>1. \/ proc[q].todo = copy_create_describe_tryStart_awaitStart
               /\ (proc[q].alone => Found(proc[q]))
            \/ proc[q].todo = create_describe_tryStart_awaitStart
               /\ (proc[q].alone => Found(proc[q]) /\ binary = "current")
        BY <1>2, <1>3, <2>3, Opening DEF InstallingOnWindows
      <3>2. unit' = "none"
        BY <1>2, <2>3
      <3> QED
        BY <1>1, <3>1, <3>2 DEF InstallingOnWindows, Found
    <2> QED
      BY <2>2, <2>3
  <1>4. ASSUME os = "linux" PROVE /\ unit' = unit
                                  /\ state = "restarting" /\ state' \in {"failed", "running", "restarting"}
    BY <1>4 DEF Turns, ServiceInv
  <1>5. os = "linux" /\ InstallingOnLinux(proc[q]) => InstallingOnLinux(proc[q])'
    BY <1>1, <1>4 DEF InstallingOnLinux, AtRest, Alive
  <1>6. os # "macos"
    BY DEF Turns, ServiceInv
  <1>7. ASSUME os = "windows", UninstallingOnWindows(proc[q]) PROVE UninstallingOnWindows(proc[q])'
    <2>1. \/ state' = state
          \/ state = "starting" /\ state' = "running"
          \/ state = "stopping" /\ state' = "stopped"
      BY <1>7 DEF Turns, ServiceInv
    <2>2. unit' = unit
      BY <1>2, <1>7, Opening DEF UninstallingOnWindows
    <2> QED
      BY <1>1, <1>7, <2>1, <2>2 DEF UninstallingOnWindows, Opened
  <1>8. os = "linux" /\ UninstallingOnLinux(proc[q]) => UninstallingOnLinux(proc[q])'
    BY <1>1, <1>4 DEF UninstallingOnLinux, AtRest, Alive
  <1> QED
    BY <1>1, <1>3, <1>5, <1>6, <1>7, <1>8 DEF Line, Installing, Uninstalling

\* A crash disturbs every process at work.
LEMMA WhenItCrashes ==
  ASSUME SetupTypeOK, ServiceInv, NEW q \in Procs, proc[q].phase = "work", Line(proc[q]), Crashes
  PROVE  Line(proc[q])'
  <1>1. /\ proc' = Disturbed /\ UNCHANGED <<os, unit, binary>> /\ state = "running" /\ os # "macos"
        /\ state' = (IF os = "linux" THEN "restarting" ELSE "stopped")
    BY Crashing
  <1>2. proc'[q] = [proc[q] EXCEPT !.calm = FALSE] /\ proc[q] \in ProcRecords
    BY <1>1, Disturbing, Records DEF Working
  <1>3. Same(q) /\ proc'[q].alone = proc[q].alone /\ proc'[q].calm = FALSE
    BY <1>2 DEF Same, ProcRecords
  <1>4. os = "windows" /\ InstallingOnWindows(proc[q]) => InstallingOnWindows(proc[q])'
    BY <1>1, <1>3 DEF InstallingOnWindows, Found, Opened, Entered, Alive, Same
  <1>5. os = "linux" /\ InstallingOnLinux(proc[q]) => InstallingOnLinux(proc[q])'
    BY <1>1, <1>3 DEF InstallingOnLinux, AtRest, Same
  <1>6. os = "windows" /\ UninstallingOnWindows(proc[q]) => UninstallingOnWindows(proc[q])'
    BY <1>1, <1>3 DEF UninstallingOnWindows, Opened, Same
  <1>7. os = "linux" /\ UninstallingOnLinux(proc[q]) => UninstallingOnLinux(proc[q])'
    BY <1>1, <1>3 DEF UninstallingOnLinux, AtRest, Same
  <1> QED
    BY <1>1, <1>3, <1>4, <1>5, <1>6, <1>7 DEF Line, Installing, Uninstalling, Same

-----------------------------------------------------------------------------
(***************************************************************************)
(* The induction.                                                          *)
(***************************************************************************)
\* The invariant holds of whatever earlier commands have left.
LEMMA SetupInitially == SetupInit => SetupInv
  <1> SUFFICES ASSUME SetupInit PROVE SetupInv
    OBVIOUS
  <1>1. Off \in ProcRecords /\ Off.phase = "done"
    <2>1. <<>> \in Seq(Steps)
      OBVIOUS
    <2> QED
      BY <2>1 DEF Off, ProcRecords, Commands, States
  <1>2. proc \in [Procs -> ProcRecords] /\ \A p \in Procs: proc[p].phase = "done"
    <2> HIDE DEF Off
    <2> QED
      BY <1>1 DEF SetupInit, InstallerInit
  <1>3. task \in [Tasks -> TaskRecords] /\ root \in BOOLEAN
    BY IdleTyped DEF SetupInit
  <1>4. launches \in 0..MaxLaunches /\ faults \in 0..MaxFaults
    BY InstallerAssumption DEF SetupInit, InstallerInit
  <1>5. ServiceTyped /\ ServiceInv /\ os \in {"windows", "linux", "macos"}
    BY DEF SetupInit, InstallerInit, ServiceTyped, ServiceInv, Alive, States, Programs
  <1>6. SetupTypeOK
    BY <1>2, <1>3, <1>4, <1>5 DEF SetupTypeOK, InstallerTypeOK, ServiceTyped, ProcRecords, TaskRecords
  <1>7. ByItself /\ Lines
    BY <1>2 DEF ByItself, Lines, Working
  <1> QED
    BY <1>5, <1>6, <1>7 DEF SetupInv

\* The types and the service after a step.
LEMMA TypesStay ==
  ASSUME SetupInv, [SetupNext]_vars
  PROVE  SetupTypeOK' /\ ServiceInv'
  <1> USE DEF SetupInv
  <1>1. root' \in BOOLEAN /\ task' \in [Tasks -> TaskRecords]
    BY TaskTyped
  <1> DEFINE Good == /\ os' \in {"windows", "linux", "macos"} /\ ServiceTyped' /\ ServiceInv'
                     /\ proc' \in [Procs -> ProcRecords] /\ launches' \in 0..MaxLaunches /\ faults' \in 0..MaxFaults
  <1>2. SUFFICES Good
    BY <1>1 DEF SetupTypeOK, InstallerTypeOK, ServiceTyped, ProcRecords, TaskRecords
  <1>3. /\ os \in {"windows", "linux", "macos"} /\ ServiceTyped
        /\ proc \in [Procs -> ProcRecords] /\ launches \in 0..MaxLaunches /\ faults \in 0..MaxFaults
    BY Records DEF SetupTypeOK, InstallerTypeOK, ServiceTyped
  <1>4. CASE UNCHANGED installerVars
    BY <1>3, <1>4 DEF installerVars, service, ServiceTyped, ServiceInv, Alive
  <1>5. CASE \E p \in Procs: ProcStep(p) \/ ProcFails(p)
    <2>1. PICK p \in Procs: ProcStep(p) \/ ProcFails(p)
      BY <1>5
    <2>2. ServiceTyped' /\ ServiceInv' /\ os' = os /\ launches' = launches /\ faults' \in 0..MaxFaults
      BY <2>1, OwnService
    <2>3. proc[p].phase = "work" => proc[p].todo # <<>>
      <3>1. proc[p].command \in Commands
        BY <1>3 DEF ProcRecords
      <3> QED
        BY <1>3, <3>1, Left DEF Lines, Some
    <2>4. PICK r \in ProcRecords: proc' = [proc EXCEPT ![p] = r] \/ proc' = [Disturbed EXCEPT ![p] = r]
      BY <2>1, <2>3, ProcForm
    <2>5. proc' \in [Procs -> ProcRecords]
      BY <1>3, <2>4, Disturbing
    <2> QED
      BY <1>3, <2>2, <2>5
  <1>6. CASE ServiceStep
    BY <1>3, <1>6, Turning
  <1>7. CASE Crashes
    BY <1>3, <1>7, Crashing, Disturbing
  <1>8. CASE Launches
    <2>1. PICK p \in Procs, command \in Commands: Launch(p, command)
      BY <1>8 DEF Launches
    <2>2. proc' \in [Procs -> ProcRecords]
      BY <2>1, Launching
    <2>3. launches' \in 0..MaxLaunches
      BY <2>1, Counters DEF Launch
    <2> QED
      BY <1>3, <1>8, <2>2, <2>3 DEF Launches, service, ServiceTyped, ServiceInv, Alive
  <1>9. CASE Removes
    BY <1>3, <1>9, Removing, Disturbing
  <1> QED
    BY <1>4, <1>5, <1>6, <1>7, <1>8, <1>9, Kinds DEF vars, installerVars

\* A process at work does not come to be by itself.
LEMMA StaysInCompany ==
  ASSUME SetupInv, NEW p \in Procs, ProcStep(p) \/ ProcFails(p), proc'[p].phase # "done"
  PROVE  Working(p) /\ proc'[p].alone = proc[p].alone
  <1> USE DEF SetupInv
  <1>1. Look(p) \/ (proc[p].phase = "work" /\ (ProcStep(p) \/ ProcFails(p)))
    BY DEF ProcStep, ProcFails, StepBails, StartService, Copy, Create, WriteUnit, Describe, Reload, Enable,
       Start, Stop, TryStart, TryStop, AwaitStart, AwaitStop, AwaitGone, Check, RemoveUnit, Delete, At,
       CopyBreaks, StepFails, StateUnknown
  <1>2. CASE Look(p)
    BY <1>2, Looking DEF Look, Working
  <1>3. CASE proc[p].phase = "work"
    <2>1. Some(proc[p].todo)
      <3>1. proc[p].command \in Commands /\ os \in {"windows", "linux", "macos"}
        BY Records DEF ProcRecords, SetupTypeOK, InstallerTypeOK
      <3> QED
        BY <1>3, <3>1, Left DEF Lines
    <2>2. CASE StartService(p)
      <3>1. proc'[p] = With(p, StartPlan)
        BY <1>3, <2>2, Records DEF StartService
      <3>2. StartPlan # <<>>
        BY <3>1 DEF With, Done, Off
      <3>3. proc'[p] = [proc[p] EXCEPT !.todo = StartPlan, !.phase = "work"]
        BY <3>1, <3>2 DEF With
      <3> QED
        BY <1>3, <3>3, Records DEF ProcRecords, Working
    <2>3. CASE ~StartService(p)
      <3>1. Fails(p) \/ Bails(p) \/ Moves(p, Tail(proc[p].todo))
        <4>1. CASE ProcFails(p)
          BY <1>3, <2>1, <4>1, Failing DEF Some, Slips
        <4>2. CASE ProcStep(p)
          <5>1. GoOn(p) \/ Bail(p)
            BY <1>3, <2>3, <4>2, ByName DEF StepBails, Copy, Create, WriteUnit, Describe, Reload, Enable,
               Start, Stop, TryStart, TryStop, AwaitStart, AwaitStop, AwaitGone, Check, RemoveUnit, Delete
          <5>2. Bail(p) => proc'[p].phase = "done"
            BY BailsOut
          <5> QED
            BY <1>3, <2>1, <5>1, <5>2, GoesOn DEF Some
        <4> QED
          BY <4>1, <4>2
      <3> QED
        BY <1>3, <3>1 DEF Fails, Bails, Moves, Working
    <2> QED
      BY <2>2, <2>3
  <1> QED
    BY <1>1, <1>2, <1>3

\* Who does not take the step himself ends nothing.
LEMMA SilentStep ==
  ASSUME NEW q \in Procs, Working(q), proc'[q].phase = proc[q].phase
  PROVE  Said(q)
  BY DEF Said, InstallSaid, UninstallSaid, FailureSaid, Ends, Working

\* A process that is not at work ends nothing.
LEMMA NotAtWork ==
  ASSUME NEW q \in Procs, ~Working(q)
  PROVE  Said(q)
  BY DEF Said, InstallSaid, UninstallSaid, FailureSaid, Ends

\* A step of process p.
LEMMA LinesAfterOwn ==
  ASSUME SetupInv, NEW p \in Procs, ProcStep(p) \/ ProcFails(p)
  PROVE  ByItself' /\ Lines' /\ \A q \in Procs: Said(q)
  <1> USE DEF SetupInv
  <1>1. OnLine(p)
    BY OwnStep
  <1>2. os' = os
    BY OwnService
  <1>3. proc[p].phase = "work" => proc[p].todo # <<>>
    <2>1. proc[p].command \in Commands /\ os \in {"windows", "linux", "macos"}
      BY Records DEF ProcRecords, SetupTypeOK, InstallerTypeOK
    <2> QED
      BY <2>1, Left DEF Lines, Some
  <1>4. Working(p)
    BY
    DEF Working, ProcStep, ProcFails, Look, StepBails, StartService, Copy, Create, WriteUnit, Describe, Reload,
        Enable,
       Start, Stop, TryStart, TryStop, AwaitStart, AwaitStop, AwaitGone, Check, RemoveUnit, Delete, At,
       CopyBreaks, StepFails, StateUnknown
  <1>5. \A q \in Procs \ {p}: Same(q) /\ proc'[q].alone = proc[q].alone
    BY <1>3, Bystander
  <1>6. proc'[p].phase # "done" => proc'[p].alone = proc[p].alone
    BY StaysInCompany
  <1>7. ByItself'
    BY <1>4, <1>5, <1>6 DEF ByItself, Working, Same
  <1>8. ASSUME NEW q \in Procs \ {p} PROVE Said(q) /\ (proc'[q].phase = "work" => Line(proc[q])')
    <2>1. Same(q) /\ proc'[q].alone = proc[q].alone
      BY <1>5
    <2>2. Said(q)
      BY <2>1, SilentStep, NotAtWork DEF Same
    <2>3. ASSUME proc'[q].phase = "work" PROVE Line(proc[q])'
      <3>1. proc[q].phase = "work" /\ Line(proc[q])
        BY <2>1, <2>3 DEF Same, Lines
      <3>2. ~proc[q].alone
        BY <1>4, <1>8, <3>1 DEF ByItself, Working
      <3> QED
        BY <1>2, <2>1, <3>1, <3>2, InCompany
    <2> QED
      BY <2>2, <2>3
  <1> QED
    BY <1>1, <1>7, <1>8 DEF OnLine, Lines

\* What the property is about, and what it rests on, after any step.
LEMMA LinesStay ==
  ASSUME SetupInv, [SetupNext]_vars
  PROVE  ByItself' /\ Lines' /\ \A q \in Procs: Said(q)
  <1> USE DEF SetupInv
  <1>1. ASSUME os' = os, \A q \in Procs: Same(q)
        PROVE  \A q \in Procs: Said(q)
    BY <1>1, SilentStep, NotAtWork DEF Same
  <1>2. CASE UNCHANGED installerVars
    <2>1. UNCHANGED <<os, unit, state, binary, proc>>
      BY <1>2 DEF installerVars, service
    <2>2. Lines' /\ ByItself'
      BY <2>1
      DEF Lines, ByItself, Working, Line, Installing, Uninstalling, InstallingOnWindows, InstallingOnLinux,
         InstallingOnMac, UninstallingOnWindows, UninstallingOnLinux, UninstallingOnMac, Found, Opened, Entered, AtRest, Alive
    <2> QED
      BY <1>1, <2>1, <2>2 DEF Same
  <1>3. CASE \E p \in Procs: ProcStep(p) \/ ProcFails(p)
    BY <1>3, LinesAfterOwn
  <1>4. CASE ServiceStep
    <2>1. Turns /\ UNCHANGED <<os, proc>>
      BY <1>4, Turning
    <2>2. Lines'
      BY <2>1, WhenItTurns DEF Lines
    <2>3. ByItself'
      BY <2>1 DEF ByItself, Working
    <2> QED
      BY <1>1, <2>1, <2>2, <2>3 DEF Same
  <1>5. CASE Crashes
    <2>1. os' = os /\ proc' = Disturbed
      BY <1>5, Crashing
    <2>2. \A q \in Procs: Same(q) /\ proc'[q].alone = proc[q].alone
      <3>1. \A q \in Procs: proc[q] \in ProcRecords
        BY Records
      <3> QED
        BY <2>1, <3>1, Disturbing DEF Same, ProcRecords
    <2>3. Lines'
      BY <1>5, <2>2, WhenItCrashes DEF Lines, Same
    <2>4. ByItself'
      BY <2>2 DEF ByItself, Working, Same
    <2> QED
      BY <1>1, <2>1, <2>2, <2>3, <2>4
  <1>6. CASE Launches
    <2>1. PICK p \in Procs, command \in Commands: Launch(p, command)
      BY <1>6 DEF Launches
    <2>2. os' = os
      BY <1>6 DEF Launches
    <2>3. /\ ~Working(p) /\ proc'[p].phase = "look" /\ proc'[p].alone = (Free = Procs)
          /\ \A q \in Procs: q # p => Same(q) /\ (Working(q) => ~proc'[q].alone)
      BY <2>1, Launching
    <2>4. \A q \in Procs: Said(q)
      BY <2>3, SilentStep, NotAtWork DEF Same
    <2>5. ASSUME NEW q \in Procs, proc'[q].phase = "work" PROVE Line(proc[q])'
      <3>1. q # p
        BY <2>3, <2>5
      <3>2. Same(q) /\ proc[q].phase = "work" /\ Line(proc[q]) /\ ~proc'[q].alone
        BY <2>3, <2>5, <3>1 DEF Same, Lines, Working
      <3> QED
        BY <2>2, <3>2, InCompany
    <2>6. ByItself'
      <3>1. ASSUME NEW q \in Procs, NEW s \in Procs, Working(q)', proc'[q].alone, Working(s)' PROVE q = s
        <4>1. CASE q = p
          <5>1. \A u \in Procs: ~Working(u)
            BY <2>3, <3>1, <4>1 DEF Free
          <5> QED
            BY <2>3, <3>1, <4>1, <5>1 DEF Same, Working
        <4>2. CASE q # p
          BY <2>3, <3>1, <4>2 DEF Same, Working
        <4> QED
          BY <4>1, <4>2
      <3> QED
        BY <3>1 DEF ByItself, Working
    <2> QED
      BY <2>4, <2>5, <2>6 DEF Lines
  <1>7. CASE Removes
    <2>1. os' = os /\ proc' = Joined
      BY <1>7, Removing
    <2>2. \A q \in Procs: Same(q) /\ (Working(q) => ~proc'[q].alone)
      <3>1. \A q \in Procs: proc[q] \in ProcRecords
        BY Records
      <3> QED
        BY <2>1, <3>1, Disturbing DEF Same, ProcRecords
    <2>3. Lines'
      BY <2>1, <2>2, InCompany DEF Lines, Same, Working
    <2>4. ByItself'
      BY <2>2 DEF ByItself, Working, Same
    <2> QED
      BY <1>1, <2>1, <2>2, <2>3, <2>4
  <1> QED
    BY <1>2, <1>3, <1>4, <1>5, <1>6, <1>7, Kinds DEF vars, installerVars

-----------------------------------------------------------------------------
(***************************************************************************)
(* The theorems.                                                           *)
(***************************************************************************)
\* The types, what a service manager can say, that a process which had the machine to
\* itself is the only one at work, and how far each command is on its system: the
\* inductive invariant of the commands and the hub's handlers.
THEOREM SetupInductive == SetupSpec => []SetupInv
  <1>1. SetupInit => SetupInv
    BY SetupInitially
  <1>2. SetupInv /\ [SetupNext]_vars => SetupInv'
    BY TypesStay, LinesStay DEF SetupInv
  <1> QED
    BY <1>1, <1>2, PTL DEF SetupSpec

\* What no step may do: end a command that has not done what it says.
KeepsItsWord == \A p \in Procs: Said(p)

\* No step of the whole ends a command that has not done what it says.
LEMMA Keeping == SetupSpec => [][KeepsItsWord]_vars
  <1>1. SetupInv /\ [SetupNext]_vars => KeepsItsWord
    BY LinesStay DEF KeepsItsWord
  <1> QED
    BY <1>1, SetupInductive, PTL DEF SetupSpec

\* An install or uninstall that reports success, and had the machine to itself, has done
\* what it says on each system, from whatever an earlier command has left, however often
\* the service crashes and the system fails (install_service, uninstall_service).
THEOREM CommandsAlwaysDo == SetupSpec => CommandsDo
  <1>1. KeepsItsWord =>
          \A p \in Procs:
            Ends(p, "install", TRUE) =>
              /\ unit' = "current" \/ (unit = "deleting" /\ proc[p].phase = "look")
              /\ binary' = "current"
              /\ Calm(p) /\ (Fresh(p) \/ Saw(p) = "running") => state' = "running" /\ runs' = "current"
    BY DEF KeepsItsWord, Said, InstallSaid
  <1>2. KeepsItsWord =>
          \A p \in Procs:
            Ends(p, "uninstall", TRUE) =>
              /\ unit' \in {"none", "deleting"}
              /\ Calm(p) /\ proc[p].phase = "work" /\ Saw(p) # "restarting" => ~Alive(state')
    BY DEF KeepsItsWord, Said, UninstallSaid
  <1>3. [][KeepsItsWord]_vars => InstallDoes
    BY <1>1, PTL DEF InstallDoes
  <1>4. [][KeepsItsWord]_vars => UninstallDoes
    BY <1>2, PTL DEF UninstallDoes
  <1> QED
    BY <1>3, <1>4, Keeping, PTL DEF CommandsDo

\* A command that fails, although it had the machine to itself and nothing failed, met a
\* service that was about to change its state or to go, or that ran without being registered.
THEOREM FailsAlwaysForAReason == SetupSpec => FailsForAReason
  <1>1. KeepsItsWord =>
          \A p \in Procs: \A command \in {"install", "uninstall"}:
            Ends(p, command, FALSE) /\ Calm(p) =>
              \/ Saw(p) \in {"starting", "stopping", "restarting"}
              \/ Saw(p) = "running" /\ Fresh(p)
              \/ unit = "deleting"
    BY DEF KeepsItsWord, Said, FailureSaid, Reason
  <1>2. [][KeepsItsWord]_vars => FailsForAReason
    BY <1>1, PTL DEF FailsForAReason
  <1> QED
    BY <1>2, Keeping, PTL

=============================================================================
