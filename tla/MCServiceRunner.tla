-------------------------- MODULE MCServiceRunner ---------------------------
(***************************************************************************)
(* Values for model checking ServiceRunner.                                *)
(***************************************************************************)
EXTENDS ServiceRunner, TLC

CONSTANTS c1, c2, c3

TwoConns == {c1, c2}
ThreeConns == {c1, c2, c3}

EveryCmd == AllCmds

ConnSymmetry == Permutations(Conns)

\* In ticks of half a minute: no suspend, and one that is shorter or longer than
\* what the monitor takes for a suspend.
NoSuspends == {}
ShortAndLong == {1, 3}

=============================================================================
