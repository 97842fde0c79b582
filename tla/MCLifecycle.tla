----------------------------- MODULE MCLifecycle -----------------------------
(***************************************************************************)
(* Small instances of Lifecycle.                                           *)
(***************************************************************************)
EXTENDS Lifecycle

CONSTANTS call1, call2

TwoCalls == {call1, call2}

\* The calls differ in nothing else: it is enough that call1 is made first.
InOrder == call'[call2].at # "idle" => call'[call1].at # "idle"
=============================================================================
