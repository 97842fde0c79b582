------------------------------ MODULE MCHubJobs ------------------------------
(***************************************************************************)
(* Small instances of HubJobs.                                             *)
(***************************************************************************)
EXTENDS HubJobs

CONSTANTS call1, call2

TwoCalls == {call1, call2}

\* The calls differ in nothing else: it is enough that call1 is made first.
InOrder == call'[call2].phase # "idle" => call'[call1].phase # "idle"
=============================================================================
