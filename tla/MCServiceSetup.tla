--------------------------- MODULE MCServiceSetup ----------------------------
(***************************************************************************)
(* Small instances of ServiceSetup.                                        *)
(***************************************************************************)
EXTENDS ServiceSetup

CONSTANTS p1, p2, handler

TwoProcs == {p1, p2}
OneTask == {handler}

=============================================================================
