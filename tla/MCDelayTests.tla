---------------------------- MODULE MCDelayTests ----------------------------
(***************************************************************************)
(* Small instances of DelayTests.                                          *)
(***************************************************************************)
EXTENDS DelayTests

CONSTANTS b1, b2, b3

ThreeBatches == {b1, b2, b3}

\* The batches differ in nothing else: it is enough that they begin in this order.
InOrder ==
    /\ call'[b3].st # "idle" => call'[b2].st # "idle"
    /\ call'[b2].st # "idle" => call'[b1].st # "idle"

=============================================================================
