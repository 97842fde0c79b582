-------------------------- MODULE MCServiceClient ---------------------------
(***************************************************************************)
(* Values for model checking ServiceClient.                                *)
(***************************************************************************)
EXTENDS ServiceClient

CONSTANTS a, b

TwoCalls == {a, b}
OneRetry == {a, b} \X (0..1)

NoSuspends == {}

\* The commands whose order matters: a status request changes nothing.
Switches == {"StartClash", "StopClash"}

\* The run about the order of commands leaves the monitor asleep: no tick passes.
TimeStandsStill == nap' = 0

=============================================================================
