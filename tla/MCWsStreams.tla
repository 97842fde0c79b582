---------------------------- MODULE MCWsStreams -----------------------------
(***************************************************************************)
(* Small instances of WsStreams.                                           *)
(***************************************************************************)
EXTENDS WsStreams

TheLog == {"log"}
ByThePage == {"connections"}

\* The log can be switched, the connections end early; "traffic" would add nothing that
\* a log nobody switches does not.
TwoStreams == <<"log", "connections">>

=============================================================================
