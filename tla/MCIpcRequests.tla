--------------------------- MODULE MCIpcRequests ----------------------------
(***************************************************************************)
(* Small instances of IpcRequests.                                         *)
(***************************************************************************)
EXTENDS IpcRequests

CONSTANTS put1, put2, get1, get2, test, conn1, conn2, conn3

TwoPuts == {put1, put2}
NoPut == {}
TwoGets == {get1, get2}
OneTest == {test}
NoTest == {}
ThreeConns == {conn1, conn2, conn3}

\* Only the first call tries again.
FirstTwice == [k \in Calls |-> IF k \in {put1, get1} THEN 2 ELSE 1]
Numbered == UNION {{k} \X (1..Attempts[k]): k \in Calls}
NumberedPuts == {r \in Numbered: r[1] \in PutCalls}

=============================================================================
