------------------------------ MODULE CoreSlot ------------------------------
(***************************************************************************)
(* What the service promises about clash-core processes, whoever calls it: *)
(* there is one slot, a new core is launched only into an empty slot, pids *)
(* are never reused for a managed core, and a core leaves the slot alive   *)
(* (becoming a stray) only if something outside the program has failed.    *)
(***************************************************************************)
EXTENDS Naturals

CONSTANT MayLose    \* TRUE if the slot may lose a live core

VARIABLES
    core,       \* the live core in the slot, 0 if there is none
    strays,     \* live cores nobody holds a handle on
    last        \* the last core launched

slotVars == <<core, strays, last>>

SlotInit ==
    /\ core = 0
    /\ strays = {}
    /\ last = 0

Launch ==
    /\ core = 0
    /\ last' = last + 1
    /\ core' = last'
    /\ UNCHANGED strays

\* The core in the slot ends, if there is one; so may any stray.
End ==
    /\ core' \in {core, 0}
    /\ strays' \subseteq strays
    /\ UNCHANGED last

Lose ==
    /\ MayLose
    /\ core # 0
    /\ core' = 0
    /\ strays' = strays \cup {core}
    /\ UNCHANGED last

SlotNext == Launch \/ End \/ Lose

SlotSpec == SlotInit /\ [][SlotNext]_slotVars

=============================================================================
