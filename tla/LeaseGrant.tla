----------------------------- MODULE LeaseGrant -----------------------------
(***************************************************************************)
(* What a volume lease promises the rest of viperblock, with nothing of    *)
(* how: at any moment at most one node is authorised to have an engine     *)
(* open on the volume, every authorisation carries a generation higher     *)
(* than all earlier ones, and an authorisation that ended never resumes    *)
(* (only a new grant, with a new generation, authorises again).            *)
(* VolumeLease implements this; VolumeExport is written against it.        *)
(***************************************************************************)
EXTENDS Naturals

CONSTANTS Nodes, NoNode

VARIABLES
    holder,   \* the node authorised to open the volume, or NoNode
    epoch     \* the generation of the latest grant

vars == <<holder, epoch>>

Init ==
    /\ holder = NoNode
    /\ epoch = 0

\* A node that holds nothing wins the volume; generations only grow.
Grant(n) ==
    /\ holder = NoNode
    /\ holder' = n
    /\ epoch' \in Nat
    /\ epoch' > epoch

\* The authorisation ends: released, lapsed, lost to a peer, or its holder died.
Withdraw ==
    /\ holder # NoNode
    /\ holder' = NoNode
    /\ UNCHANGED epoch

Next == Withdraw \/ \E n \in Nodes : Grant(n)

Spec == Init /\ [][Next]_vars
=============================================================================
