--------------------------- MODULE MCVolumeExport ---------------------------
(* Instances of VolumeExport for TLC: two interchangeable nodes. *)
EXTENDS VolumeExport, TLC

\* No definition tells one node from another.
NodesAlike == Permutations(Nodes)
=============================================================================
