------------------------------ MODULE MCVCPUQuota ------------------------------
(* Grows of different sizes, so that no two sums coincide. *)
EXTENDS VCPUQuota

MCGrows == 1..2
MCSize == [g \in MCGrows |-> g]
=============================================================================
