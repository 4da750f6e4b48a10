------------------------ MODULE MCInstanceOwnership ------------------------
(* Instances of InstanceOwnership for TLC. *)
EXTENDS InstanceOwnership, TLC

CONSTANTS n1, n2, n3

(* The two nodes that do not start with the instance are alike. *)
Survivors == Permutations({n2, n3})
=============================================================================
