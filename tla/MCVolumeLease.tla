--------------------------- MODULE MCVolumeLease ---------------------------
(* Instances of VolumeLease for TLC: node a has two handler goroutines and
   node b one, so that opens of one node share or race. *)
EXTENDS VolumeLease, TLC

CONSTANTS a, b, a1, a2, b1

MCHome == [s \in Slots |-> IF s = b1 THEN b ELSE a]

\* The two goroutines of node a are interchangeable.
Goroutines == Permutations({a1, a2})
=============================================================================
