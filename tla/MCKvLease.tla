----------------------------- MODULE MCKvLease -----------------------------
(* Instances of KvLease for TLC. *)
EXTENDS KvLease

CONSTANTS n1, n2, s1, s2  \* two nodes, and two renew goroutines of each
=============================================================================
