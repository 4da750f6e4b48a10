----------------------------- MODULE MCSqsMessage -----------------------------
(* Calls are interchangeable: the specification never tells callers apart. *)
EXTENDS SqsMessage, TLC

Alike == Permutations(Callers)
=============================================================================
