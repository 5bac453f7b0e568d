---------------------------- MODULE MCEvalBatch ----------------------------
(* Batches of two points for TLC. *)
EXTENDS EvalBatch

CONSTANTS p1, p2

Pair == {<<p1, p2>>}
=============================================================================
