---------------------------- MODULE MCProjectStore ----------------------------
(* Two processes of the same or of different kinds, for TLC. *)
EXTENDS ProjectStore

CONSTANTS a, b, p1, p2

TwoRuns == [p \in Process |-> "run"]
TwoOptimizes == [p \in Process |-> "optimize"]
OptimizeAndScript == [p \in Process |-> IF p = a THEN "optimize" ELSE "script"]

RunsOrCalls == {TwoRuns, OptimizeAndScript}
Calls == {TwoOptimizes}
=============================================================================
