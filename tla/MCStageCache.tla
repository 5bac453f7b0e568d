---------------------------- MODULE MCStageCache ----------------------------
(* Small crews for TLC: two threads of one process and one of another, or two threads. *)
EXTENDS StageCache

CONSTANTS j1, j2, j3, p1, p2, e1, e2, pcell

OneProcess == [j \in Job |-> p1]
TwoProcesses == [j \in Job |-> IF j = j3 THEN p2 ELSE p1]

\* Three points of one second device: the first simulates a first device of its own, the second builds a cell, and the
\* third, the other process's, has nothing before it.
Shared == [j \in Job |-> CASE j = j1 -> <<e1, e2>> [] j = j2 -> <<pcell, e2>> [] OTHER -> <<e2>>]

\* A geometry of its own for each of two threads.
Distinct == [j \in Job |-> IF j = j1 THEN <<e1>> ELSE <<e2>>]
=============================================================================
