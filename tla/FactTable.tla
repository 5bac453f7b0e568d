----------------------------- MODULE FactTable -----------------------------
(***************************************************************************)
(* What the observation store promises (store.py, eval/engine.py): an      *)
(* append-only table of observations.  Each row carries a number no row    *)
(* had before and tells nothing an interrupt caused (Spec); and, where the *)
(* writers know of each other, the table never holds more simulations than *)
(* the budget (BudgetedSpec).  EvalBatch and ProjectStore are compared     *)
(* with it.                                                                *)
(***************************************************************************)
EXTENDS Integers, Sequences, FiniteSets

CONSTANT Budget     \* spec.budget.max_simulations

VARIABLE table      \* rows with the fields id, simulations and results

\* The numbers the rows carry.
Ids(rows) == {rows[i].id : i \in DOMAIN rows}

\* Every simulation the rows count, as <<row, k>>, and their number: what the budget is compared with.
Simulations(rows) == UNION {{i} \X (1..rows[i].simulations) : i \in DOMAIN rows}
SimulationsOf(rows) == Cardinality(Simulations(rows))

\* None of the row's results is a failure an interrupt caused.
Honest(row) == \A k \in DOMAIN row.results : row.results[k] # "killed"

Init == table = <<>>

Record ==
    /\ Len(table') = Len(table) + 1
    /\ SubSeq(table', 1, Len(table)) = table
    /\ table'[Len(table')].id \notin Ids(table)
    /\ Honest(table'[Len(table')])

RecordWithin == Record /\ SimulationsOf(table') <= Budget

Spec == Init /\ [][Record]_table
BudgetedSpec == Init /\ [][RecordWithin]_table
=============================================================================
