------------------------------ MODULE MCSignoff ------------------------------
(* Small campaigns for TLC. *)
EXTENDS Signoff

CONSTANTS tt, ss

L(low, high) == [low |-> low, high |-> high]
Call(budget, total) == [budget |-> budget, total |-> total]

Base == [specs |-> {L(0, 1)}, values |-> {1}, recipe |-> "steps", rounds |-> 1, top |-> 1, tighten |-> 1, full |-> TRUE,
         strategy |-> "metric_gp", batch |-> 2, calls |-> {Call(2, 2)}, starts |-> {{}}, short |-> FALSE, fails |-> FALSE, runs |-> 2,
         edits |-> 0, advices |-> 0, crashes |-> 1]

\* A recipe of two steps, in increments, with an advice between, cut off.
Advised == [Base EXCEPT !.rounds = 2, !.calls = {Call(1, 4), Call(2, 2)}, !.starts = {{3}}, !.short = TRUE, !.advices = 2]

\* One step, the spec edited and edited back between advices and calls.
Edited == [Base EXCEPT !.specs = {L(0, 1), L(0, 2)}, !.strategy = "other", !.calls = {Call(1, 1)},
                      !.advices = 3, !.edits = 2, !.crashes = 0]

\* signoff advanced in increments: the re-check's rows lie in the store when the search goes on.
Increments == [Base EXCEPT !.recipe = "signoff", !.calls = {Call(1, 2), Call(1, 1), Call(2, 2)}, !.advices = 2, !.runs = 3,
                           !.batch = 1, !.values = {1, 2}]

\* signoff with rounds, every corner simulated, and cut off.
Full == [Base EXCEPT !.recipe = "signoff", !.rounds = 3, !.specs = {L(1, 3)}, !.values = {0, 2, 4}, !.top = 2,
                    !.calls = {Call(2, 2)}]

\* ... stopped at the first failing corner, with simulations that fail now and then.
Stopped == [Full EXCEPT !.full = FALSE, !.fails = TRUE, !.short = TRUE, !.rounds = 2, !.tighten = 2, !.crashes = 0,
                       !.runs = 1]

MCScenarios == {Advised, Edited, Increments, Full, Stopped}
=============================================================================
