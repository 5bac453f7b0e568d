------------------------------- MODULE Signoff -------------------------------
(***************************************************************************)
(* The recipes over the search loop: signoff (recipes/signoff.py: the      *)
(* search at one corner, the re-check of its best points at every corner   *)
(* under the limits as written, and the rounds that tighten a missed limit *)
(* and search again), and a recipe of plain search steps.                  *)
(*                                                                         *)
(* One metric bounded on both sides, as limits; the constraints' text form *)
(* and the refusal of one that cannot be written back are left out, and so *)
(* is --plan.                                                              *)
(***************************************************************************)
EXTENDS Campaign

VARIABLES
    round,    \* the round of the run under way
    checked,  \* the rows of its re-check so far
    entries,  \* its record of the rounds, written to the file after each
    file      \* signoff_rounds.json

recipeVars == <<round, checked, entries, file>>
vars == <<campaignVars, recipeVars>>

Unwritten == [outcome |-> "none", best |-> 0, rounds |-> <<>>]

Init == CampaignInit /\ round = 1 /\ checked = {} /\ entries = <<>> /\ file = Unwritten

----------------------------------------------------------------------------
(* The recipe of plain steps: opt.optimize, once (recipes/optimize.py) or more on one problem *)

NextPlainStep ==
    /\ scenario.recipe = "steps" /\ run.at = "recipe" /\ round < scenario.rounds
    /\ round' = round + 1
    /\ run' = [run EXCEPT !.at = "begin", !.step = <<"search", round + 1>>]
    /\ UNCHANGED <<scenario, spec, rows, advice, torn, design, adviser, standing, left, checked, entries, file>>

EndPlain ==
    /\ scenario.recipe = "steps" /\ run.at = "recipe" /\ round = scenario.rounds
    /\ run' = Idle
    /\ UNCHANGED <<scenario, spec, rows, advice, torn, design, adviser, standing, left, recipeVars>>

----------------------------------------------------------------------------
(* signoff: the re-check *)

\* b.best: the feasible rows with the best objectives, under the limits they were searched with.
Best(set, n) ==
    LET feasible == {r \in set : Feasible(r)}
    IN  {r \in feasible : Cardinality({b \in feasible : b.key < r.key}) < n}

\* While budget is below total the call ends after its search.
EndSearchOnly ==
    /\ scenario.recipe = "signoff" /\ run.at = "recipe" /\ run.budget < run.total
    /\ run' = Idle
    /\ UNCHANGED <<scenario, spec, rows, advice, torn, design, adviser, standing, left, recipeVars>>

\* The re-check, under the limits as written, planned: feasible points already run at every corner are taken from their rows.
Recheck ==
    /\ scenario.recipe = "signoff" /\ run.at = "recipe" /\ run.budget = run.total
    /\ LET winners == Keys(Best(Done, scenario.top))
           known == {r \in Reusable(spec, Corners) : r.key \in winners}
       IN  /\ checked' = known
           /\ run' = [run EXCEPT !.at = "recheck", !.step = <<"signoff", round>>, !.limits = spec,
                                 !.todo = winners \ Keys(known), !.k = 0, !.design = 0, !.advice = 0]
    /\ UNCHANGED <<scenario, spec, rows, advice, torn, design, adviser, standing, left, round, entries, file>>

\* A re-checked point stops at its first failing corner unless full.
LandCheck ==
    /\ run.at = "recheck"
    /\ \E p \in run.todo : \E got \in Outcomes(p, run.limits, Corners, ~scenario.full) :
          /\ rows' = rows \cup {RowOf(p, got)}
          /\ checked' = checked \cup {RowOf(p, got)}
          /\ run' = [run EXCEPT !.todo = @ \ {p}]
    /\ UNCHANGED <<scenario, spec, advice, torn, design, adviser, standing, left, round, entries, file>>

\* rounds = 1: the report, and the end.
EndChecked ==
    /\ run.at = "recheck" /\ run.todo = {} /\ scenario.rounds = 1
    /\ run' = Idle
    /\ UNCHANGED <<scenario, spec, rows, advice, torn, design, adviser, standing, left, recipeVars>>

----------------------------------------------------------------------------
(* signoff: the rounds *)

\* Mutant: a call that goes on from the last file's limits.
SearchedOfFile == IF file.rounds = <<>> THEN spec ELSE file.rounds[Len(file.rounds)].next

\* The limits this round's search ran under.
Searched == IF entries = <<>> THEN spec ELSE entries[Len(entries)].next

Values(row) == {v \in {row.got[c] : c \in DOMAIN row.got} : v >= 0}
Judged(row) == ~Feasible(row) /\ Failed \notin {row.got[c] : c \in DOMAIN row.got}

\* constraint_penalty (the worst corner's), its gap scaled by the limit: in units that order them alike.
Scale(limit) == IF limit = 0 THEN 1 ELSE IF limit < 0 THEN -limit ELSE limit
Gap(v) ==
    IF v > spec.high THEN (v - spec.high) * Scale(spec.low)
    ELSE IF v < spec.low THEN (spec.low - v) * Scale(spec.high) ELSE 0
Penalty(row) == IF Judged(row) THEN Max({Gap(v) : v \in Values(row)}) ELSE 0

\* _best_rechecked: of the feasible ones the best, else of those judged, else of all, the first with the smallest penalty.
BestRechecked ==
    LET pool == IF \E r \in checked : Feasible(r) THEN {r \in checked : Feasible(r)}
                ELSE IF \E r \in checked : Judged(r) THEN {r \in checked : Judged(r)} ELSE checked
        least == {r \in pool : \A o \in pool : Penalty(r) <= Penalty(o)}
    IN  CHOOSE r \in least : \A o \in least : r.key <= o.key

\* _misses: how far the metric's worst value over the corners that have one lies outside each limit as written.
Miss(row) ==
    LET values == Values(row)
    IN  [low |-> IF values = {} THEN 0 ELSE Max({0, spec.low - Min(values)}),
         high |-> IF values = {} THEN 0 ELSE Max({0, Max(values) - spec.high})]
NoMiss == [low |-> 0, high |-> 0]

\* Mutant: tightened from the limit as written, not from the one searched under.
TightenedFromWritten(limits, miss) ==
    [low |-> spec.low + scenario.tighten * miss.low, high |-> spec.high - scenario.tighten * miss.high]

\* _tightened: a lower limit up, an upper one down.
Tightened(limits, miss) ==
    [low |-> limits.low + scenario.tighten * miss.low, high |-> limits.high - scenario.tighten * miss.high]

Crossed(limits) == limits.low > limits.high

Entry(miss, next) == [searched |-> Searched, miss |-> miss, next |-> next]

\* Why the rounds end after this re-check; "none" when they go on.
Outcome ==
    IF checked = {} THEN "nothing_to_recheck"
    ELSE IF Feasible(BestRechecked) THEN "feasible"
    ELSE IF round = scenario.rounds THEN "rounds_used"
    ELSE IF Miss(BestRechecked) = NoMiss THEN "nothing_to_tighten"
    ELSE IF Crossed(Tightened(Searched, Miss(BestRechecked))) THEN "limits_cross"
    ELSE "none"

\* The round that ends the rounds, the file written whole, the report of the last re-check made.
EndRounds ==
    /\ run.at = "recheck" /\ run.todo = {} /\ scenario.rounds > 1 /\ Outcome # "none"
    /\ LET miss == IF Outcome \in {"nothing_to_recheck", "feasible"} THEN NoMiss ELSE Miss(BestRechecked)
       IN  file' = [outcome |-> Outcome, best |-> IF checked = {} THEN 0 ELSE BestRechecked.key,
                    rounds |-> Append(entries, Entry(miss, Searched))]
    /\ run' = Idle
    /\ UNCHANGED <<scenario, spec, rows, advice, torn, design, adviser, standing, left, round, checked, entries>>

\* The tightened round: written, then searched with every earlier search row as initial, under limits that are another problem.
NextRound ==
    /\ run.at = "recheck" /\ run.todo = {} /\ scenario.rounds > 1 /\ Outcome = "none"
    /\ LET miss == Miss(BestRechecked)
           next == Tightened(Searched, miss)
           searched == ByStep(OfProblem(Searched), <<"search", round>>)
       IN  /\ entries' = Append(entries, Entry(miss, next))
           /\ run' = [run EXCEPT !.at = "begin", !.step = <<"search", round + 1>>, !.limits = next,
                                 !.initial = @ \cup Keys(searched)]
    /\ file' = [outcome |-> "none", best |-> BestRechecked.key, rounds |-> entries']
    /\ round' = round + 1 /\ checked' = {}
    /\ UNCHANGED <<scenario, spec, rows, advice, torn, design, adviser, standing, left>>

----------------------------------------------------------------------------

\* What a call keeps in memory starts with it.
Start == BeginRun /\ round' = 1 /\ checked' = {} /\ entries' = <<>> /\ UNCHANGED file

RunStep ==
    \/ SearchStep /\ UNCHANGED recipeVars
    \/ NextPlainStep \/ EndPlain
    \/ EndSearchOnly \/ Recheck \/ LandCheck \/ EndChecked \/ EndRounds \/ NextRound

Outside == CrashRun \/ CrashAdvise \/ Repair \/ EditSpec \/ Advise \/ AppendAdvice

Next == Start \/ RunStep \/ (Outside /\ UNCHANGED recipeVars)

Spec == Init /\ [][Next]_vars /\ WF_vars(RunStep)

----------------------------------------------------------------------------
(* Properties *)

Limits == [low : Int, high : Int]
Row(r) ==
    /\ r.key \in Points /\ r.limits \in Limits /\ r.step[1] \in {"search", "signoff"}
    /\ DOMAIN r.got \in {SearchCorners, Corners} /\ Keys({r}) \subseteq Points

\* Where a run stands, and what it holds there.
TypeOK ==
    /\ scenario \in Scenarios /\ spec \in scenario.specs
    /\ \A r \in rows : Row(r)
    /\ checked \subseteq rows
    /\ run.at \in {"idle", "begin", "search", "recipe", "recheck"}
    /\ run.todo \subseteq Points /\ run.initial \subseteq Points
    /\ run.at \notin {"search", "recheck"} => run.todo = {}
    /\ run.at # "idle" => adviser = <<>>
    /\ torn \in {"none", "rows", "advice"}
    /\ round \in 1..scenario.rounds /\ Len(entries) < round

\* A run that starts ends, however many points its strategy finds and however often its limits are tightened: every batch
\* that is proposed leaves a row.
RunEnds == run.at # "idle" ~> run.at = "idle"

\* The limits as written: what the first round was searched under.
Written == file.rounds[1].searched

\* "feasible" in signoff_rounds.json: the point named met the limits as written, measured at every corner, and whatever
\* was run since agrees.
SignedOffHolds ==
    file.outcome = "feasible" =>
        \A c \in Corners : Known(file.best, c) # {} /\ \A v \in Known(file.best, c) : Passes(v, Written)

\* The sum of the misses on one side over the first n rounds, times the factor.
Moves(rounds, n, side) == scenario.tighten * Cardinality(UNION {{i} \X (1..rounds[i].miss[side]) : i \in 1..n})

\* "the moves add up over the rounds": each round's limits are those written, moved by every miss before it.
LimitsAddUp ==
    /\ file.rounds # <<>> /\ scenario.edits = 0 => Written = spec
    /\ \A n \in 1..(Len(file.rounds) - 1) :
          LET next == [low |-> Written.low + Moves(file.rounds, n, "low"), high |-> Written.high - Moves(file.rounds, n, "high")]
          IN  file.rounds[n].next = next /\ file.rounds[n + 1].searched = next

\* "signoff_rounds.json ties each to its constraints", "the same misses give the same tightened spec, so each round's search
\* keeps its points": in a full recipe without transient failures, every row a later round ever searched was searched under
\* the limits the file gives that round, after a crash and a rerun too.
FileTiesRows ==
    scenario.full /\ ~scenario.fails /\ scenario.recipe = "signoff" =>
        \A r \in SearchRows : r.step[2] \in 2..(Len(file.rounds) + 1) => r.limits = file.rounds[r.step[2] - 1].next

\* The file accounts for the limits of every round and of every row.
RoundsTraced == LimitsAddUp /\ FileTiesRows
=============================================================================
