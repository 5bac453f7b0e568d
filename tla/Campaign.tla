------------------------------ MODULE Campaign ------------------------------
(***************************************************************************)
(* The search loop of a run and the advice given between runs:             *)
(* blocks/optimize.py (optimize, suggest, advise, revoke_advice, the step  *)
(* record steps.json) and advice.py (advice.jsonl).  A recipe -- module    *)
(* Signoff -- strings its steps together.                                  *)
(*                                                                         *)
(* Every search runs at one corner; a problem is its limits on one metric  *)
(* (the spec's fingerprint), a point a number, and the smaller number is   *)
(* the better objective.  The project lock (run.lock) is held by           *)
(* `ic-opt run` from its start to its end and by `ic-opt advise` for its   *)
(* two steps; the store's lock is only ever taken inside it here.          *)
(*                                                                         *)
(* Left out: what a strategy makes of its history (any points not taken),  *)
(* what an advice narrows, start rows and an initial design stated by the  *)
(* user, the simulation budget (EvalBatch, ProjectStore), and `ic-opt call *)
(* opt.optimize`, whose rows may be stale (ProjectStore).                  *)
(***************************************************************************)
EXTENDS Integers, Sequences, FiniteSets, FiniteSetsExt

CONSTANTS
    Points,        \* the grid points
    Corners,       \* spec.corner_ids
    SearchCorner,  \* the corner a search runs at
    Scenarios      \* the runs considered: a spec, the user's calls, and how much goes wrong

\* A scenario: specs (limits the user's spec may have), values (a metric's), recipe with its parameters (rounds: the rounds
\* of signoff, or how many steps a plain recipe has), calls (budget and total of an ic-opt run), starts (an advice's start
\* rows), short (the strategy and the random fill may leave a batch short with free points left), fails (a simulation may
\* fail, and succeed when run again), and the bounds runs, edits, advices, crashes.
ScenarioFields == {"specs", "values", "recipe", "rounds", "top", "tighten", "full", "strategy", "batch", "calls",
                   "starts", "short", "fails", "runs", "edits", "advices", "crashes"}

ASSUME CampaignAssumption ==
    /\ Points \subseteq Nat /\ IsFiniteSet(Points) /\ SearchCorner \in Corners /\ IsFiniteSet(Corners)
    /\ \A s \in Scenarios :
          /\ DOMAIN s = ScenarioFields
          /\ s.specs \subseteq [low : Int, high : Int] /\ s.values \subseteq Nat /\ s.starts \subseteq SUBSET Points
          /\ s.calls \subseteq [budget : Nat, total : Nat] /\ \A c \in s.calls : c.budget <= c.total
          /\ {s.batch, s.rounds, s.top, s.tighten} \subseteq Nat \ {0}
          /\ {s.runs, s.edits, s.advices, s.crashes} \subseteq Nat
          /\ s.recipe \in {"steps", "signoff"} /\ s.strategy \in {"metric_gp", "other"}
          /\ {s.full, s.fails, s.short} \subseteq BOOLEAN

VARIABLES
    scenario,  \* which scenario this is
    spec,      \* the limits of spec.yaml
    rows,      \* observations.jsonl
    advice,    \* advice.jsonl
    torn,      \* the file whose last line a crash cut short: "none", "rows" or "advice"
    design,    \* steps.json: per step the size of its initial design
    run,       \* the ic-opt run under way
    adviser,   \* the row the ic-opt advise under way will append; <<>> while there is none
    standing,  \* history: per problem, the advice adopted last and not revoked; 0 for none
    left       \* bound: what may still happen

campaignVars == <<scenario, spec, rows, advice, torn, design, run, adviser, standing, left>>

Idle == [at |-> "idle", step |-> <<"search", 1>>, limits |-> [low |-> 0, high |-> 0], budget |-> 0, total |-> 0,
         initial |-> {}, design |-> 0, todo |-> {}, k |-> 0, advice |-> 0]

\* Mutant: an advise that takes only the store's lock, which a run holds during a batch.
StoreLockFree == run.todo = {} /\ adviser = <<>>

\* run.lock: one run or one advise at a time.
LockFree == run.at = "idle" /\ adviser = <<>>

\* A mapping with one key written.
With(map, key, value) == [x \in DOMAIN map \cup {key} |-> IF x = key THEN value ELSE map[x]]

----------------------------------------------------------------------------
(* Observations *)

Failed == -1   \* what a child shows that did not run to its end ...
NotRun == -2   \* ... and one that a stop left out

Passes(v, limits) == limits.low <= v /\ v <= limits.high
Feasible(row) == \A c \in DOMAIN row.got : Passes(row.got[c], row.limits) /\ row.got[c] >= 0
Keys(set) == {r.key : r \in set}

OfProblem(limits) == {r \in rows : r.limits = limits}
ByStep(set, step) == {r \in set : r.step = step}

\* _at_corners: a point stopped early counts at every corner it was to run at. (Every row here has a child; one without
\* any is counted at all sets of corners.)
AtCorners(set, corners) == {r \in set : DOMAIN r.got = corners}

\* Mutant: rows of other corners taken too.
ReusableAnywhere(limits, corners) == {r \in OfProblem(limits) : Feasible(r)}

\* engine.run: the rows a batch takes instead of running their points again.
Reusable(limits, corners) == {r \in OfProblem(limits) : Feasible(r) /\ DOMAIN r.got = corners}

\* The simulator: a corner of a point always gives the value it gave before.
Known(p, c) == {v \in {r.got[c] : r \in {q \in rows : q.key = p /\ c \in DOMAIN q.got}} : v >= 0}
Measured(p, c) ==
    (IF Known(p, c) # {} THEN Known(p, c) ELSE scenario.values) \cup IF scenario.fails THEN {Failed} ELSE {}

\* What a point may show: every corner's result; or with `stop` those up to its first failing corner, in some order.
Outcomes(p, limits, corners, stop) ==
    {got \in [corners -> {NotRun} \cup UNION {Measured(p, c) : c \in corners}] :
        LET ran == {c \in corners : got[c] # NotRun}
            failing == {c \in ran : ~Passes(got[c], limits) \/ got[c] = Failed}
        IN  /\ \A c \in ran : got[c] \in Measured(p, c)
            /\ ran = corners \/ (stop /\ failing # {})
            /\ stop => Cardinality(failing) <= 1}

----------------------------------------------------------------------------
(* Advice *)

\* The places in a log of the rows of one kind.
Events(log, event) == {i \in DOMAIN log : log[i].event = event}

\* adoption: the next of a1, a2, ... over every row; refusal: the next of r1, r2, ...
NextId(log) == 1 + Cardinality(Events(log, "adopt"))
NextRefusal(log) == 1 + Cardinality(Events(log, "refuse"))

\* of_problem: the places of what was adopted and refused for these limits, and of the revokes that end it.
AdviceOf(log, limits) ==
    LET own == {i \in DOMAIN log : log[i].event # "revoke" /\ log[i].limits = limits}
        ids == {log[i].id : i \in own \cap Events(log, "adopt")}
    IN  own \cup {i \in Events(log, "revoke") : log[i].id \in ids}

\* Of some places of a log: the last adopted one, and whether a revoke among them ends it.
LastAdopted(log, places) == Max(places \cap Events(log, "adopt"))
Ended(log, places) == \E i \in places \cap Events(log, "revoke") : log[i].id = log[LastAdopted(log, places)].id

NoAdvice == [event |-> "adopt", id |-> 0, since |-> 0, limits |-> [low |-> 0, high |-> 0], start |-> {}]

\* in_effect: the last adopted with since <= k, unless a revoke with since <= k ends it.
InEffect(log, limits, k) ==
    LET places == {i \in AdviceOf(log, limits) : log[i].since <= k}
    IN  IF places \cap Events(log, "adopt") = {} \/ Ended(log, places) THEN NoAdvice ELSE log[LastAdopted(log, places)]

\* history_size at the search's corner: what the next batch's strategy will be handed.
HistorySize == Cardinality(AtCorners(OfProblem(spec), {SearchCorner}))

\* An advice file that passes the check, one that fails it, and the revoke of the advice adopted last.
Adoption(start) ==
    [event |-> "adopt", id |-> NextId(advice), since |-> HistorySize, limits |-> spec, start |-> start]
Refusal == [event |-> "refuse", id |-> NextRefusal(advice), since |-> HistorySize, limits |-> spec, start |-> {}]
Revocations ==
    LET own == AdviceOf(advice, spec)
    IN  IF own \cap Events(advice, "adopt") = {} \/ Ended(advice, own) THEN {}
        ELSE {[event |-> "revoke", id |-> advice[LastAdopted(advice, own)].id, since |-> HistorySize, limits |-> spec,
               start |-> {}]}

\* Both locks taken, both files read (a torn line raises), the row made.
Advise ==
    /\ LockFree /\ torn = "none" /\ left.advices > 0
    /\ adviser' \in {Adoption(s) : s \in scenario.starts} \cup {Refusal} \cup Revocations
    /\ left' = [left EXCEPT !.advices = @ - 1]
    /\ UNCHANGED <<scenario, spec, rows, advice, torn, design, run, standing>>

AppendAdvice ==
    /\ adviser # <<>>
    /\ advice' = Append(advice, adviser)
    /\ standing' = CASE adviser.event = "adopt" -> With(standing, adviser.limits, adviser.id)
                     [] adviser.event = "revoke" -> With(standing, adviser.limits, 0)
                     [] OTHER -> standing
    /\ adviser' = <<>>
    /\ UNCHANGED <<scenario, spec, rows, torn, design, run, left>>

----------------------------------------------------------------------------
(* opt.optimize *)

\* metric_gp.initial_design_size for a budget: half of it, between one point and the design's cap.
DesignCap == 20
DesignFor(budget) == Max({1, Min({DesignCap, budget \div 2})})

SearchCorners == {SearchCorner}
Done == ByStep(OfProblem(run.limits), run.step)

\* Mutants: the strategy is handed every row of the problem, or this step's only.
HandedAll == OfProblem(run.limits)
HandedOfStep == AtCorners(Done, SearchCorners)

\* What the strategy is handed: metric_gp the rows of the run's corners, another one every row of the problem.
Handed ==
    IF scenario.strategy = "metric_gp" THEN AtCorners(OfProblem(run.limits), SearchCorners) ELSE OfProblem(run.limits)

\* Mutant: every call sizes the design for its own total.
SizedAnew == DesignFor(run.total)

\* The recorded size for a step that has rows, else one for this call's total.
DesignSize == IF Done # {} /\ run.step \in DOMAIN design THEN design[run.step] ELSE DesignFor(run.total)

\* Mutant: a step that does not mind a torn line.
BeginStepUnread ==
    /\ run.at = "begin"
    /\ run' = [run EXCEPT !.at = "search", !.design = DesignSize]
    /\ design' = IF Done = {} THEN With(design, run.step, DesignSize) ELSE design
    /\ UNCHANGED <<scenario, spec, rows, advice, torn, adviser, standing, left>>

\* The rows are read (a torn line raises: RunRaises; that of a line which lacks its newline only, and is read, is left
\* out), the size is recorded by the step's first call.
BeginStep ==
    /\ run.at = "begin" /\ torn # "rows"
    /\ run' = [run EXCEPT !.at = "search", !.design = DesignSize]
    /\ design' = IF Done = {} THEN With(design, run.step, DesignSize) ELSE design
    /\ UNCHANGED <<scenario, spec, rows, advice, torn, adviser, standing, left>>

\* suggest: the advice's start rows first, then free points, n of them as far as there are.
Batches(first, taken, n) ==
    IF Cardinality(first) >= n THEN kSubset(n, first)
    ELSE LET free == Points \ taken
             full == Min({n, Cardinality(free)})
         IN  {b \in UNION {kSubset(i, free) : i \in (IF scenario.short THEN 0 ELSE full)..full} : first \subseteq b}

HistoryK == Cardinality(run.initial) + Cardinality(Handed)
Current == InEffect(advice, run.limits, HistoryK)
NextBatches ==
    LET taken == Keys(Handed) \cup run.initial
    IN  Batches(Current.start \ taken, taken, Min({scenario.batch, run.budget - Cardinality(Done)}))

\* A batch is proposed and planned; a point with a row to reuse does not run.
Propose ==
    /\ run.at = "search" /\ run.todo = {} /\ torn # "advice" /\ Cardinality(Done) < run.budget
    /\ \E batch \in NextBatches :
          /\ batch # {}
          /\ run' = [run EXCEPT !.todo = batch \ Keys(Reusable(run.limits, SearchCorners)),
                                !.k = HistoryK, !.advice = Current.id]
    /\ UNCHANGED <<scenario, spec, rows, advice, torn, design, adviser, standing, left>>

RowOf(p, got) == [key |-> p, step |-> run.step, limits |-> run.limits, got |-> got,
                  k |-> run.k, design |-> run.design, advice |-> run.advice]

\* The batch's points land in any order.
Land ==
    /\ run.at = "search"
    /\ \E p \in run.todo : \E got \in Outcomes(p, run.limits, SearchCorners, FALSE) :
          /\ rows' = rows \cup {RowOf(p, got)}
          /\ run' = [run EXCEPT !.todo = @ \ {p}]
    /\ UNCHANGED <<scenario, spec, advice, torn, design, adviser, standing, left>>

\* The step holds its budget, or nothing was proposed; the recipe goes on.
EndStep ==
    /\ run.at = "search" /\ run.todo = {}
    /\ Cardinality(Done) >= run.budget \/ (torn # "advice" /\ {} \in NextBatches)
    /\ run' = [run EXCEPT !.at = "recipe"]
    /\ UNCHANGED <<scenario, spec, rows, advice, torn, design, adviser, standing, left>>

\* A torn line raises where its file is read: the rows at a step's start, the advice before a batch.
RunRaises ==
    /\ \/ run.at = "begin" /\ torn = "rows"
       \/ run.at = "search" /\ run.todo = {} /\ torn = "advice" /\ Cardinality(Done) < run.budget
    /\ run' = Idle
    /\ UNCHANGED <<scenario, spec, rows, advice, torn, design, adviser, standing, left>>

----------------------------------------------------------------------------
(* Calls, crashes and the user *)

BeginRun ==
    /\ run.at = "idle" /\ LockFree /\ left.runs > 0
    /\ \E c \in scenario.calls :
          run' = [Idle EXCEPT !.at = "begin", !.limits = spec, !.budget = c.budget, !.total = c.total]
    /\ left' = [left EXCEPT !.runs = @ - 1]
    /\ UNCHANGED <<scenario, spec, rows, advice, torn, design, adviser, standing>>

\* Ctrl-C or a crash: the locks go; a row being appended may be cut short.
CrashRun ==
    /\ run.at # "idle" /\ left.crashes > 0
    /\ run' = Idle
    /\ torn' \in {torn} \cup IF run.todo # {} THEN {"rows"} ELSE {}
    /\ left' = [left EXCEPT !.crashes = @ - 1]
    /\ UNCHANGED <<scenario, spec, rows, advice, design, adviser, standing>>

CrashAdvise ==
    /\ adviser # <<>> /\ left.crashes > 0
    /\ adviser' = <<>>
    /\ torn' \in {torn, "advice"}
    /\ left' = [left EXCEPT !.crashes = @ - 1]
    /\ UNCHANGED <<scenario, spec, rows, advice, design, run, standing>>

\* The user takes the torn line out of its file.
Repair ==
    /\ torn # "none" /\ LockFree
    /\ torn' = "none"
    /\ UNCHANGED <<scenario, spec, rows, advice, design, run, adviser, standing, left>>

\* The user changes the limits in spec.yaml, and perhaps back: a command reads it once, at its start.
EditSpec ==
    /\ LockFree /\ left.edits > 0
    /\ spec' \in scenario.specs \ {spec}
    /\ left' = [left EXCEPT !.edits = @ - 1]
    /\ UNCHANGED <<scenario, rows, advice, torn, design, run, adviser, standing>>

CampaignInit ==
    /\ scenario \in Scenarios
    /\ spec \in scenario.specs
    /\ rows = {} /\ advice = <<>> /\ torn = "none" /\ design = <<>>
    /\ run = Idle /\ adviser = <<>> /\ standing = <<>>
    /\ left = [runs |-> scenario.runs, edits |-> scenario.edits, advices |-> scenario.advices, crashes |-> scenario.crashes]

SearchStep == BeginStep \/ Propose \/ Land \/ EndStep \/ RunRaises
OutsideStep == BeginRun \/ CrashRun \/ CrashAdvise \/ Repair \/ EditSpec \/ Advise \/ AppendAdvice

----------------------------------------------------------------------------
(* Properties *)

Problems == UNION {s.specs : s \in Scenarios}
Standing(limits) == IF limits \in DOMAIN standing THEN standing[limits] ELSE 0
SearchRows == {r \in rows : r.step[1] = "search"}

\* A batch runs under the advice given for its problem and neither superseded nor revoked, if there is one.
AdviceAsGiven == run.at = "search" /\ run.todo # {} => run.advice = Standing(run.limits)

\* advice.py: "which advice applied to a batch follows from its rows and the batch's history size alone (in_effect), so a
\* run replays without anyone": the two files give back the advice of every row, whatever was adopted, revoked, crashed
\* and edited since.
AdviceReplays == \A r \in SearchRows : r.advice = InEffect(advice, r.limits, r.k).id

\* Both: what advice a batch had is what its author meant, and stays readable from the files.
AdviceApplied == AdviceAsGiven /\ AdviceReplays

\* N-96: a step advanced in calls of any budgets proposes every point under one size of initial design, the one its first
\* call to leave a row took -- whatever crashed between the record and the rows.
DesignKept == \A r, s \in SearchRows : r.step = s.step /\ r.limits = s.limits => r.design = s.design

\* Nothing is ever appended behind a torn line, where it could not be read back.
NothingAfterTorn ==
    [][(torn = "rows" => rows' = rows) /\ (torn = "advice" => advice' = advice)]_<<rows, advice, torn>>
=============================================================================
