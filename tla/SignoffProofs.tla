----------------------------- MODULE SignoffProofs -----------------------------
(***************************************************************************)
(* Theorems about Signoff and the search loop under it, for every value of *)
(* the constants.                                                          *)
(***************************************************************************)
EXTENDS Signoff, TableLemmas, TLAPS

\* Whoever could append to a torn file has not begun: a run whose rows are torn has not read them, an advise begins with
\* whole files only, and neither begins while the other is under way.
TornSafe ==
    /\ torn = "rows" => run.at \in {"idle", "begin"}
    /\ adviser # <<>> => torn = "none" /\ run.at = "idle"

\* Nothing is torn at the start.
LEMMA TornSafeInit == Init => TornSafe
BY DEF Init, CampaignInit, TornSafe, Idle

\* What the search loop does with a torn file: it never gets past the reading of it.
LEMMA TornSafeSearch ==
    ASSUME TornSafe, SearchStep
    PROVE  TornSafe' /\ (torn = "rows" => rows' = rows) /\ advice' = advice
<1>1. CASE BeginStep
    BY <1>1 DEF TornSafe, BeginStep
<1>2. CASE Propose
    BY <1>2 DEF TornSafe, Propose
<1>3. CASE Land
    BY <1>3 DEF TornSafe, Land
<1>4. CASE EndStep
    BY <1>4 DEF TornSafe, EndStep
<1>5. CASE RunRaises
    BY <1>5 DEF TornSafe, RunRaises, Idle
<1> QED
    BY <1>1, <1>2, <1>3, <1>4, <1>5 DEF SearchStep

\* What a recipe does between its searches is done with whole rows, and appends no advice.
LEMMA TornSafeRecipe ==
    ASSUME TornSafe,
           \/ NextPlainStep \/ EndPlain
           \/ EndSearchOnly \/ Recheck \/ LandCheck \/ EndChecked \/ EndRounds \/ NextRound
    PROVE  TornSafe' /\ (torn = "rows" => rows' = rows) /\ advice' = advice
<1>1. CASE NextPlainStep \/ EndPlain \/ EndSearchOnly \/ EndChecked
    BY <1>1 DEF TornSafe, NextPlainStep, EndPlain, EndSearchOnly, EndChecked, Idle
<1>2. CASE Recheck
    BY <1>2 DEF TornSafe, Recheck
<1>3. CASE LandCheck
    BY <1>3 DEF TornSafe, LandCheck
<1>4. CASE EndRounds
    BY <1>4 DEF TornSafe, EndRounds, Idle
<1>5. CASE NextRound
    BY <1>5 DEF TornSafe, NextRound
<1> QED
    BY <1>1, <1>2, <1>3, <1>4, <1>5

\* Crashes tear files only as their writer goes, and an advise is begun on whole files.
LEMMA TornSafeOutside ==
    ASSUME TornSafe, Start \/ Outside
    PROVE  TornSafe' /\ rows' = rows /\ (torn = "advice" => advice' = advice)
<1>1. CASE Start
    BY <1>1 DEF TornSafe, Start, BeginRun, LockFree, Idle
<1>2. CASE CrashRun
    BY <1>2 DEF TornSafe, CrashRun, Idle
<1>3. CASE CrashAdvise
    BY <1>3 DEF TornSafe, CrashAdvise
<1>4. CASE Repair
    BY <1>4 DEF TornSafe, Repair, LockFree
<1>5. CASE EditSpec
    BY <1>5 DEF TornSafe, EditSpec
<1>6. CASE Advise
    BY <1>6 DEF TornSafe, Advise, LockFree
<1>7. CASE AppendAdvice
    BY <1>7 DEF TornSafe, AppendAdvice
<1> QED
    BY <1>1, <1>2, <1>3, <1>4, <1>5, <1>6, <1>7 DEF Outside

\* Every step keeps TornSafe and appends nothing to a torn file.
LEMMA TornSafeNext ==
    ASSUME TornSafe, [Next]_vars
    PROVE  TornSafe' /\ (torn = "rows" => rows' = rows) /\ (torn = "advice" => advice' = advice)
<1>1. CASE RunStep
    BY <1>1, TornSafeSearch, TornSafeRecipe DEF RunStep
<1>2. CASE Start \/ Outside
    BY <1>2, TornSafeOutside
<1>3. CASE UNCHANGED vars
    BY <1>3 DEF TornSafe, vars, campaignVars
<1> QED
    BY <1>1, <1>2, <1>3 DEF Next

\* Whatever recipe, calls, edits, advices and crashes there are: no row and no advice is ever appended behind a line a crash
\* cut short, where it could not be read back (store.py and advice.py read the file before anything is added to it).
THEOREM NothingAfterTornCorrect == Spec => NothingAfterTorn
<1>1. TornSafe /\ [Next]_vars =>
          TornSafe' /\ [(torn = "rows" => rows' = rows) /\ (torn = "advice" => advice' = advice)]_<<rows, advice, torn>>
    BY TornSafeNext
<1> QED
    BY <1>1, TornSafeInit, PTL DEF Spec, NothingAfterTorn

----------------------------------------------------------------------------
(* The inductive invariant: what the state is made of *)

StepType == {"search", "signoff"} \X (Nat \ {0})
Shown == Nat \cup {Failed, NotRun}
RowType ==
    [key : Points, step : StepType, limits : Limits, got : [SearchCorners -> Shown] \cup [Corners -> Shown],
     k : Nat, design : Nat, advice : Nat]
RunType ==
    [at : {"idle", "begin", "search", "recipe", "recheck"}, step : StepType, limits : Limits, budget : Nat, total : Nat,
     initial : SUBSET Points, design : Nat, todo : SUBSET Points, k : Nat, advice : Nat]
AdviceType ==
    [event : {"adopt", "refuse", "revoke"}, id : Nat, since : Nat, limits : Limits, start : SUBSET Points]
EntryType == [searched : Limits, miss : [low : Nat, high : Nat], next : Limits]
FileType ==
    [outcome : {"none", "nothing_to_recheck", "feasible", "rounds_used", "nothing_to_tighten", "limits_cross"},
     best : Nat, rounds : Seq(EntryType)]

Typed ==
    /\ scenario \in Scenarios /\ spec \in scenario.specs
    /\ rows \subseteq RowType /\ IsFiniteSet(rows)
    /\ advice \in Seq(AdviceType) /\ adviser \in AdviceType \cup {<<>>}
    /\ torn \in {"none", "rows", "advice"}
    /\ DOMAIN design \subseteq StepType /\ design \in [DOMAIN design -> Nat]
    /\ run \in RunType
    /\ DOMAIN standing \subseteq Limits /\ standing \in [DOMAIN standing -> Nat]
    /\ left \in [runs : Nat, edits : Nat, advices : Nat, crashes : Nat] /\ left.edits <= scenario.edits
    /\ round \in 1..scenario.rounds /\ checked \subseteq rows
    /\ entries \in Seq(EntryType) /\ file \in FileType

\* Where a run stands, and what it holds there.
Course ==
    /\ run.at \notin {"search", "recheck"} => run.todo = {}
    /\ adviser # <<>> => run.at = "idle"
    /\ Len(entries) < round
    /\ scenario.recipe = "steps" => entries = <<>>
    /\ run.at # "idle" =>
          /\ scenario.recipe = "signoff" => Len(entries) = round - 1
          /\ run.at # "recheck" => run.step = <<"search", round>> /\ run.limits = Searched
          /\ run.at = "recheck" => run.step = <<"signoff", round>> /\ run.limits = spec /\ scenario.recipe = "signoff"
          /\ run.initial # {} => entries # <<>>
          /\ \E c \in scenario.calls : run.budget = c.budget /\ run.total = c.total

\* Two rows that measured one corner of one point show one value there.
Consistent ==
    \A r, s \in rows : \A c \in DOMAIN r.got \cap DOMAIN s.got :
        r.key = s.key /\ r.got[c] >= 0 /\ s.got[c] >= 0 => r.got[c] = s.got[c]

\* What a re-check has is measured under the limits as written, at every corner, up to a failure at least.
Rechecked ==
    run.at = "recheck" =>
        \A r \in checked : r.limits = spec /\ DOMAIN r.got = Corners /\ \E c \in Corners : r.got[c] # NotRun

\* The limits after n rounds.
After(rounds, written, n) ==
    [low |-> written.low + Moves(rounds, n, "low"), high |-> written.high - Moves(rounds, n, "high")]

\* The rounds of the run under way: each round's limits from the one before, and inside the limits as written.
Chained ==
    run.at # "idle" =>
        /\ \A n \in 1..Len(entries) :
              entries[n].searched = After(entries, spec, n - 1) /\ entries[n].next = After(entries, spec, n)
        /\ Searched.low >= spec.low /\ Searched.high <= spec.high
        /\ entries # <<>> => Searched # spec

----------------------------------------------------------------------------
(* ... the advice *)

HistoryIn(set, limits) == Cardinality(AtCorners({r \in set : r.limits = limits}, SearchCorners))
History(limits) == HistoryIn(rows, limits)

\* Adopted advice is told apart by its id, and a revoke says which advice of its problem it ends.
Identified(log) ==
    /\ \A i \in Events(log, "adopt") : log[i].id \in 1..Cardinality(Events(log, "adopt"))
    /\ \A i, j \in Events(log, "adopt") : log[i].id = log[j].id => i = j
    /\ \A i \in Events(log, "revoke") :
          \E j \in Events(log, "adopt") : log[j].id = log[i].id /\ log[j].limits = log[i].limits

\* No advice was given at a larger history than there is.
Log == Identified(advice) /\ \A i \in DOMAIN advice : advice[i].since <= History(advice[i].limits)

\* The advice that stands is the one adopted last for its problem, unless it was revoked.
LastOf(log, limits) ==
    LET own == AdviceOf(log, limits)
    IN  IF own \cap Events(log, "adopt") = {} \/ Ended(log, own) THEN 0 ELSE log[LastAdopted(log, own)].id
Stands == \A l \in Limits : Standing(l) = LastOf(advice, l)

\* Nothing moves between the two steps of an advise.
Pending == adviser # <<>> => adviser \in {Adoption(s) : s \in scenario.starts} \cup {Refusal} \cup Revocations

----------------------------------------------------------------------------
(* ... the histories of the batches, where they are plain *)

\* Where the history an advice is given at is the one a batch is handed: metric_gp, or no re-check's rows; and the limits
\* of a tightened round, whose history the earlier rounds are part of, are never the spec's.
PlainHistories ==
    \A s \in Scenarios :
       /\ s.strategy = "metric_gp" \/ s.recipe = "steps"
       /\ s.recipe = "steps" \/ s.rounds = 1 \/ s.edits = 0

\* Limits an advice may still be given for.
Advisable(limits) == scenario.edits > 0 \/ limits = spec

\* A plain search runs at the search's corner only.
SearchedOnly == scenario.recipe = "steps" => \A r \in rows : DOMAIN r.got = SearchCorners

\* What a batch was handed is less than what an advice after it is given at.
Histories ==
    /\ \A r \in SearchRows : Advisable(r.limits) => r.k < History(r.limits)
    /\ run.at = "search" /\ run.todo # {} =>
          /\ run.todo \cap Keys(AtCorners(OfProblem(run.limits), SearchCorners)) = {}
          /\ Advisable(run.limits) => run.k <= History(run.limits)
          /\ run.advice = InEffect(advice, run.limits, run.k).id

----------------------------------------------------------------------------
(* ... and the initial designs *)

\* Every call sizes a design alike, or every step has one problem.
OneSize(s) == \A c, d \in s.calls : DesignFor(c.total) = DesignFor(d.total)
OneProblem(s) == s.edits = 0 /\ (s.recipe = "steps" \/ s.rounds = 1)
OneDesignPerStep == \A s \in Scenarios : OneSize(s) \/ OneProblem(s)

SizedAlike ==
    OneSize(scenario) =>
        \E n \in 1..DesignCap :
           /\ \A c \in scenario.calls : DesignFor(c.total) = n
           /\ \A s \in DOMAIN design : design[s] = n
           /\ \A r \in SearchRows : r.design = n
           /\ run.at = "search" => run.design = n

SizedOnce ==
    OneProblem(scenario) =>
        /\ \A r \in SearchRows : r.limits = spec /\ r.step \in DOMAIN design /\ r.design = design[r.step]
        /\ run.at = "search" => run.step \in DOMAIN design /\ run.design = design[run.step]

----------------------------------------------------------------------------
(* ... and the rounds, found again by a rerun *)

\* Where a rerun finds a round as it was left: no limits are edited, no search is left short of points, and none goes past the
\* budget a re-check was made at.
TotalsAgree(s) == \A c, d \in s.calls : c.budget = c.total => d.budget <= c.budget
RerunsAlike ==
    \A s \in Scenarios : s.full /\ ~s.fails /\ s.recipe = "signoff" =>
                             s.rounds = 1 \/ (s.edits = 0 /\ ~s.short /\ TotalsAgree(s))

Traceable == scenario.full /\ ~scenario.fails /\ scenario.recipe = "signoff" /\ scenario.rounds > 1

\* The rows of a round's search, the points searched before it, and what its strategy is handed.
OfRound(n) == {r \in rows : r.step = <<"search", n>>}
EarlierKeys(n) == Keys({r \in rows : r.step[1] = "search" /\ r.step[2] < n})
HandedOf(limits) == IF scenario.strategy = "metric_gp" THEN AtCorners(OfProblem(limits), SearchCorners) ELSE OfProblem(limits)

\* No call will search the round further.
Complete(n, limits) ==
    \/ \A c \in scenario.calls : c.budget <= Cardinality(OfRound(n))
    \/ Points \subseteq Keys(HandedOf(limits)) \cup EarlierKeys(n)

\* The points a round re-checks, and the rows that measured one at every corner under the limits as written.
Winners(n) == Keys(Best(OfRound(n), scenario.top))
Confirmed == {r \in rows : r.limits = spec /\ DOMAIN r.got = Corners /\ \A c \in Corners : r.got[c] >= 0}

\* The row whose misses tighten the next round: of the winners, all measured and none feasible, the least.
Decides(r, n) ==
    /\ r \in Confirmed /\ r.key \in Winners(n) /\ Winners(n) \subseteq Keys(Confirmed)
    /\ \A o \in Confirmed : o.key \in Winners(n) =>
          ~Feasible(o) /\ (Penalty(r) < Penalty(o) \/ (Penalty(r) = Penalty(o) /\ r.key <= o.key))

\* That the rounds go on from limits to tightened ones follows from the rows alone.
Earned(n, limits, next) ==
    /\ \A r \in OfRound(n) : r.limits = limits
    /\ Complete(n, limits)
    /\ \E r \in rows : Decides(r, n) /\ Miss(r) # NoMiss /\ next = Tightened(limits, Miss(r)) /\ ~Crossed(next)

RowsEarned ==
    \A r \in rows : r.step[1] = "search" =>
        /\ r.step[2] <= scenario.rounds
        /\ r.step[2] = 1 => r.limits = spec
        /\ r.step[2] > 1 => \E q \in OfRound(r.step[2] - 1) : Earned(r.step[2] - 1, q.limits, r.limits)

CallEarned ==
    run.at # "idle" =>
        /\ \A n \in 1..Len(entries) : Earned(n, entries[n].searched, entries[n].next)
        /\ run.initial = EarlierKeys(round)
        /\ entries # <<>> => file.rounds = entries

\* A batch in flight is for points the round lacks, and they fit its budget.
InFlightFits ==
    /\ Cardinality(OfRound(round)) + Cardinality(run.todo) <= run.budget
    /\ run.todo \cap (Keys(HandedOf(run.limits)) \cup run.initial) = {}

\* A re-check is of a complete round, and has a full measurement of each of its winners, or will.
CheckFits ==
    /\ Complete(round, Searched) /\ checked \subseteq Confirmed
    /\ Keys(checked) \cup run.todo = Winners(round)

RoundInCourse ==
    /\ run.at = "search" /\ run.todo # {} => InFlightFits
    /\ run.at = "recipe" /\ run.budget = run.total => Complete(round, Searched)
    /\ run.at = "recheck" => CheckFits

\* Without rounds there is no file of them.
Traced ==
    /\ scenario.rounds = 1 => file.rounds = <<>>
    /\ Traceable => RowsEarned /\ CallEarned /\ RoundInCourse /\ FileTiesRows


----------------------------------------------------------------------------
(* What the operators give *)

LEMMA ScenarioFacts ==
    ASSUME scenario \in Scenarios
    PROVE  /\ scenario.specs \subseteq Limits /\ scenario.values \subseteq Nat /\ scenario.starts \subseteq SUBSET Points
           /\ scenario.calls \subseteq [budget : Nat, total : Nat]
           /\ scenario.batch \in Nat \ {0} /\ scenario.rounds \in Nat \ {0} /\ scenario.tighten \in Nat \ {0}
           /\ scenario.runs \in Nat /\ scenario.edits \in Nat /\ scenario.advices \in Nat /\ scenario.crashes \in Nat
           /\ scenario.recipe \in {"steps", "signoff"}
BY CampaignAssumption DEF Limits

LEMMA ConstantFacts ==
    /\ Points \subseteq Nat /\ IsFiniteSet(Points)
    /\ SearchCorner \in Corners /\ SearchCorners = {SearchCorner} /\ SearchCorner \in SearchCorners
BY CampaignAssumption DEF SearchCorners

\* Every set of rows is finite, and every set of points.
LEMMA SetFacts ==
    /\ \A S : S \subseteq Points => IsFiniteSet(S) /\ Cardinality(S) \in Nat
    /\ Typed => \A S : S \subseteq rows => IsFiniteSet(S) /\ Cardinality(S) \in Nat
<1>1. \A S : S \subseteq Points => IsFiniteSet(S) /\ Cardinality(S) \in Nat
    BY ConstantFacts, FS_Subset, FS_CardinalityType
<1>2. Typed => \A S : S \subseteq rows => IsFiniteSet(S) /\ Cardinality(S) \in Nat
    BY FS_Subset, FS_CardinalityType DEF Typed
<1> QED
    BY <1>1, <1>2

\* The larger and the smaller of two numbers.
LEMMA TwoNumbers ==
    ASSUME NEW a \in Int, NEW b \in Int
    PROVE  /\ Max({a, b}) = IF a >= b THEN a ELSE b
           /\ Min({a, b}) = IF a <= b THEN a ELSE b
<1>1. \E x \in {a, b} : \A y \in {a, b} : x >= y
    OBVIOUS
<1>2. Max({a, b}) \in {a, b} /\ \A y \in {a, b} : Max({a, b}) >= y
    BY <1>1 DEF Max
<1>3. \E x \in {a, b} : \A y \in {a, b} : x <= y
    OBVIOUS
<1>4. Min({a, b}) \in {a, b} /\ \A y \in {a, b} : Min({a, b}) <= y
    BY <1>3 DEF Min
<1> QED
    BY <1>2, <1>4

\* The size of an initial design lies between one point and the cap.
LEMMA DesignForType ==
    ASSUME NEW n \in Nat
    PROVE  DesignFor(n) \in Nat /\ DesignFor(n) \in 1..DesignCap
<1>1. n \div 2 \in Int
    OBVIOUS
<1>2. Min({DesignCap, n \div 2}) \in Int /\ Min({DesignCap, n \div 2}) <= DesignCap
    BY <1>1, TwoNumbers DEF DesignCap
<1>3. DesignFor(n) = IF 1 >= Min({DesignCap, n \div 2}) THEN 1 ELSE Min({DesignCap, n \div 2})
    BY <1>2, TwoNumbers DEF DesignFor
<1> QED
    BY <1>2, <1>3 DEF DesignCap

\* What a point may show at a corner is a value it may have there, or a failure.
LEMMA MeasuredType ==
    ASSUME Typed, NEW p, NEW c
    PROVE  /\ Known(p, c) \subseteq Nat /\ Measured(p, c) \subseteq Nat \cup {Failed}
           /\ Known(p, c) # {} => Measured(p, c) \subseteq Known(p, c) \cup {Failed}
<1>1. \A q \in rows : c \in DOMAIN q.got => q.got[c] \in Shown
    BY DEF Typed, RowType
<1>2. \A v \in Shown : v >= 0 => v \in Nat
    BY DEF Shown, Failed, NotRun
<1>3. Known(p, c) \subseteq Nat
    BY <1>1, <1>2 DEF Known
<1> QED
    BY <1>3, ScenarioFacts DEF Measured, Typed

LEMMA OutcomesType ==
    ASSUME Typed, NEW p, NEW limits, NEW corners \in {SearchCorners, Corners}, NEW stop \in BOOLEAN,
           NEW got \in Outcomes(p, limits, corners, stop)
    PROVE  /\ got \in [corners -> Shown] /\ DOMAIN got = corners
           /\ \A c \in corners : got[c] # NotRun => got[c] \in Measured(p, c)
           /\ \E c \in corners : got[c] # NotRun
<1>1. /\ DOMAIN got = corners
      /\ \A c \in corners : got[c] \in {NotRun} \cup UNION {Measured(p, d) : d \in corners}
      /\ got = [c \in corners |-> got[c]]
    BY DEF Outcomes
<1>2. \A c \in corners : got[c] \in Shown
  <2> TAKE c \in corners
  <2>1. got[c] = NotRun \/ \E d \in corners : got[c] \in Measured(p, d)
      BY <1>1
  <2>2. \A d \in corners : Measured(p, d) \subseteq Nat \cup {Failed}
      BY MeasuredType
  <2> QED BY <2>1, <2>2 DEF Shown
<1>3. got \in [corners -> Shown]
    BY <1>1, <1>2
<1>4. \A c \in corners : got[c] # NotRun => got[c] \in Measured(p, c)
    BY DEF Outcomes
<1>5. \E c \in corners : got[c] # NotRun
  <2>1. \/ {c \in corners : got[c] # NotRun} = corners
        \/ {c \in {d \in corners : got[d] # NotRun} : ~Passes(got[c], limits) \/ got[c] = Failed} # {}
      BY DEF Outcomes
  <2> QED BY <2>1, ConstantFacts
<1> QED
    BY <1>1, <1>3, <1>4, <1>5

LEMMA RowOfType ==
    ASSUME Typed, NEW p \in Points, NEW corners \in {SearchCorners, Corners}, NEW got \in [corners -> Shown]
    PROVE  RowOf(p, got) \in RowType /\ IsFiniteSet(rows \cup {RowOf(p, got)})
<1>1. RowOf(p, got) \in RowType
    BY DEF RowOf, RowType, Typed, RunType
<1> QED
    BY <1>1, FS_AddElement DEF Typed

\* The values of a row, finitely many; some, where it met its limits or ran to its end and did not fail.
LEMMA ValuesType ==
    ASSUME Typed, NEW r \in rows
    PROVE  Values(r) \subseteq Nat /\ IsFiniteSet(Values(r))
<1>1. r.got \in [SearchCorners -> Shown] \cup [Corners -> Shown] /\ IsFiniteSet(SearchCorners) /\ IsFiniteSet(Corners)
    BY CampaignAssumption, FS_Singleton DEF Typed, RowType, SearchCorners
<1>2. PICK D \in {SearchCorners, Corners} : r.got \in [D -> Shown]
    BY <1>1
<1>3. IsFiniteSet({r.got[c] : c \in D})
    BY <1>1, <1>2, ImageFinite
<1>4. Values(r) \subseteq {r.got[c] : c \in D}
    BY <1>2 DEF Values
<1>5. \A v \in Shown : v >= 0 => v \in Nat
    BY DEF Shown, Failed, NotRun
<1> QED
    BY <1>2, <1>3, <1>4, <1>5, FS_Subset DEF Values

LEMMA Products ==
    ASSUME NEW a \in Nat, NEW b \in Nat
    PROVE  a * b \in Nat
OBVIOUS

LEMMA PenaltyType ==
    ASSUME Typed, NEW r \in rows, \E c \in DOMAIN r.got : r.got[c] # NotRun
    PROVE  Penalty(r) \in Nat
<1>1. r \in rows /\ spec \in Limits
    BY ScenarioFacts DEF Typed
<1>2. CASE ~Judged(r)
    BY <1>2 DEF Penalty
<1>3. CASE Judged(r)
  <2> DEFINE G == {Gap(v) : v \in Values(r)}
  <2>1. \A v \in Nat : Gap(v) \in Nat
    <3> TAKE v \in Nat
    <3>1. \A l \in Int : Scale(l) \in Nat
        BY DEF Scale
    <3>2. spec.low \in Int /\ spec.high \in Int
        BY <1>1 DEF Limits
    <3>3. CASE v > spec.high
        BY <3>1, <3>2, <3>3, Products DEF Gap
    <3>4. CASE ~(v > spec.high) /\ v < spec.low
        BY <3>1, <3>2, <3>4, Products DEF Gap
    <3> QED BY <3>3, <3>4 DEF Gap
  <2>2. G \subseteq Nat /\ IsFiniteSet(G)
    <3> DEFINE f == [v \in Values(r) |-> Gap(v)]
    <3>1. Values(r) \subseteq Nat /\ IsFiniteSet(Values(r))
        BY <1>1, ValuesType
    <3>2. IsFiniteSet({f[v] : v \in Values(r)})
        BY <3>1, ImageFinite
    <3>3. {f[v] : v \in Values(r)} = G
        OBVIOUS
    <3> QED BY <2>1, <3>1, <3>2, <3>3
  <2>3. Values(r) # {}
    <3>1. PICK c \in DOMAIN r.got : r.got[c] # NotRun
        OBVIOUS
    <3>2. r.got[c] \in Shown
        BY <1>1, <3>1 DEF Typed, RowType
    <3>3. r.got[c] # Failed
        BY <1>3 DEF Judged
    <3> QED BY <3>1, <3>2, <3>3 DEF Values, Shown
  <2>4. Max(G) \in G
      BY <2>2, <2>3, MaxOfNats
  <2> QED BY <1>3, <2>2, <2>4 DEF Penalty
<1> QED
    BY <1>2, <1>3

\* The best re-checked point is one of those re-checked, a feasible one if there is one, and of those judged the least.
LEMMA BestRecheckedIn ==
    ASSUME Typed, \A r \in checked : \E c \in DOMAIN r.got : r.got[c] # NotRun, checked # {}
    PROVE  /\ BestRechecked \in checked
           /\ (\E r \in checked : Feasible(r)) => Feasible(BestRechecked)
           /\ (\A r \in checked : Judged(r)) =>
                 \A o \in checked : \/ Penalty(BestRechecked) < Penalty(o)
                                    \/ Penalty(BestRechecked) = Penalty(o) /\ BestRechecked.key <= o.key
<1> DEFINE pool == IF \E r \in checked : Feasible(r) THEN {r \in checked : Feasible(r)}
                   ELSE IF \E r \in checked : Judged(r) THEN {r \in checked : Judged(r)} ELSE checked
           least == {r \in pool : \A o \in pool : Penalty(r) <= Penalty(o)}
           penalties == {Penalty(r) : r \in pool}
           keys == {r.key : r \in least}
<1>1. pool \subseteq checked /\ pool # {}
    OBVIOUS
<1>11. (\E r \in checked : Feasible(r)) => \A r \in pool : Feasible(r)
    OBVIOUS
<1>12. (\A r \in checked : Judged(r)) => pool = checked
    BY DEF Judged
<1> HIDE DEF pool
<1>2. IsFiniteSet(checked) /\ \A r \in checked : Penalty(r) \in Nat
    BY SetFacts, PenaltyType DEF Typed
<1>3. IsFiniteSet(pool) /\ penalties \subseteq Nat /\ penalties # {}
    BY <1>1, <1>2, FS_Subset
<1>4. Min(penalties) \in penalties /\ \A n \in penalties : Min(penalties) <= n
  <2> DEFINE f == [r \in pool |-> Penalty(r)]
  <2>1. IsFiniteSet({f[r] : r \in pool})
      BY <1>3, ImageFinite
  <2>2. {f[r] : r \in pool} = penalties
      OBVIOUS
  <2> HIDE DEF penalties
  <2> QED BY <1>3, <2>1, <2>2, MinOfNats
<1>5. least \subseteq pool /\ least # {}
  <2>1. PICK r \in pool : Penalty(r) = Min(penalties)
      BY <1>4
  <2>2. \A o \in pool : Penalty(r) <= Penalty(o)
      BY <1>4, <2>1
  <2> QED BY <2>1, <2>2
<1>13. \A r \in least : \A o \in pool : Penalty(r) <= Penalty(o)
    OBVIOUS
<1>14. \A r \in least : \A o \in pool : Penalty(r) = Penalty(o) => o \in least
    OBVIOUS
<1> HIDE DEF least
<1>6. keys \subseteq Nat /\ keys # {} /\ IsFiniteSet(keys)
  <2>1. \A r \in least : r.key \in Nat
      BY <1>1, <1>5, ConstantFacts DEF Typed, RowType
  <2>2. IsFiniteSet(least)
      BY <1>3, <1>5, FS_Subset
  <2>3. IsFiniteSet(keys)
    <3> DEFINE f == [r \in least |-> r.key]
    <3>1. IsFiniteSet({f[r] : r \in least})
        BY <2>2, ImageFinite
    <3>2. {f[r] : r \in least} = keys
        OBVIOUS
    <3> QED BY <3>1, <3>2
  <2> QED BY <1>5, <2>1, <2>3
<1>7. PICK r \in least : r.key = Min(keys)
    BY <1>6, MinOfNats
<1>8. \A o \in least : r.key <= o.key
    BY <1>6, <1>7, MinOfNats
<1>9. BestRechecked \in least /\ \A o \in least : BestRechecked.key <= o.key
  <2>1. BestRechecked = CHOOSE x \in least : \A o \in least : x.key <= o.key
      BY DEF BestRechecked, pool, least
  <2> QED BY <1>8, <2>1
<1>10. \A o \in pool : \/ Penalty(BestRechecked) < Penalty(o)
                       \/ Penalty(BestRechecked) = Penalty(o) /\ BestRechecked.key <= o.key
  <2> TAKE o \in pool
  <2>1. Penalty(BestRechecked) \in Nat /\ Penalty(o) \in Nat
      BY <1>1, <1>2, <1>5, <1>9
  <2>2. Penalty(BestRechecked) <= Penalty(o)
      BY <1>9, <1>13
  <2> QED BY <1>9, <1>14, <2>1, <2>2
<1> QED
    BY <1>1, <1>5, <1>9, <1>10, <1>11, <1>12

\* How far a row misses a side, and the limits moved by it.
LEMMA MissType ==
    ASSUME Typed, NEW r \in rows
    PROVE  Miss(r) \in [low : Nat, high : Nat]
<1>1. Values(r) \subseteq Nat /\ IsFiniteSet(Values(r))
    BY ValuesType
<1>2. spec.low \in Int /\ spec.high \in Int
    BY ScenarioFacts DEF Typed, Limits
<1>3. Values(r) # {} => Min(Values(r)) \in Int /\ Max(Values(r)) \in Int
    BY <1>1, MinOfNats, MaxOfNats
<1>4. Values(r) # {} => Max({0, spec.low - Min(Values(r))}) \in Nat /\ Max({0, Max(Values(r)) - spec.high}) \in Nat
    BY <1>2, <1>3, TwoNumbers
<1> QED
    BY <1>4 DEF Miss

LEMMA TightenedType ==
    ASSUME Typed, NEW limits \in Limits, NEW miss \in [low : Nat, high : Nat]
    PROVE  /\ Tightened(limits, miss) \in Limits
           /\ Tightened(limits, miss).low >= limits.low /\ Tightened(limits, miss).high <= limits.high
           /\ miss # NoMiss => Tightened(limits, miss).low > limits.low \/ Tightened(limits, miss).high < limits.high
<1>1. scenario.tighten \in Nat \ {0} /\ miss.low \in Nat /\ miss.high \in Nat /\ limits.low \in Int /\ limits.high \in Int
    BY ScenarioFacts DEF Typed, Limits
<1>2. scenario.tighten * miss.low \in Nat /\ scenario.tighten * miss.high \in Nat
    BY <1>1, Products
<1>3. miss # NoMiss => miss.low > 0 \/ miss.high > 0
    BY <1>1 DEF NoMiss
<1>4. \A a, b \in Nat \ {0} : a * b > 0
    OBVIOUS
<1>5. /\ miss.low > 0 => scenario.tighten * miss.low > 0
      /\ miss.high > 0 => scenario.tighten * miss.high > 0
    BY <1>1, <1>4
<1> QED
    BY <1>1, <1>2, <1>3, <1>5 DEF Tightened, Limits

\* The places of a log's rows are finitely many numbers.
LEMMA LogFacts ==
    ASSUME NEW log \in Seq(AdviceType)
    PROVE  /\ Len(log) \in Nat /\ DOMAIN log = 1..Len(log) /\ \A i \in DOMAIN log : log[i] \in AdviceType
           /\ \A e : Events(log, e) \subseteq DOMAIN log
           /\ \A l : AdviceOf(log, l) \subseteq DOMAIN log
           /\ \A S : S \subseteq DOMAIN log => S \subseteq Nat /\ IsFiniteSet(S) /\ Cardinality(S) \in Nat
<1>1. Len(log) \in Nat /\ DOMAIN log = 1..Len(log) /\ \A i \in DOMAIN log : log[i] \in AdviceType
    BY LenProperties, ElementOfSeq
<1>2. IsFiniteSet(DOMAIN log) /\ DOMAIN log \subseteq Nat
    BY <1>1, FS_Interval
<1>3. \A S : S \subseteq DOMAIN log => S \subseteq Nat /\ IsFiniteSet(S) /\ Cardinality(S) \in Nat
    BY <1>2, FS_Subset, FS_CardinalityType
<1>4. \A e : Events(log, e) \subseteq DOMAIN log
    BY DEF Events
<1>5. \A l : AdviceOf(log, l) \subseteq DOMAIN log
    BY DEF AdviceOf, Events
<1> QED
    BY <1>1, <1>3, <1>4, <1>5

LEMMA LastAdoptedIn ==
    ASSUME NEW log \in Seq(AdviceType), NEW places \in SUBSET DOMAIN log, places \cap Events(log, "adopt") # {}
    PROVE  /\ LastAdopted(log, places) \in places \cap Events(log, "adopt")
           /\ \A i \in places \cap Events(log, "adopt") : i <= LastAdopted(log, places)
<1> DEFINE S == places \cap Events(log, "adopt")
<1>1. S \subseteq Nat /\ IsFiniteSet(S) /\ S # {}
    BY LogFacts
<1> HIDE DEF S
<1>2. Max(S) \in S /\ \A i \in S : i <= Max(S)
    BY <1>1, MaxOfNats
<1> QED
    BY <1>2 DEF S, LastAdopted

LEMMA InEffectType ==
    ASSUME NEW log \in Seq(AdviceType), NEW l, NEW k
    PROVE  InEffect(log, l, k) \in AdviceType
<1> DEFINE places == {i \in AdviceOf(log, l) : log[i].since <= k}
<1>1. places \subseteq DOMAIN log
    BY LogFacts
<1>0. NoAdvice \in AdviceType
  <2>1. 0 \in Nat /\ 0 \in Int /\ {} \in SUBSET Points
      OBVIOUS
  <2> QED BY <2>1 DEF NoAdvice, AdviceType, Limits
<1>2. places \cap Events(log, "adopt") # {} => log[LastAdopted(log, places)] \in AdviceType
    BY <1>1, LastAdoptedIn, LogFacts
<1> QED
    BY <1>0, <1>2 DEF InEffect

\* What an advise appends.
LEMMA AdvisedType ==
    ASSUME Typed
    PROVE  /\ HistorySize = History(spec) /\ \A l : History(l) \in Nat
           /\ Revocations \subseteq {[event |-> "revoke", id |-> advice[LastAdopted(advice, AdviceOf(advice, spec))].id,
                                      since |-> HistorySize, limits |-> spec, start |-> {}]}
           /\ Revocations # {} => /\ AdviceOf(advice, spec) \cap Events(advice, "adopt") # {}
                                  /\ ~Ended(advice, AdviceOf(advice, spec))
           /\ {Adoption(s) : s \in scenario.starts} \cup {Refusal} \cup Revocations \subseteq AdviceType
<1>1. \A l : History(l) \in Nat
  <2>1. \A l : AtCorners(OfProblem(l), SearchCorners) \subseteq rows
      BY DEF AtCorners, OfProblem
  <2> QED BY <2>1, SetFacts DEF History, HistoryIn, OfProblem
<1>2. HistorySize = History(spec)
    BY DEF HistorySize, History, HistoryIn, OfProblem, SearchCorners
<1>3. spec \in Limits /\ scenario.starts \subseteq SUBSET Points
    BY ScenarioFacts DEF Typed
<1>4. NextId(advice) \in Nat /\ NextRefusal(advice) \in Nat
    BY LogFacts DEF NextId, NextRefusal, Typed
<1>5. Refusal \in AdviceType /\ \A s \in scenario.starts : Adoption(s) \in AdviceType
    BY <1>1, <1>2, <1>3, <1>4 DEF Refusal, Adoption, AdviceType
<1>6. /\ Revocations \subseteq {[event |-> "revoke", id |-> advice[LastAdopted(advice, AdviceOf(advice, spec))].id,
                                 since |-> HistorySize, limits |-> spec, start |-> {}]}
      /\ Revocations # {} => /\ AdviceOf(advice, spec) \cap Events(advice, "adopt") # {}
                             /\ ~Ended(advice, AdviceOf(advice, spec))
    BY DEF Revocations
<1>7. Revocations \subseteq AdviceType
  <2> SUFFICES ASSUME Revocations # {} PROVE Revocations \subseteq AdviceType
      OBVIOUS
  <2>1. advice[LastAdopted(advice, AdviceOf(advice, spec))].id \in Nat
      BY <1>6, LastAdoptedIn, LogFacts DEF Typed, AdviceType
  <2> QED BY <1>1, <1>2, <1>3, <1>6, <2>1 DEF AdviceType
<1> QED
    BY <1>1, <1>2, <1>5, <1>6, <1>7

\* What a batch is made of: points the strategy was not handed.
LEMMA NextBatchesIn ==
    ASSUME Typed, NEW b \in NextBatches
    PROVE  /\ b \subseteq Points /\ b \cap (Keys(Handed) \cup run.initial) = {}
           /\ HistoryK \in Nat /\ Current \in AdviceType
<1>1. HistoryK \in Nat
  <2>1. Handed \subseteq rows
      BY DEF Handed, AtCorners, OfProblem
  <2>2. run.initial \subseteq Points
      BY DEF Typed, RunType
  <2>3. Cardinality(Handed) \in Nat /\ Cardinality(run.initial) \in Nat
      BY <2>1, <2>2, SetFacts
  <2> QED BY <2>3 DEF HistoryK
<1>2. Current \in AdviceType
    BY InEffectType DEF Current, Typed
<1>3. Current.start \subseteq Points
    BY <1>2 DEF AdviceType
<1> DEFINE taken == Keys(Handed) \cup run.initial
           n == Min({scenario.batch, run.budget - Cardinality(Done)})
<1>4. b \in Batches(Current.start \ taken, taken, n)
    BY DEF NextBatches
<1> HIDE DEF taken, n
<1>5. b \subseteq Points \ taken
  <2>1. CASE b \in kSubset(n, Current.start \ taken)
      BY <2>1, <1>3 DEF kSubset
  <2>2. CASE ~(Cardinality(Current.start \ taken) >= n)
    <3>1. \E i : b \in kSubset(i, Points \ taken)
        BY <1>4, <2>2 DEF Batches
    <3> QED BY <3>1 DEF kSubset
  <2> QED BY <1>4, <2>1, <2>2 DEF Batches
<1> QED
    BY <1>1, <1>2, <1>5 DEF taken

----------------------------------------------------------------------------
(* Types are kept *)

LEMMA DesignSizeType ==
    ASSUME Typed
    PROVE  DesignSize \in Nat
<1>1. run.total \in Nat
    BY DEF Typed, RunType
<1>2. run.step \in DOMAIN design => design[run.step] \in Nat
    BY DEF Typed
<1> QED
    BY <1>1, <1>2, DesignForType DEF DesignSize

LEMMA IdleType == Idle \in RunType
<1>1. 1 \in Nat \ {0} /\ 0 \in Nat /\ 0 \in Int /\ {} \in SUBSET Points
    OBVIOUS
<1>2. [low |-> 0, high |-> 0] \in Limits /\ <<"search", 1>> \in StepType
    BY <1>1 DEF Limits, StepType
<1> QED
    BY <1>1, <1>2 DEF Idle, RunType

LEMMA TypedInit == Init => Typed
<1> SUFFICES ASSUME Init PROVE Typed
    OBVIOUS
<1>1. scenario \in Scenarios /\ spec \in scenario.specs
    BY DEF Init, CampaignInit
<1>2. rows \subseteq RowType /\ IsFiniteSet(rows) /\ checked \subseteq rows
    BY FS_EmptySet DEF Init, CampaignInit
<1>3. advice \in Seq(AdviceType) /\ adviser \in AdviceType \cup {<<>>} /\ entries \in Seq(EntryType)
    BY EmptySeq DEF Init, CampaignInit
<1>4. DOMAIN design = {} /\ DOMAIN standing = {} /\ design \in [{} -> Nat] /\ standing \in [{} -> Nat]
    BY DEF Init, CampaignInit
<1>5. run \in RunType
    BY IdleType DEF Init, CampaignInit
<1>6. left \in [runs : Nat, edits : Nat, advices : Nat, crashes : Nat] /\ left.edits <= scenario.edits
    BY <1>1, ScenarioFacts DEF Init, CampaignInit
<1>7. round \in 1..scenario.rounds
    BY <1>1, ScenarioFacts DEF Init
<1>8. file \in FileType
  <2>1. <<>> \in Seq(EntryType) /\ 0 \in Nat
      BY EmptySeq
  <2> QED BY <2>1 DEF Init, Unwritten, FileType
<1>9. torn = "none"
    BY DEF Init, CampaignInit
<1> QED
    BY <1>1, <1>2, <1>3, <1>4, <1>5, <1>6, <1>7, <1>8, <1>9 DEF Typed

LEMMA TypedSearch ==
    ASSUME Typed, SearchStep, UNCHANGED recipeVars
    PROVE  Typed'
<1>0. UNCHANGED <<round, checked, entries, file>>
    BY DEF recipeVars
<1>1. CASE BeginStep
  <2>1. run.step \in StepType /\ DesignSize \in Nat
      BY DesignSizeType DEF Typed, RunType
  <2>2. DOMAIN design' \subseteq StepType /\ design' \in [DOMAIN design' -> Nat]
    <3>1. CASE Done = {}
      <4>1. design' = With(design, run.step, DesignSize)
          BY <1>1, <3>1 DEF BeginStep
      <4>2. DOMAIN design' = DOMAIN design \cup {run.step} /\ design' \in [DOMAIN design \cup {run.step} -> Nat]
        <5>1. DOMAIN design \subseteq StepType /\ design \in [DOMAIN design -> Nat]
            BY DEF Typed
        <5> QED BY <2>1, <4>1, <5>1 DEF With
      <4> QED BY <4>2, <2>1 DEF Typed
    <3>2. CASE Done # {}
        BY <1>1, <3>2 DEF BeginStep, Typed
    <3> QED BY <3>1, <3>2
  <2>3. run' \in RunType
      BY <1>1, <2>1 DEF BeginStep, Typed, RunType
  <2> QED BY <1>0, <1>1, <2>2, <2>3 DEF BeginStep, Typed
<1>2. CASE Propose
  <2>1. PICK b \in NextBatches : run' = [run EXCEPT !.todo = b \ Keys(Reusable(run.limits, SearchCorners)),
                                                    !.k = HistoryK, !.advice = Current.id]
      BY <1>2 DEF Propose
  <2>2. b \subseteq Points /\ HistoryK \in Nat /\ Current.id \in Nat
      BY NextBatchesIn DEF AdviceType
  <2>3. run' \in RunType
      BY <2>1, <2>2 DEF Typed, RunType
  <2> QED BY <1>0, <1>2, <2>3 DEF Propose, Typed
<1>3. CASE Land
  <2>0. PICK p \in run.todo : \E got \in Outcomes(p, run.limits, SearchCorners, FALSE) :
            rows' = rows \cup {RowOf(p, got)} /\ run' = [run EXCEPT !.todo = @ \ {p}]
      BY <1>3 DEF Land
  <2>1. PICK got \in Outcomes(p, run.limits, SearchCorners, FALSE) :
            rows' = rows \cup {RowOf(p, got)} /\ run' = [run EXCEPT !.todo = @ \ {p}]
      BY <2>0
  <2>2. p \in Points /\ got \in [SearchCorners -> Shown]
      BY OutcomesType DEF Typed, RunType
  <2>3. RowOf(p, got) \in RowType /\ IsFiniteSet(rows \cup {RowOf(p, got)})
      BY <2>2, RowOfType
  <2>4. run' \in RunType
      BY <2>1 DEF Typed, RunType
  <2> QED BY <1>0, <1>3, <2>1, <2>3, <2>4 DEF Land, Typed
<1>4. CASE EndStep
  <2>1. run' \in RunType
      BY <1>4 DEF EndStep, Typed, RunType
  <2> QED BY <1>0, <1>4, <2>1 DEF EndStep, Typed
<1>5. CASE RunRaises
    BY <1>0, <1>5, IdleType DEF RunRaises, Typed
<1> QED
    BY <1>1, <1>2, <1>3, <1>4, <1>5 DEF SearchStep

\* While it is re-checked, a point shows something at some corner.
LEMMA SomethingShown ==
    ASSUME Typed, Rechecked, run.at = "recheck"
    PROVE  \A r \in checked : \E c \in DOMAIN r.got : r.got[c] # NotRun
BY DEF Rechecked

LEMMA SearchedType ==
    ASSUME Typed
    PROVE  Searched \in Limits
<1>1. spec \in Limits
    BY ScenarioFacts DEF Typed
<1>2. entries # <<>> => entries[Len(entries)] \in EntryType
    BY EmptySeq, LenProperties, ElementOfSeq DEF Typed
<1> QED
    BY <1>1, <1>2 DEF Searched, EntryType

\* The step of a recipe that ends a round of re-checks.
LEMMA EndRoundsType ==
    ASSUME Typed, Rechecked, EndRounds
    PROVE  /\ file' \in FileType /\ file'.rounds # <<>> /\ file'.outcome = Outcome
           /\ checked # {} => BestRechecked \in checked /\ file'.best = BestRechecked.key
           /\ \E miss \in [low : Nat, high : Nat] : file'.rounds = Append(entries, Entry(miss, Searched))
<1> DEFINE miss == IF Outcome \in {"nothing_to_recheck", "feasible"} THEN NoMiss ELSE Miss(BestRechecked)
<1>1. run.at = "recheck" /\ Outcome # "none"
      /\ file' = [outcome |-> Outcome, best |-> IF checked = {} THEN 0 ELSE BestRechecked.key,
                  rounds |-> Append(entries, Entry(miss, Searched))]
    BY DEF EndRounds
<1>2. checked # {} => BestRechecked \in checked
    BY <1>1, SomethingShown, BestRecheckedIn
<1>3. checked # {} => Miss(BestRechecked) \in [low : Nat, high : Nat] /\ BestRechecked.key \in Nat
    BY <1>2, MissType, ConstantFacts DEF Typed, RowType
<1>4. Outcome \in {"nothing_to_recheck", "feasible", "rounds_used", "nothing_to_tighten", "limits_cross"}
    BY <1>1 DEF Outcome
<1>5. checked = {} => Outcome = "nothing_to_recheck"
    BY DEF Outcome
<1>6. NoMiss \in [low : Nat, high : Nat]
    BY DEF NoMiss
<1>7. miss \in [low : Nat, high : Nat]
    BY <1>3, <1>5, <1>6
<1> HIDE DEF miss
<1>8. Entry(miss, Searched) \in EntryType
    BY <1>7, SearchedType DEF Entry, EntryType
<1>9. Append(entries, Entry(miss, Searched)) \in Seq(EntryType) /\ Append(entries, Entry(miss, Searched)) # <<>>
    BY <1>8, AppendProperties DEF Typed
<1>10. (IF checked = {} THEN 0 ELSE BestRechecked.key) \in Nat
    BY <1>3
<1>11. file' \in FileType
    BY <1>1, <1>4, <1>9, <1>10 DEF FileType
<1> QED
    BY <1>1, <1>2, <1>7, <1>9, <1>11

\* The step that goes on with another round.
LEMMA NextRoundType ==
    ASSUME Typed, Rechecked, NextRound
    PROVE  /\ BestRechecked \in checked /\ round < scenario.rounds
           /\ Miss(BestRechecked) \in [low : Nat, high : Nat] /\ Miss(BestRechecked) # NoMiss
           /\ Entry(Miss(BestRechecked), Tightened(Searched, Miss(BestRechecked))) \in EntryType
           /\ entries' = Append(entries, Entry(Miss(BestRechecked), Tightened(Searched, Miss(BestRechecked))))
           /\ entries' \in Seq(EntryType)
<1>1. /\ run.at = "recheck" /\ Outcome = "none"
      /\ entries' = Append(entries, Entry(Miss(BestRechecked), Tightened(Searched, Miss(BestRechecked))))
    BY DEF NextRound
<1>2. checked # {} /\ round # scenario.rounds /\ Miss(BestRechecked) # NoMiss
    BY <1>1 DEF Outcome
<1>3. BestRechecked \in checked
    BY <1>1, <1>2, SomethingShown, BestRecheckedIn
<1>4. Miss(BestRechecked) \in [low : Nat, high : Nat]
    BY <1>3, MissType DEF Typed
<1>5. Entry(Miss(BestRechecked), Tightened(Searched, Miss(BestRechecked))) \in EntryType
    BY <1>4, SearchedType, TightenedType DEF Entry, EntryType
<1>6. entries' \in Seq(EntryType)
    BY <1>1, <1>5, AppendProperties DEF Typed
<1>7. round < scenario.rounds
    BY <1>2, ScenarioFacts DEF Typed
<1> QED
    BY <1>1, <1>2, <1>3, <1>4, <1>5, <1>6, <1>7

LEMMA TypedRecipe ==
    ASSUME Typed, Rechecked,
           \/ NextPlainStep \/ EndPlain
           \/ EndSearchOnly \/ Recheck \/ LandCheck \/ EndChecked \/ EndRounds \/ NextRound
    PROVE  Typed'
<1>0. scenario.rounds \in Nat /\ spec \in Limits
    BY ScenarioFacts DEF Typed
<1>1. CASE NextPlainStep
  <2>1. round + 1 \in Nat \ {0} /\ round + 1 \in 1..scenario.rounds
      BY <1>0, <1>1 DEF NextPlainStep, Typed
  <2>2. <<"search", round + 1>> \in StepType
      BY <2>1 DEF StepType
  <2>3. run' \in RunType
      BY <1>1, <2>2 DEF NextPlainStep, Typed, RunType
  <2> QED BY <1>1, <2>1, <2>3 DEF NextPlainStep, Typed
<1>2. CASE EndPlain \/ EndSearchOnly \/ EndChecked
    BY <1>2, IdleType DEF EndPlain, EndSearchOnly, EndChecked, recipeVars, Typed
<1>3. CASE Recheck
  <2>1. Keys(Best(Done, scenario.top)) \subseteq Points /\ checked' \subseteq rows
    <3>1. Done \subseteq rows /\ Reusable(spec, Corners) \subseteq rows
        BY DEF Done, ByStep, OfProblem, Reusable
    <3>2. Best(Done, scenario.top) \subseteq rows
        BY <3>1 DEF Best
    <3>3. checked' \subseteq Reusable(spec, Corners)
        BY <1>3 DEF Recheck
    <3> QED BY <3>1, <3>2, <3>3 DEF Keys, Typed, RowType
  <2>2. <<"signoff", round>> \in StepType
      BY <1>0 DEF StepType, Typed
  <2>3. run' \in RunType
      BY <1>0, <1>3, <2>1, <2>2 DEF Recheck, Typed, RunType
  <2> QED BY <1>3, <2>1, <2>3 DEF Recheck, Typed
<1>4. CASE LandCheck
  <2>1. PICK p \in run.todo : \E got \in Outcomes(p, run.limits, Corners, ~scenario.full) :
            /\ rows' = rows \cup {RowOf(p, got)} /\ checked' = checked \cup {RowOf(p, got)}
            /\ run' = [run EXCEPT !.todo = @ \ {p}]
      BY <1>4 DEF LandCheck
  <2>2. PICK got \in Outcomes(p, run.limits, Corners, ~scenario.full) :
            /\ rows' = rows \cup {RowOf(p, got)} /\ checked' = checked \cup {RowOf(p, got)}
            /\ run' = [run EXCEPT !.todo = @ \ {p}]
      BY <2>1
  <2>3. p \in Points /\ got \in [Corners -> Shown]
      BY OutcomesType DEF Typed, RunType
  <2>4. RowOf(p, got) \in RowType /\ IsFiniteSet(rows \cup {RowOf(p, got)})
      BY <2>3, RowOfType
  <2>5. run' \in RunType
      BY <2>2 DEF Typed, RunType
  <2> QED BY <1>4, <2>2, <2>4, <2>5 DEF LandCheck, Typed
<1>5. CASE EndRounds
    BY <1>5, EndRoundsType, IdleType DEF EndRounds, Typed
<1>6. CASE NextRound
  <2> DEFINE miss == Miss(BestRechecked)
             next == Tightened(Searched, miss)
             searched == ByStep(OfProblem(Searched), <<"search", round>>)
  <2>1. /\ BestRechecked \in checked /\ round < scenario.rounds /\ next \in Limits /\ entries' \in Seq(EntryType)
      BY <1>6, NextRoundType, SearchedType, TightenedType
  <2>2. round + 1 \in Nat \ {0} /\ round + 1 \in 1..scenario.rounds
      BY <1>0, <2>1 DEF Typed
  <2>3. <<"search", round + 1>> \in StepType
      BY <2>2 DEF StepType
  <2>4. Keys(searched) \subseteq Points
      BY DEF Keys, ByStep, OfProblem, Typed, RowType
  <2>5. /\ run' = [run EXCEPT !.at = "begin", !.step = <<"search", round + 1>>, !.limits = next,
                              !.initial = @ \cup Keys(searched)]
        /\ file' = [outcome |-> "none", best |-> BestRechecked.key, rounds |-> entries']
        /\ round' = round + 1 /\ checked' = {}
        /\ UNCHANGED <<scenario, spec, rows, advice, torn, design, adviser, standing, left>>
      BY <1>6 DEF NextRound
  <2> HIDE DEF miss, next, searched
  <2>6. run' \in RunType
      BY <2>1, <2>3, <2>4, <2>5 DEF Typed, RunType
  <2>7. file' \in FileType
    <3>1. BestRechecked.key \in Nat
        BY <2>1, ConstantFacts DEF Typed, RowType
    <3> QED BY <2>1, <2>5, <3>1 DEF FileType
  <2> QED BY <2>1, <2>2, <2>5, <2>6, <2>7 DEF Typed
<1> QED
    BY <1>1, <1>2, <1>3, <1>4, <1>5, <1>6

LEMMA TypedOutside ==
    ASSUME Typed, Start \/ (Outside /\ UNCHANGED recipeVars)
    PROVE  Typed'
<1>0. spec \in Limits /\ scenario.rounds \in Nat \ {0}
    BY ScenarioFacts DEF Typed
<1>1. CASE Start
  <2>1. PICK c \in scenario.calls :
            run' = [Idle EXCEPT !.at = "begin", !.limits = spec, !.budget = c.budget, !.total = c.total]
      BY <1>1 DEF Start, BeginRun
  <2>2. c.budget \in Nat /\ c.total \in Nat
      BY ScenarioFacts DEF Typed
  <2>3. run' \in RunType
      BY <1>0, <2>1, <2>2, IdleType DEF RunType
  <2>4. left' = [left EXCEPT !.runs = @ - 1] /\ left.runs > 0
      BY <1>1 DEF Start, BeginRun
  <2>5. left' \in [runs : Nat, edits : Nat, advices : Nat, crashes : Nat] /\ left'.edits = left.edits
      BY <2>4 DEF Typed
  <2>6. round' \in 1..scenario.rounds /\ checked' = {} /\ entries' \in Seq(EntryType)
      BY <1>0, <1>1, EmptySeq DEF Start
  <2> QED BY <1>1, <2>3, <2>5, <2>6 DEF Start, BeginRun, Typed
<1>2. CASE (CrashRun \/ CrashAdvise \/ Repair) /\ UNCHANGED recipeVars
  <2>1. run' \in RunType /\ torn' \in {"none", "rows", "advice"} /\ adviser' \in AdviceType \cup {<<>>}
      BY <1>2, IdleType DEF CrashRun, CrashAdvise, Repair, Typed
  <2>2. left' \in [runs : Nat, edits : Nat, advices : Nat, crashes : Nat] /\ left'.edits = left.edits
      BY <1>2 DEF CrashRun, CrashAdvise, Repair, Typed
  <2> QED BY <1>2, <2>1, <2>2 DEF CrashRun, CrashAdvise, Repair, recipeVars, Typed
<1>3. CASE EditSpec /\ UNCHANGED recipeVars
  <2>1. left' = [left EXCEPT !.edits = @ - 1] /\ left.edits > 0 /\ scenario.edits \in Nat
      BY <1>3, ScenarioFacts DEF EditSpec, Typed
  <2>2. left' \in [runs : Nat, edits : Nat, advices : Nat, crashes : Nat] /\ left'.edits <= scenario.edits
      BY <2>1 DEF Typed
  <2> QED BY <1>3, <2>2 DEF EditSpec, recipeVars, Typed
<1>4. CASE Advise /\ UNCHANGED recipeVars
  <2>1. adviser' \in AdviceType
      BY <1>4, AdvisedType DEF Advise
  <2>2. left' = [left EXCEPT !.advices = @ - 1] /\ left.advices > 0
      BY <1>4 DEF Advise
  <2>3. left' \in [runs : Nat, edits : Nat, advices : Nat, crashes : Nat] /\ left'.edits = left.edits
      BY <2>2 DEF Typed
  <2> QED BY <1>4, <2>1, <2>3 DEF Advise, recipeVars, Typed
<1>5. CASE AppendAdvice /\ UNCHANGED recipeVars
  <2>1. adviser \in AdviceType /\ advice' = Append(advice, adviser) /\ adviser' = <<>>
      BY <1>5 DEF AppendAdvice, Typed
  <2>2. advice' \in Seq(AdviceType)
      BY <2>1, AppendProperties DEF Typed
  <2>3. \A id \in Nat : /\ DOMAIN With(standing, adviser.limits, id) \subseteq Limits
                        /\ With(standing, adviser.limits, id) \in [DOMAIN With(standing, adviser.limits, id) -> Nat]
      BY <2>1 DEF With, AdviceType, Typed
  <2>4. standing' \in {standing, With(standing, adviser.limits, adviser.id), With(standing, adviser.limits, 0)}
      BY <1>5 DEF AppendAdvice
  <2>5. DOMAIN standing' \subseteq Limits /\ standing' \in [DOMAIN standing' -> Nat]
    <3>1. adviser.id \in Nat /\ 0 \in Nat
        BY <2>1 DEF AdviceType
    <3>2. CASE standing' = standing
        BY <3>2 DEF Typed
    <3>3. CASE \E id \in Nat : standing' = With(standing, adviser.limits, id)
        BY <3>3, <2>3
    <3> QED BY <2>4, <3>1, <3>2, <3>3
  <2> QED BY <1>5, <2>1, <2>2, <2>5 DEF AppendAdvice, recipeVars, Typed
<1> QED
    BY <1>1, <1>2, <1>3, <1>4, <1>5 DEF Outside

LEMMA TypedNext ==
    ASSUME Typed, Rechecked, [Next]_vars
    PROVE  Typed'
<1>1. CASE RunStep
    BY <1>1, TypedSearch, TypedRecipe DEF RunStep
<1>2. CASE Start \/ (Outside /\ UNCHANGED recipeVars)
    BY <1>2, TypedOutside
<1>3. CASE UNCHANGED vars
    BY <1>3 DEF vars, campaignVars, recipeVars, Typed
<1> QED
    BY <1>1, <1>2, <1>3 DEF Next

----------------------------------------------------------------------------
(* A run's course *)

LEMMA CourseInit == Init => Course
<1> SUFFICES ASSUME Init PROVE Course
    OBVIOUS
<1>1. run = Idle /\ adviser = <<>> /\ entries = <<>> /\ round = 1 /\ Len(entries) = 0
    BY EmptySeq DEF Init, CampaignInit
<1> QED
    BY <1>1 DEF Course, Idle

LEMMA CourseSearch ==
    ASSUME Typed, Course, SearchStep, UNCHANGED recipeVars
    PROVE  Course'
<1>0. UNCHANGED <<round, checked, entries, file, scenario, spec, adviser>>
    BY DEF recipeVars, SearchStep, BeginStep, Propose, Land, EndStep, RunRaises
<1>1. Searched' = Searched
    BY <1>0 DEF Searched
<1>2. CASE run' = Idle
    BY <1>0, <1>2 DEF Course, Idle
<1>3. CASE run' # Idle
  <2>1. /\ run.at \in {"begin", "search"} /\ run'.at \in {"search", "recipe"} /\ run'.step = run.step /\ run'.limits = run.limits
        /\ run'.initial = run.initial /\ run'.budget = run.budget /\ run'.total = run.total
        /\ run'.at # "search" => run'.todo = {}
      BY <1>3 DEF SearchStep, BeginStep, Propose, Land, EndStep, RunRaises, Typed, RunType
  <2> QED BY <1>0, <1>1, <2>1 DEF Course
<1> QED
    BY <1>2, <1>3

LEMMA CourseRecipe ==
    ASSUME Typed, Course, Rechecked,
           \/ NextPlainStep \/ EndPlain
           \/ EndSearchOnly \/ Recheck \/ LandCheck \/ EndChecked \/ EndRounds \/ NextRound
    PROVE  Course'
<1>0. UNCHANGED <<scenario, spec, adviser>> /\ round \in Nat
    BY DEF NextPlainStep, EndPlain, EndSearchOnly, Recheck, LandCheck, EndChecked, EndRounds, NextRound, Typed
<1>1. CASE NextPlainStep
  <2>1. /\ run.at = "recipe" /\ scenario.recipe = "steps" /\ round' = round + 1 /\ entries' = entries
        /\ run' = [run EXCEPT !.at = "begin", !.step = <<"search", round + 1>>]
      BY <1>1 DEF NextPlainStep
  <2>2. /\ run'.at = "begin" /\ run'.step = <<"search", round'>> /\ run'.limits = run.limits /\ run'.todo = run.todo
        /\ run'.initial = run.initial /\ run'.budget = run.budget /\ run'.total = run.total
      BY <2>1 DEF Typed, RunType
  <2>3. Searched' = Searched /\ Len(entries') = Len(entries) /\ Len(entries) \in Nat
      BY <1>0, <2>1, LenProperties DEF Searched, Typed
  <2> QED BY <1>0, <2>1, <2>2, <2>3 DEF Course
<1>2. CASE EndPlain \/ EndSearchOnly \/ EndChecked \/ EndRounds
  <2>1. run' = Idle /\ entries' = entries /\ round' = round /\ adviser = <<>>
      BY <1>2 DEF EndPlain, EndSearchOnly, EndChecked, EndRounds, recipeVars, Course
  <2> QED BY <1>0, <2>1 DEF Course, Idle
<1>3. CASE Recheck
  <2>1. /\ run'.at = "recheck" /\ run'.step = <<"signoff", round>> /\ run'.limits = spec
        /\ run'.initial = run.initial /\ run'.budget = run.budget /\ run'.total = run.total
      BY <1>3 DEF Recheck, Typed, RunType
  <2>2. scenario.recipe = "signoff" /\ run.at = "recipe" /\ UNCHANGED <<entries, round>>
      BY <1>3 DEF Recheck
  <2> QED BY <1>0, <2>1, <2>2 DEF Course
<1>4. CASE LandCheck
  <2>1. /\ run.at = "recheck" /\ run'.at = "recheck" /\ run'.step = run.step /\ run'.limits = run.limits
        /\ run'.initial = run.initial /\ run'.budget = run.budget /\ run'.total = run.total
      BY <1>4 DEF LandCheck, Typed, RunType
  <2>2. UNCHANGED <<entries, round>>
      BY <1>4 DEF LandCheck
  <2> QED BY <1>0, <2>1, <2>2 DEF Course
<1>5. CASE NextRound
  <2> DEFINE miss == Miss(BestRechecked)
             next == Tightened(Searched, miss)
             e == Entry(miss, next)
             earlier == Keys(ByStep(OfProblem(Searched), <<"search", round>>))
  <2>1. /\ run.at = "recheck" /\ run.todo = {} /\ round' = round + 1 /\ entries' = Append(entries, e)
        /\ run' = [run EXCEPT !.at = "begin", !.step = <<"search", round + 1>>, !.limits = next, !.initial = @ \cup earlier]
      BY <1>5 DEF NextRound
  <2>2. e \in EntryType /\ e.next = next
    <3>1. e \in EntryType
        BY <1>5, NextRoundType
    <3> QED BY <3>1 DEF Entry
  <2> HIDE DEF earlier, miss, next, e
  <2>3. /\ run'.at = "begin" /\ run'.step = <<"search", round'>> /\ run'.limits = next /\ run'.todo = {}
        /\ run'.budget = run.budget /\ run'.total = run.total
      BY <2>1 DEF Typed, RunType
  <2>4. entries' # <<>> /\ Len(entries') = Len(entries) + 1 /\ entries'[Len(entries')] = e /\ Len(entries) \in Nat
      BY <2>1, <2>2, AppendProperties, LenProperties DEF Typed
  <2>5. Searched' = next
      BY <2>2, <2>4 DEF Searched
  <2>6. scenario.recipe = "signoff" /\ Len(entries) = round - 1 /\ adviser = <<>>
      BY <2>1 DEF Course
  <2>7. \E c \in scenario.calls : run.budget = c.budget /\ run.total = c.total
      BY <2>1 DEF Course
  <2> QED BY <1>0, <2>1, <2>3, <2>4, <2>5, <2>6, <2>7 DEF Course
<1> QED
    BY <1>1, <1>2, <1>3, <1>4, <1>5

LEMMA CourseOutside ==
    ASSUME Typed, Course, Start \/ (Outside /\ UNCHANGED recipeVars)
    PROVE  Course'
<1>1. CASE Start
  <2>1. PICK c \in scenario.calls :
            run' = [Idle EXCEPT !.at = "begin", !.limits = spec, !.budget = c.budget, !.total = c.total]
      BY <1>1 DEF Start, BeginRun
  <2>2. /\ run'.at = "begin" /\ run'.step = <<"search", 1>> /\ run'.limits = spec /\ run'.todo = {} /\ run'.initial = {}
        /\ run'.budget = c.budget /\ run'.total = c.total
      BY <2>1 DEF Idle
  <2>3. round' = 1 /\ entries' = <<>> /\ UNCHANGED <<scenario, spec, adviser>> /\ adviser = <<>> /\ Len(entries') = 0
      BY <1>1, EmptySeq DEF Start, BeginRun, LockFree
  <2>4. Searched' = spec
      BY <2>3 DEF Searched
  <2> QED BY <2>2, <2>3, <2>4 DEF Course
<1>2. CASE Outside /\ UNCHANGED recipeVars
  <2>0. UNCHANGED <<round, entries, scenario>>
      BY <1>2 DEF recipeVars, Outside, CrashRun, CrashAdvise, Repair, EditSpec, Advise, AppendAdvice
  <2>1. CASE CrashRun
    <3>1. run' = Idle /\ adviser = <<>> /\ adviser' = <<>>
        BY <2>1 DEF CrashRun, Course
    <3> QED BY <2>0, <3>1 DEF Course, Idle
  <2>2. CASE CrashAdvise \/ Repair \/ AppendAdvice
    <3>1. run' = run /\ spec' = spec /\ adviser' \in {adviser, <<>>}
        BY <2>2 DEF CrashAdvise, Repair, AppendAdvice
    <3>2. Searched' = Searched
        BY <2>0, <3>1 DEF Searched
    <3> QED BY <2>0, <3>1, <3>2 DEF Course
  <2>3. CASE EditSpec \/ Advise
    <3>1. run' = run /\ run.at = "idle"
        BY <2>3 DEF EditSpec, Advise, LockFree
    <3> QED BY <2>0, <3>1 DEF Course
  <2> QED BY <1>2, <2>1, <2>2, <2>3 DEF Outside
<1> QED
    BY <1>1, <1>2

LEMMA CourseNext ==
    ASSUME Typed, Course, Rechecked, [Next]_vars
    PROVE  Course'
<1>1. CASE RunStep
    BY <1>1, CourseSearch, CourseRecipe DEF RunStep
<1>2. CASE Start \/ (Outside /\ UNCHANGED recipeVars)
    BY <1>2, CourseOutside
<1>3. CASE UNCHANGED vars
    BY <1>3 DEF vars, campaignVars, recipeVars, Course, Searched
<1> QED
    BY <1>1, <1>2, <1>3 DEF Next

----------------------------------------------------------------------------
(* The rows, and the re-check's *)

\* The rows only ever grow, by the row of a point that lands: at the search's corner, or at all in a re-check.
Landed(p, got, corners, stop) ==
    /\ p \in run.todo /\ got \in Outcomes(p, run.limits, corners, stop) /\ rows' = rows \cup {RowOf(p, got)}
    /\ run' = [run EXCEPT !.todo = @ \ {p}]
    /\ UNCHANGED <<scenario, spec, advice, torn, design, adviser, standing, left, round, entries, file>>

LEMMA LandedBy ==
    ASSUME Land /\ UNCHANGED recipeVars
    PROVE  \E p \in run.todo : \E got \in Outcomes(p, run.limits, SearchCorners, FALSE) :
               Landed(p, got, SearchCorners, FALSE) /\ run.at = "search" /\ checked' = checked
<1>0. UNCHANGED <<round, checked, entries, file>>
    BY DEF recipeVars
<1>1. PICK p \in run.todo : \E got \in Outcomes(p, run.limits, SearchCorners, FALSE) :
          rows' = rows \cup {RowOf(p, got)} /\ run' = [run EXCEPT !.todo = @ \ {p}]
    BY DEF Land
<1>2. PICK got \in Outcomes(p, run.limits, SearchCorners, FALSE) :
          rows' = rows \cup {RowOf(p, got)} /\ run' = [run EXCEPT !.todo = @ \ {p}]
    BY <1>1
<1>3. UNCHANGED <<scenario, spec, advice, torn, design, adviser, standing, left>> /\ run.at = "search"
    BY DEF Land
<1>4. Landed(p, got, SearchCorners, FALSE)
    BY <1>0, <1>2, <1>3 DEF Landed
<1> QED
    BY <1>0, <1>3, <1>4

LEMMA LandedByCheck ==
    ASSUME LandCheck
    PROVE  \E p \in run.todo : \E got \in Outcomes(p, run.limits, Corners, ~scenario.full) :
               /\ Landed(p, got, Corners, ~scenario.full) /\ run.at = "recheck"
               /\ checked' = checked \cup {RowOf(p, got)}
<1>1. PICK p \in run.todo : \E got \in Outcomes(p, run.limits, Corners, ~scenario.full) :
          /\ rows' = rows \cup {RowOf(p, got)} /\ checked' = checked \cup {RowOf(p, got)}
          /\ run' = [run EXCEPT !.todo = @ \ {p}]
    BY DEF LandCheck
<1>2. PICK got \in Outcomes(p, run.limits, Corners, ~scenario.full) :
          /\ rows' = rows \cup {RowOf(p, got)} /\ checked' = checked \cup {RowOf(p, got)}
          /\ run' = [run EXCEPT !.todo = @ \ {p}]
    BY <1>1
<1>3. UNCHANGED <<scenario, spec, advice, torn, design, adviser, standing, left, round, entries, file>> /\ run.at = "recheck"
    BY DEF LandCheck
<1>4. Landed(p, got, Corners, ~scenario.full)
    BY <1>2, <1>3 DEF Landed
<1> QED
    BY <1>2, <1>3, <1>4

\* Nothing else touches the rows.
LEMMA RowsNext ==
    ASSUME [Next]_vars
    PROVE  rows' = rows \/ (Land /\ UNCHANGED recipeVars) \/ LandCheck
BY DEF Next, Start, RunStep, Outside, SearchStep, BeginStep, Propose, EndStep, RunRaises, BeginRun, CrashRun, CrashAdvise,
       Repair, EditSpec, Advise, AppendAdvice, NextPlainStep, EndPlain, EndSearchOnly, Recheck, EndChecked, EndRounds,
       NextRound, vars, campaignVars

\* What lands shows at a corner what was known there, if anything was.
LEMMA LandedKnown ==
    ASSUME Typed, Consistent, NEW p, NEW corners \in {SearchCorners, Corners}, NEW stop \in BOOLEAN,
           NEW got \in Outcomes(p, run.limits, corners, stop)
    PROVE  \A s \in rows : \A c \in corners \cap DOMAIN s.got :
               s.key = p /\ got[c] >= 0 /\ s.got[c] >= 0 => got[c] = s.got[c]
<1> SUFFICES ASSUME NEW s \in rows, NEW c \in corners \cap DOMAIN s.got, s.key = p, got[c] >= 0, s.got[c] >= 0
             PROVE  got[c] = s.got[c]
    OBVIOUS
<1>1. s.got[c] \in Known(p, c)
    BY DEF Known
<1>2. got[c] # NotRun /\ got[c] # Failed
    BY DEF NotRun, Failed
<1>3. got[c] \in Measured(p, c)
    BY <1>2, OutcomesType
<1>4. got[c] \in Known(p, c)
    BY <1>1, <1>2, <1>3, MeasuredType
<1>5. PICK q \in rows : q.key = p /\ c \in DOMAIN q.got /\ q.got[c] = got[c]
    BY <1>4 DEF Known
<1>6. c \in DOMAIN q.got \cap DOMAIN s.got /\ q.key = s.key /\ q.got[c] >= 0
    BY <1>5
<1>7. q.got[c] = s.got[c]
    BY <1>6 DEF Consistent
<1> QED
    BY <1>5, <1>7

LEMMA ConsistentLanded ==
    ASSUME Typed, Consistent, NEW corners \in {SearchCorners, Corners}, NEW stop \in BOOLEAN,
           NEW p \in run.todo, NEW got \in Outcomes(p, run.limits, corners, stop), Landed(p, got, corners, stop)
    PROVE  Consistent'
<1> DEFINE new == RowOf(p, got)
<1>1. new.key = p /\ new.got = got /\ DOMAIN got = corners /\ rows' = rows \cup {new}
    BY OutcomesType DEF RowOf, Landed
<1>2. \A s \in rows : \A c \in corners \cap DOMAIN s.got :
          s.key = p /\ got[c] >= 0 /\ s.got[c] >= 0 => got[c] = s.got[c]
    BY LandedKnown
<1> HIDE DEF new
<1>3. SUFFICES ASSUME NEW r \in rows', NEW s \in rows', NEW c \in DOMAIN r.got \cap DOMAIN s.got,
                      r.key = s.key, r.got[c] >= 0, s.got[c] >= 0
               PROVE  r.got[c] = s.got[c]
    BY DEF Consistent
<1>4. CASE r \in rows /\ s \in rows
    BY <1>3, <1>4 DEF Consistent
<1>5. CASE r = new /\ s \in rows
    BY <1>1, <1>2, <1>3, <1>5
<1>6. CASE r \in rows /\ s = new
    BY <1>1, <1>2, <1>3, <1>6
<1> QED
    BY <1>1, <1>4, <1>5, <1>6

LEMMA ConsistentNext ==
    ASSUME Typed, Consistent, [Next]_vars
    PROVE  Consistent'
<1>1. CASE rows' = rows
    BY <1>1 DEF Consistent
<1>2. CASE Land /\ UNCHANGED recipeVars
    BY <1>2, LandedBy, ConsistentLanded
<1>3. CASE LandCheck
    BY <1>3, LandedByCheck, ConsistentLanded
<1> QED
    BY <1>1, <1>2, <1>3, RowsNext

LEMMA RecheckedNext ==
    ASSUME Typed, Course, Rechecked, [Next]_vars
    PROVE  Rechecked'
<1>1. CASE run'.at # "recheck"
    BY <1>1 DEF Rechecked
<1>2. CASE Recheck
  <2>1. /\ spec' = spec /\ checked' = {r \in Reusable(spec, Corners) : r.key \in Keys(Best(Done, scenario.top))}
      BY <1>2 DEF Recheck
  <2>2. \A r \in Reusable(spec, Corners) : r.limits = spec /\ DOMAIN r.got = Corners /\ Feasible(r)
      BY DEF Reusable, OfProblem
  <2>3. \A r \in Reusable(spec, Corners) : r.got[SearchCorner] # NotRun
      BY <2>2, ConstantFacts DEF Feasible, NotRun
  <2> QED BY <2>1, <2>2, <2>3, ConstantFacts DEF Rechecked
<1>3. CASE LandCheck
  <2>1. PICK p \in run.todo : \E got \in Outcomes(p, run.limits, Corners, ~scenario.full) :
            /\ Landed(p, got, Corners, ~scenario.full) /\ run.at = "recheck" /\ checked' = checked \cup {RowOf(p, got)}
      BY <1>3, LandedByCheck
  <2>2. PICK got \in Outcomes(p, run.limits, Corners, ~scenario.full) :
            /\ Landed(p, got, Corners, ~scenario.full) /\ run.at = "recheck" /\ checked' = checked \cup {RowOf(p, got)}
      BY <2>1
  <2>3. DOMAIN got = Corners /\ \E c \in Corners : got[c] # NotRun
      BY OutcomesType
  <2>4. spec' = spec /\ run.limits = spec
      BY <2>2 DEF Landed, Course
  <2>5. RowOf(p, got).limits = spec /\ RowOf(p, got).got = got
      BY <2>4 DEF RowOf
  <2> QED BY <2>2, <2>3, <2>4, <2>5 DEF Rechecked
<1>4. CASE run' = run /\ spec' = spec /\ checked' = checked
    BY <1>4 DEF Rechecked
<1>5. run'.at # "recheck" \/ Recheck \/ LandCheck \/ (run' = run /\ spec' = spec /\ checked' = checked)
  <2>1. CASE SearchStep \/ NextPlainStep \/ EndPlain \/ EndSearchOnly \/ EndChecked \/ EndRounds
    <3>1. run \in RunType /\ Idle.at = "idle"
        BY DEF Typed, Idle
    <3>2. CASE BeginStep \/ Propose \/ Land \/ EndStep
        BY <3>1, <3>2 DEF BeginStep, Propose, Land, EndStep, RunType
    <3>3. CASE NextPlainStep
        BY <3>1, <3>3 DEF NextPlainStep, RunType
    <3>4. CASE RunRaises \/ EndPlain \/ EndSearchOnly \/ EndChecked \/ EndRounds
        BY <3>1, <3>4 DEF RunRaises, EndPlain, EndSearchOnly, EndChecked, EndRounds
    <3> QED BY <2>1, <3>2, <3>3, <3>4 DEF SearchStep
  <2>6. CASE NextRound
    <3>1. run \in RunType
        BY DEF Typed
    <3>2. run'.at = "begin"
        BY <2>6, <3>1 DEF NextRound, RunType
    <3> QED BY <3>2
  <2>2. CASE Start \/ CrashRun
    <3>1. CASE CrashRun
        BY <3>1 DEF CrashRun, Idle
    <3>2. CASE Start
      <4>1. PICK c \in scenario.calls :
                run' = [Idle EXCEPT !.at = "begin", !.limits = spec, !.budget = c.budget, !.total = c.total]
          BY <3>2 DEF Start, BeginRun
      <4>2. run'.at = "begin"
          BY <4>1 DEF Idle
      <4> QED BY <4>2
    <3> QED BY <2>2, <3>1, <3>2
  <2>3. CASE EditSpec
      BY <2>3 DEF EditSpec, LockFree
  <2>4. CASE (CrashAdvise \/ Repair \/ Advise \/ AppendAdvice) /\ UNCHANGED recipeVars
      BY <2>4 DEF CrashAdvise, Repair, Advise, AppendAdvice, recipeVars
  <2>5. CASE UNCHANGED vars
      BY <2>5 DEF vars, campaignVars, recipeVars
  <2> QED BY <2>1, <2>2, <2>3, <2>4, <2>5, <2>6 DEF Next, RunStep, Outside
<1> QED
    BY <1>1, <1>2, <1>3, <1>4, <1>5

----------------------------------------------------------------------------
(* The limits of the rounds *)

LEMMA MovesType ==
    ASSUME NEW rounds \in Seq(EntryType), NEW side \in {"low", "high"}
    PROVE  \A i \in 1..Len(rounds) : rounds[i].miss[side] \in Nat
<1> SUFFICES ASSUME NEW i \in 1..Len(rounds) PROVE rounds[i].miss[side] \in Nat
    OBVIOUS
<1>1. rounds[i] \in EntryType
    BY ElementOfSeq
<1>2. rounds[i].miss \in [low : Nat, high : Nat]
    BY <1>1 DEF EntryType
<1> QED
    BY <1>2

\* One more round moves a limit by its miss.
LEMMA MovesStep ==
    ASSUME Typed, NEW rounds \in Seq(EntryType), NEW side \in {"low", "high"}
    PROVE  /\ Moves(rounds, 0, side) = 0
           /\ \A n \in 0..Len(rounds) : Moves(rounds, n, side) \in Nat
           /\ \A n \in 0..(Len(rounds) - 1) :
                 Moves(rounds, n + 1, side) = Moves(rounds, n, side) + scenario.tighten * rounds[n + 1].miss[side]
<1> DEFINE R == [id : Nat, simulations : Nat]
           Part(i) == [id |-> i, simulations |-> rounds[i].miss[side]]
           S(n) == [i \in 1..n |-> Part(i)]
           U(n) == UNION {{i} \X (1..rounds[i].miss[side]) : i \in 1..n}
<1>1. Rows(R)
    BY DEF Rows
<1>2. scenario.tighten \in Nat /\ Len(rounds) \in Nat
    BY ScenarioFacts, LenProperties DEF Typed
<1>3. \A i \in 1..Len(rounds) : Part(i) \in R /\ Part(i).simulations = rounds[i].miss[side]
    BY MovesType
<1>4. \A n \in 0..Len(rounds) : S(n) \in Seq(R) /\ Len(S(n)) = n
  <2> TAKE n \in 0..Len(rounds)
  <2>1. n \in Nat /\ \A i \in 1..n : i \in 1..Len(rounds)
      BY <1>2
  <2>2. S(n) \in [1..n -> R]
      BY <1>3, <2>1
  <2> HIDE DEF R, Part
  <2> QED BY <2>1, <2>2, IsASeq, LenProperties
<1>5. \A n \in 0..Len(rounds) : SimulationSet(S(n)) = U(n)
  <2> TAKE n \in 0..Len(rounds)
  <2>1. DOMAIN S(n) = 1..n /\ \A i \in 1..n : S(n)[i].simulations = rounds[i].miss[side]
      OBVIOUS
  <2> QED BY <2>1 DEF SimulationSet
<1>6. \A n \in 0..Len(rounds) : Cardinality(U(n)) \in Nat
  <2> HIDE DEF R, S, U
  <2> QED BY <1>1, <1>4, <1>5, SimulationSetFinite
<1>7. \A n \in 0..(Len(rounds) - 1) : Cardinality(U(n + 1)) = Cardinality(U(n)) + rounds[n + 1].miss[side]
  <2> TAKE n \in 0..(Len(rounds) - 1)
  <2>1. n \in 0..Len(rounds) /\ n + 1 \in 0..Len(rounds) /\ n + 1 \in 1..Len(rounds) /\ n \in Nat
      BY <1>2
  <2>2. S(n + 1) = Append(S(n), Part(n + 1))
    <3>1. DOMAIN Append(S(n), Part(n + 1)) = 1..(n + 1)
        BY <1>3, <1>4, <2>1, AppendProperties, LenProperties
    <3>2. \A i \in 1..(n + 1) : Append(S(n), Part(n + 1))[i] = Part(i)
      <4>1. /\ Append(S(n), Part(n + 1))[Len(S(n)) + 1] = Part(n + 1)
            /\ \A i \in 1..Len(S(n)) : Append(S(n), Part(n + 1))[i] = S(n)[i]
          BY <1>3, <1>4, <2>1, AppendProperties
      <4>2. \A i \in 1..n : S(n)[i] = Part(i)
          OBVIOUS
      <4>3. Len(S(n)) = n
          BY <1>4, <2>1
      <4>4. \A i \in 1..(n + 1) : i \in 1..n \/ i = n + 1
          BY <2>1
      <4> HIDE DEF S, Part
      <4> QED BY <4>1, <4>2, <4>3, <4>4
    <3>3. Append(S(n), Part(n + 1)) \in Seq(R)
        BY <1>3, <1>4, <2>1, AppendProperties
    <3>4. Append(S(n), Part(n + 1)) = [i \in 1..(n + 1) |-> Append(S(n), Part(n + 1))[i]]
      <4> HIDE DEF S, Part, R
      <4> QED BY <3>1, <3>3
    <3> QED BY <3>2, <3>4
  <2>3. S(n) \in Seq(R) /\ Part(n + 1) \in R /\ Part(n + 1).simulations = rounds[n + 1].miss[side]
      BY <1>3, <1>4, <2>1
  <2> HIDE DEF R, S, U, Part
  <2>4. Cardinality(SimulationSet(S(n + 1))) = Cardinality(SimulationSet(S(n))) + Part(n + 1).simulations
      BY <1>1, <2>2, <2>3, SimulationSetAppend
  <2> QED BY <1>5, <2>1, <2>3, <2>4
<1>8. Cardinality(U(0)) = 0
  <2>1. U(0) = {}
      OBVIOUS
  <2> QED BY <2>1, FS_EmptySet
<1>9. \A n : Moves(rounds, n, side) = scenario.tighten * Cardinality(U(n))
    BY DEF Moves
<1> HIDE DEF U, S, R, Part
<1>10. \A n \in 0..Len(rounds) : Moves(rounds, n, side) \in Nat
    BY <1>2, <1>6, <1>9, Products
<1>11. \A n \in 0..(Len(rounds) - 1) :
           Moves(rounds, n + 1, side) = Moves(rounds, n, side) + scenario.tighten * rounds[n + 1].miss[side]
  <2> TAKE n \in 0..(Len(rounds) - 1)
  <2>1. n \in 0..Len(rounds) /\ n + 1 \in 1..Len(rounds)
      BY <1>2
  <2>2. Cardinality(U(n)) \in Nat /\ rounds[n + 1].miss[side] \in Nat
      BY <1>6, <2>1, MovesType
  <2>3. \A a, b, c \in Nat : a * (b + c) = a * b + a * c
      OBVIOUS
  <2>4. scenario.tighten * (Cardinality(U(n)) + rounds[n + 1].miss[side])
        = scenario.tighten * Cardinality(U(n)) + scenario.tighten * rounds[n + 1].miss[side]
      BY <1>2, <2>2, <2>3
  <2> QED BY <1>7, <1>9, <2>4
<1> QED
    BY <1>2, <1>8, <1>9, <1>10, <1>11

\* The moves over the rounds two records share are the same.
LEMMA MovesSame ==
    ASSUME NEW n, NEW one, NEW other, \A i \in 1..n : one[i] = other[i], NEW written
    PROVE  After(one, written, n) = After(other, written, n)
BY DEF After, Moves

LEMMA AfterNone ==
    ASSUME Typed, NEW rounds \in Seq(EntryType), NEW written \in Limits
    PROVE  After(rounds, written, 0) = written
<1>1. Moves(rounds, 0, "low") = 0 /\ Moves(rounds, 0, "high") = 0
    BY MovesStep
<1> QED
    BY <1>1 DEF After, Limits

\* The limits a round was searched under are the written ones after the rounds before it.
LEMMA SearchedAfter ==
    ASSUME Typed, Chained, run.at # "idle"
    PROVE  Searched = After(entries, spec, Len(entries)) /\ Len(entries) \in Nat
<1>1. Len(entries) \in Nat /\ (entries = <<>> <=> Len(entries) = 0)
    BY LenProperties, EmptySeq DEF Typed
<1>2. CASE entries = <<>>
  <2>1. Searched = spec
      BY <1>2 DEF Searched
  <2> QED BY <1>1, <1>2, <2>1, AfterNone, ScenarioFacts DEF Typed
<1>3. CASE entries # <<>>
  <2>1. Len(entries) \in 1..Len(entries)
      BY <1>1, <1>3
  <2> QED BY <1>1, <1>3, <2>1 DEF Chained, Searched
<1> QED
    BY <1>2, <1>3

\* But for a round that begins or a call that starts, what a call keeps in memory stays while it runs.
LEMMA MemoryKept ==
    ASSUME Typed, [Next]_vars, ~Start, ~NextRound
    PROVE  /\ entries' = entries /\ scenario' = scenario
           /\ run.at = "idle" => run'.at = "idle"
           /\ spec' = spec \/ (run.at = "idle" /\ left.edits > 0)
<1>1. CASE SearchStep /\ UNCHANGED recipeVars
  <2>1. entries' = entries /\ run.at # "idle" /\ UNCHANGED <<scenario, spec>>
      BY <1>1 DEF SearchStep, BeginStep, Propose, Land, EndStep, RunRaises, recipeVars
  <2> QED BY <2>1
<1>2. CASE NextPlainStep \/ EndPlain \/ EndSearchOnly \/ Recheck \/ LandCheck \/ EndChecked \/ EndRounds
    BY <1>2 DEF NextPlainStep, EndPlain, EndSearchOnly, Recheck, LandCheck, EndChecked, EndRounds, recipeVars
<1>3. CASE Outside /\ UNCHANGED recipeVars
    BY <1>3 DEF Outside, CrashRun, CrashAdvise, Repair, EditSpec, Advise, AppendAdvice, LockFree, recipeVars
<1>4. CASE UNCHANGED vars
    BY <1>4 DEF vars, campaignVars, recipeVars
<1> QED
    BY <1>1, <1>2, <1>3, <1>4 DEF Next, RunStep

LEMMA ChainedNextRound ==
    ASSUME Typed, Course, Rechecked, Chained, NextRound
    PROVE  Chained'
<1> DEFINE miss == Miss(BestRechecked)
           next == Tightened(Searched, miss)
           e == Entry(miss, next)
           n == Len(entries)
<1>1. /\ miss \in [low : Nat, high : Nat] /\ miss # NoMiss /\ e \in EntryType
      /\ entries' = Append(entries, e) /\ entries' \in Seq(EntryType)
    BY NextRoundType
<1>2. run.at = "recheck" /\ UNCHANGED <<scenario, spec>>
    BY DEF NextRound
<1>3. Searched = After(entries, spec, n) /\ n \in Nat
    BY <1>2, SearchedAfter
<1>4. e.searched = Searched /\ e.miss = miss /\ e.next = next
    BY DEF Entry
<1>5. /\ next \in Limits /\ next.low >= Searched.low /\ next.high <= Searched.high
      /\ next.low > Searched.low \/ next.high < Searched.high
    BY <1>1, SearchedType, TightenedType
<1>6. next = [low |-> Searched.low + scenario.tighten * miss.low, high |-> Searched.high - scenario.tighten * miss.high]
    BY DEF Tightened
<1> HIDE DEF miss, next, e, n
<1>7. Len(entries') = n + 1 /\ entries'[n + 1] = e /\ \A i \in 1..n : entries'[i] = entries[i]
    BY <1>1, AppendProperties DEF Typed, n
<1>8. \A i \in 0..n : After(entries', spec, i) = After(entries, spec, i)
  <2> TAKE i \in 0..n
  <2>1. \A j \in 1..i : entries'[j] = entries[j]
      BY <1>3, <1>7
  <2> QED BY <2>1, MovesSame
<1>9. After(entries', spec, n + 1) = next
  <2>1. n \in 0..(Len(entries') - 1)
      BY <1>3, <1>7
  <2>2. /\ Moves(entries', n + 1, "low") = Moves(entries', n, "low") + scenario.tighten * entries'[n + 1].miss["low"]
        /\ Moves(entries', n + 1, "high") = Moves(entries', n, "high") + scenario.tighten * entries'[n + 1].miss["high"]
      BY <1>1, <2>1, MovesStep
  <2>3. Searched = After(entries', spec, n)
      BY <1>3, <1>8
  <2>4. /\ Moves(entries', n, "low") \in Nat /\ Moves(entries', n, "high") \in Nat
    <3>1. n \in 0..Len(entries')
        BY <1>3, <1>7
    <3> QED BY <1>1, <3>1, MovesStep
  <2>5. scenario.tighten * miss.low \in Nat /\ scenario.tighten * miss.high \in Nat
      BY <1>1, ScenarioFacts, Products DEF Typed
  <2>6. spec.low \in Int /\ spec.high \in Int
      BY ScenarioFacts DEF Typed, Limits
  <2>7. entries'[n + 1].miss["low"] = miss.low /\ entries'[n + 1].miss["high"] = miss.high
      BY <1>1, <1>4, <1>7
  <2>8. /\ Searched.low = spec.low + Moves(entries', n, "low") /\ Searched.high = spec.high - Moves(entries', n, "high")
        /\ After(entries', spec, n + 1)
           = [low |-> spec.low + Moves(entries', n + 1, "low"), high |-> spec.high - Moves(entries', n + 1, "high")]
      BY <2>3 DEF After
  <2> QED BY <1>6, <2>2, <2>4, <2>5, <2>6, <2>7, <2>8
<1>10. \A i \in 1..Len(entries') :
           entries'[i].searched = After(entries', spec, i - 1) /\ entries'[i].next = After(entries', spec, i)
  <2> TAKE i \in 1..Len(entries')
  <2>1. CASE i = n + 1
      BY <1>3, <1>4, <1>7, <1>8, <1>9, <2>1
  <2>2. CASE i \in 1..n
    <3>1. entries[i].searched = After(entries, spec, i - 1) /\ entries[i].next = After(entries, spec, i)
        BY <1>2, <2>2 DEF Chained, n
    <3>2. i - 1 \in 0..n /\ i \in 0..n
        BY <1>3, <2>2
    <3> QED BY <1>7, <1>8, <2>2, <3>1, <3>2
  <2> QED BY <1>3, <1>7, <2>1, <2>2
<1>11. Searched' = next
  <2>1. entries' # <<>> /\ entries'[Len(entries')].next = next
      BY <1>3, <1>4, <1>7, EmptySeq
  <2> QED BY <2>1 DEF Searched
<1>12. /\ Searched'.low >= spec.low /\ Searched'.high <= spec.high /\ Searched' # spec
  <2>1. Searched.low >= spec.low /\ Searched.high <= spec.high
      BY <1>2 DEF Chained
  <2>2. Searched \in Limits /\ spec \in Limits
      BY SearchedType, ScenarioFacts DEF Typed
  <2> QED BY <1>5, <1>11, <2>1, <2>2 DEF Limits
<1> QED
    BY <1>2, <1>10, <1>12 DEF Chained, After, Moves

LEMMA ChainedNext ==
    ASSUME Typed, Course, Rechecked, Chained, [Next]_vars
    PROVE  Chained'
<1>1. CASE Start
  <2>1. entries' = <<>> /\ spec' = spec /\ Len(entries') = 0 /\ spec \in Limits
      BY <1>1, EmptySeq, ScenarioFacts DEF Start, BeginRun, Typed
  <2>2. Searched' = spec
      BY <2>1 DEF Searched
  <2>3. 1..Len(entries') = {} /\ Searched'.low >= spec'.low /\ Searched'.high <= spec'.high
      BY <2>1, <2>2 DEF Limits
  <2> QED BY <2>1, <2>3 DEF Chained
<1>2. CASE NextRound
    BY <1>2, ChainedNextRound
<1>3. CASE ~Start /\ ~NextRound
  <2>1. CASE run'.at = "idle"
      BY <2>1 DEF Chained
  <2>2. CASE run'.at # "idle"
    <3>1. UNCHANGED <<entries, scenario, spec>> /\ run.at # "idle"
        BY <1>3, <2>2, MemoryKept
    <3>2. Searched' = Searched
        BY <3>1 DEF Searched
    <3>3. \A n : After(entries, spec, n)' = After(entries, spec, n)
        BY <3>1 DEF After, Moves
    <3> QED BY <3>1, <3>2, <3>3 DEF Chained
  <2> QED BY <2>1, <2>2
<1> QED
    BY <1>1, <1>2, <1>3

----------------------------------------------------------------------------
(* The file *)

LEMMA FileKept ==
    ASSUME Typed, [Next]_vars, ~EndRounds, ~NextRound
    PROVE  file' = file /\ scenario' = scenario /\ (spec' = spec \/ left.edits > 0)
<1>1. file' = file
  <2>1. CASE (SearchStep \/ Outside) /\ UNCHANGED recipeVars
      BY <2>1 DEF recipeVars
  <2>2. CASE Start \/ NextPlainStep \/ EndPlain \/ EndSearchOnly \/ Recheck \/ LandCheck \/ EndChecked
      BY <2>2 DEF Start, NextPlainStep, EndPlain, EndSearchOnly, Recheck, LandCheck, EndChecked, recipeVars
  <2>3. CASE UNCHANGED vars
      BY <2>3 DEF vars, recipeVars
  <2> QED BY <2>1, <2>2, <2>3 DEF Next, RunStep
<1>2. CASE Start
    BY <1>1, <1>2 DEF Start, BeginRun
<1>3. CASE ~Start
    BY <1>1, <1>3, MemoryKept
<1> QED
    BY <1>2, <1>3

\* A file written by a call at work gives each of its rounds the limits written, moved by the misses before it.
LEMMA FileAddsUp ==
    ASSUME Typed, Course, Rechecked, Chained, EndRounds \/ NextRound
    PROVE  LimitsAddUp' /\ Written' = spec
<1> DEFINE n == Len(entries)
<1>1. run.at = "recheck" /\ UNCHANGED <<scenario, spec>>
    BY DEF EndRounds, NextRound
<1>2. Searched = After(entries, spec, n) /\ n \in Nat /\ spec \in Limits
    BY <1>1, SearchedAfter, ScenarioFacts DEF Typed
<1>3. PICK e \in EntryType : file'.rounds = Append(entries, e) /\ e.searched = Searched
  <2>1. CASE EndRounds
    <3>1. PICK miss \in [low : Nat, high : Nat] : file'.rounds = Append(entries, Entry(miss, Searched))
        BY <2>1, EndRoundsType
    <3>2. Entry(miss, Searched) \in EntryType /\ Entry(miss, Searched).searched = Searched
        BY <3>1, SearchedType DEF Entry, EntryType
    <3> QED BY <3>1, <3>2
  <2>2. CASE NextRound
    <3> DEFINE e == Entry(Miss(BestRechecked), Tightened(Searched, Miss(BestRechecked)))
    <3>1. e \in EntryType /\ entries' = Append(entries, e)
        BY <2>2, NextRoundType
    <3>2. file'.rounds = entries'
        BY <2>2 DEF NextRound
    <3>3. e.searched = Searched
        BY DEF Entry
    <3> HIDE DEF e
    <3> QED BY <3>1, <3>2, <3>3
  <2> QED BY <2>1, <2>2
<1> DEFINE rounds == file'.rounds
<1> HIDE DEF n
<1>4. /\ rounds \in Seq(EntryType) /\ Len(rounds) = n + 1 /\ rounds[n + 1] = e /\ \A i \in 1..n : rounds[i] = entries[i]
    BY <1>3, AppendProperties DEF Typed, n
<1>5. \A i \in 1..n : entries[i].searched = After(entries, spec, i - 1) /\ entries[i].next = After(entries, spec, i)
    BY <1>1 DEF Chained, n
<1>6. After(entries, spec, 0) = spec
    BY <1>2, AfterNone DEF Typed
<1> HIDE DEF rounds
<1>7. rounds[1].searched = spec
  <2>1. CASE n = 0
      BY <1>2, <1>3, <1>4, <1>6, <2>1
  <2>2. CASE n # 0
    <3>1. 1 \in 1..n
        BY <1>2, <2>2
    <3> QED BY <1>4, <1>5, <1>6, <3>1
  <2> QED BY <2>1, <2>2
<1>8. \A i \in 1..n : rounds[i].next = After(entries, spec, i) /\ rounds[i + 1].searched = After(entries, spec, i)
  <2> TAKE i \in 1..n
  <2>1. rounds[i].next = After(entries, spec, i)
      BY <1>4, <1>5
  <2>2. CASE i = n
      BY <1>2, <1>3, <1>4, <2>1, <2>2
  <2>3. CASE i # n
    <3>1. i + 1 \in 1..n /\ (i + 1) - 1 = i
        BY <1>2, <2>3
    <3> QED BY <1>4, <1>5, <2>1, <3>1
  <2> QED BY <2>1, <2>2, <2>3
<1>9. \A i \in 1..n : After(rounds, spec, i) = After(entries, spec, i)
  <2> TAKE i \in 1..n
  <2>1. \A j \in 1..i : rounds[j] = entries[j]
      BY <1>2, <1>4
  <2> QED BY <2>1, MovesSame
<1>10. Written' = spec
    BY <1>7 DEF Written, rounds
<1>11. \A i \in 1..n : After(rounds, spec, i) = After(file.rounds, Written, i)'
    BY <1>1, <1>10 DEF After, Moves, rounds
<1>12. 1..(Len(rounds) - 1) = 1..n
    BY <1>2, <1>4
<1>13. \A i \in 1..n : LET next == After(file.rounds, Written, i)'
                       IN  (file.rounds[i].next)' = next /\ (file.rounds[i + 1].searched)' = next
    BY <1>8, <1>9, <1>11 DEF rounds
<1> QED
    BY <1>1, <1>10, <1>12, <1>13 DEF LimitsAddUp, After, rounds

LEMMA LimitsAddUpNext ==
    ASSUME Typed, Course, Rechecked, Chained, LimitsAddUp, [Next]_vars
    PROVE  LimitsAddUp'
<1>1. CASE EndRounds \/ NextRound
    BY <1>1, FileAddsUp
<1>2. CASE ~EndRounds /\ ~NextRound
  <2>1. UNCHANGED <<file, scenario>> /\ (spec' = spec \/ left.edits > 0)
      BY <1>2, FileKept
  <2>2. scenario.edits = 0 => spec' = spec
      BY <2>1, ScenarioFacts DEF Typed
  <2>3. Written' = Written
      BY <2>1 DEF Written
  <2>4. \A n : After(file.rounds, Written, n)' = After(file.rounds, Written, n)
      BY <2>1, <2>3 DEF After, Moves
  <2> QED BY <2>1, <2>2, <2>3, <2>4 DEF LimitsAddUp, After
<1> QED
    BY <1>1, <1>2

\* The best re-checked point, where it is feasible, meets the limits as written at every corner, in every row.
LEMMA FeasibleHolds ==
    ASSUME Typed, Consistent, Rechecked, run.at = "recheck", NEW r \in checked, Feasible(r)
    PROVE  \A c \in Corners : Known(r.key, c) # {} /\ \A v \in Known(r.key, c) : Passes(v, spec)
<1> SUFFICES ASSUME NEW c \in Corners
             PROVE  Known(r.key, c) # {} /\ \A v \in Known(r.key, c) : Passes(v, spec)
    OBVIOUS
<1>1. r \in rows /\ r.limits = spec /\ c \in DOMAIN r.got
    BY DEF Typed, Rechecked
<1>2. Passes(r.got[c], spec) /\ r.got[c] >= 0
    BY <1>1 DEF Feasible
<1>3. r.got[c] \in Known(r.key, c)
    BY <1>1, <1>2 DEF Known
<1>4. \A v \in Known(r.key, c) : v = r.got[c]
  <2> TAKE v \in Known(r.key, c)
  <2>1. PICK q \in rows : q.key = r.key /\ c \in DOMAIN q.got /\ q.got[c] = v /\ v >= 0
      BY DEF Known
  <2>2. c \in DOMAIN q.got \cap DOMAIN r.got
      BY <1>1, <2>1
  <2> QED BY <1>1, <1>2, <2>1, <2>2 DEF Consistent
<1> QED
    BY <1>2, <1>3, <1>4

\* What lands at a corner that has a value adds no other.
LEMMA KnownLanded ==
    ASSUME Typed, NEW corners \in {SearchCorners, Corners}, NEW stop \in BOOLEAN,
           NEW p \in run.todo, NEW got \in Outcomes(p, run.limits, corners, stop), Landed(p, got, corners, stop)
    PROVE  \A q, c : Known(q, c) # {} => Known(q, c)' = Known(q, c)
<1> SUFFICES ASSUME NEW q, NEW c, Known(q, c) # {} PROVE Known(q, c)' = Known(q, c)
    OBVIOUS
<1> DEFINE new == RowOf(p, got)
<1>1. new.key = p /\ new.got = got /\ DOMAIN got = corners /\ rows' = rows \cup {new}
    BY OutcomesType DEF RowOf, Landed
<1> HIDE DEF new
<1>2. \A v \in Known(q, c) : v \in Known(q, c)'
    BY <1>1 DEF Known
<1>3. \A v \in Known(q, c)' : v \in Known(q, c)
  <2> SUFFICES ASSUME NEW v \in Known(q, c)' PROVE v \in Known(q, c)
      OBVIOUS
  <2>1. PICK r \in rows' : r.key = q /\ c \in DOMAIN r.got /\ r.got[c] = v /\ v >= 0
      BY DEF Known
  <2>2. CASE r \in rows
      BY <2>1, <2>2 DEF Known
  <2>3. CASE r = new
    <3>1. q = p /\ c \in corners /\ v = got[c]
        BY <1>1, <2>1, <2>3
    <3>2. got[c] # NotRun /\ got[c] # Failed
        BY <2>1, <3>1 DEF NotRun, Failed
    <3>3. got[c] \in Measured(p, c)
        BY <3>1, <3>2, OutcomesType
    <3> QED BY <3>1, <3>2, <3>3, MeasuredType
  <2> QED BY <1>1, <2>1, <2>2, <2>3
<1> QED
    BY <1>2, <1>3

LEMMA KnownNext ==
    ASSUME Typed, [Next]_vars
    PROVE  \A q, c : Known(q, c) # {} => Known(q, c)' = Known(q, c)
<1>1. CASE rows' = rows
    BY <1>1 DEF Known
<1>2. CASE Land /\ UNCHANGED recipeVars
  <2>1. \E p \in run.todo : \E got \in Outcomes(p, run.limits, SearchCorners, FALSE) : Landed(p, got, SearchCorners, FALSE)
      BY <1>2, LandedBy
  <2> QED BY <2>1, KnownLanded
<1>3. CASE LandCheck
  <2>1. \E p \in run.todo : \E got \in Outcomes(p, run.limits, Corners, ~scenario.full) :
            Landed(p, got, Corners, ~scenario.full)
      BY <1>3, LandedByCheck
  <2> QED BY <2>1, KnownLanded
<1> QED
    BY <1>1, <1>2, <1>3, RowsNext

LEMMA SignedOffHoldsNext ==
    ASSUME Typed, Course, Consistent, Rechecked, Chained, SignedOffHolds, [Next]_vars
    PROVE  SignedOffHolds'
<1>1. CASE EndRounds
  <2> SUFFICES ASSUME file'.outcome = "feasible" PROVE SignedOffHolds'
      BY DEF SignedOffHolds
  <2>1. run.at = "recheck" /\ UNCHANGED <<rows, spec>>
      BY <1>1 DEF EndRounds
  <2>2. Outcome = "feasible"
      BY <1>1, EndRoundsType
  <2>3. checked # {} /\ Feasible(BestRechecked)
      BY <2>2 DEF Outcome
  <2>4. BestRechecked \in checked /\ file'.best = BestRechecked.key
      BY <1>1, <2>3, EndRoundsType
  <2>5. Written' = spec
      BY <1>1, FileAddsUp
  <2>6. \A c \in Corners : /\ Known(file'.best, c) # {}
                           /\ \A v \in Known(file'.best, c) : Passes(v, spec)
      BY <2>1, <2>3, <2>4, FeasibleHolds
  <2>7. \A c : Known(file.best, c)' = Known(file'.best, c)
      BY <2>1 DEF Known
  <2> QED BY <2>5, <2>6, <2>7 DEF SignedOffHolds
<1>2. CASE NextRound
  <2>1. file'.outcome = "none"
      BY <1>2 DEF NextRound
  <2> QED BY <2>1 DEF SignedOffHolds
<1>3. CASE ~EndRounds /\ ~NextRound
  <2> SUFFICES ASSUME file'.outcome = "feasible" PROVE SignedOffHolds'
      BY DEF SignedOffHolds
  <2>1. file' = file /\ Written' = Written
      BY <1>3, FileKept DEF Written
  <2>2. \A c \in Corners : Known(file.best, c) # {} /\ \A v \in Known(file.best, c) : Passes(v, Written)
      BY <2>1 DEF SignedOffHolds
  <2>3. \A c \in Corners : Known(file.best, c)' = Known(file.best, c)
    <3> TAKE c \in Corners
    <3>1. Known(file.best, c) # {}
        BY <2>2
    <3>2. (Known(file.best, c))' = {v \in {r.got[c] : r \in {q \in rows' : q.key = file.best /\ c \in DOMAIN q.got}} : v >= 0}
        BY <2>1 DEF Known
    <3>3. PICK b : b = file.best
        OBVIOUS
    <3> QED BY <2>1, <3>1, <3>2, KnownNext DEF Known
  <2> QED BY <2>1, <2>2, <2>3 DEF SignedOffHolds
<1> QED
    BY <1>1, <1>2, <1>3

----------------------------------------------------------------------------
(* What every run of every recipe keeps *)

Core == Typed /\ Course /\ Consistent /\ Rechecked /\ Chained /\ SignedOffHolds /\ LimitsAddUp

LEMMA CoreInit == Init => Core
<1> SUFFICES ASSUME Init PROVE Core
    OBVIOUS
<1>1. run.at = "idle" /\ rows = {} /\ file = Unwritten
    BY DEF Init, CampaignInit, Idle
<1>2. Rechecked /\ Chained /\ Consistent
    BY <1>1 DEF Rechecked, Chained, Consistent
<1>3. SignedOffHolds /\ LimitsAddUp
  <2>1. file.outcome = "none" /\ file.rounds = <<>> /\ 1..(Len(file.rounds) - 1) = {}
      BY <1>1 DEF Unwritten
  <2> QED BY <2>1 DEF SignedOffHolds, LimitsAddUp
<1> QED
    BY <1>2, <1>3, TypedInit, CourseInit DEF Core

LEMMA CoreNext == Core /\ [Next]_vars => Core'
<1> SUFFICES ASSUME Core, [Next]_vars PROVE Core'
    OBVIOUS
<1>1. Typed /\ Course /\ Consistent /\ Rechecked /\ Chained /\ SignedOffHolds /\ LimitsAddUp
    BY DEF Core
<1> QED
    BY <1>1, TypedNext, CourseNext, ConsistentNext, RecheckedNext, ChainedNext, SignedOffHoldsNext, LimitsAddUpNext DEF Core

LEMMA CoreCorrect == Spec => []Core
BY CoreInit, CoreNext, PTL DEF Spec

\* Whatever the recipe, the calls and the crashes: the state is what TypeOK says, a run holds the project's lock from its start
\* to its end against every advise, and a call has recorded fewer rounds than it is in.
THEOREM TypeCorrect == Spec => []TypeOK
<1>1. Core => TypeOK
  <2> SUFFICES ASSUME Core PROVE TypeOK
      OBVIOUS
  <2>1. Typed /\ Course
      BY DEF Core
  <2>2. \A r \in rows : Row(r)
    <3> TAKE r \in rows
    <3>1. r \in RowType
        BY <2>1 DEF Typed
    <3>2. r.key \in Points /\ r.limits \in Limits /\ r.step[1] \in {"search", "signoff"}
        BY <3>1 DEF RowType, StepType
    <3>3. DOMAIN r.got \in {SearchCorners, Corners}
        BY <3>1 DEF RowType
    <3> QED BY <3>2, <3>3 DEF Row, Keys
  <2>3. run \in RunType
      BY <2>1 DEF Typed
  <2>4. run.at # "idle" => adviser = <<>>
      BY <2>1 DEF Course
  <2> QED BY <2>1, <2>2, <2>3, <2>4 DEF TypeOK, Typed, Course, RunType
<1> QED
    BY <1>1, CoreCorrect, PTL

\* A sign-off stands: a point signoff_rounds.json calls feasible has a value at every corner, and every value any row ever
\* gives it there -- before, after, of another call, step or spec -- lies within the limits as written.
THEOREM SignedOffHoldsCorrect == Spec => []SignedOffHolds
<1>1. Core => SignedOffHolds
    BY DEF Core
<1> QED
    BY <1>1, CoreCorrect, PTL

\* However many rounds, and whenever a call wrote the file: the limits of each round it records are those written, moved by
\* the sum of the misses of the rounds before.
THEOREM LimitsAddUpCorrect == Spec => []LimitsAddUp
<1>1. Core => LimitsAddUp
    BY DEF Core
<1> QED
    BY <1>1, CoreCorrect, PTL

----------------------------------------------------------------------------
(* The initial designs *)

\* The steps that touch a design or a row; any other leaves a search what it has, or ends it.
LEMMA DesignsNext ==
    ASSUME Typed, [Next]_vars
    PROVE  \/ BeginStep /\ UNCHANGED recipeVars
           \/ Land /\ UNCHANGED recipeVars
           \/ LandCheck
           \/ /\ UNCHANGED <<rows, design, scenario>>
              /\ run'.at = "search" =>
                    run.at = "search" /\ run'.step = run.step /\ run'.limits = run.limits /\ run'.design = run.design
<1>0. run \in RunType /\ Idle.at = "idle"
    BY DEF Typed, Idle
<1>1. CASE (Propose \/ EndStep) /\ UNCHANGED recipeVars
    BY <1>0, <1>1 DEF Propose, EndStep, RunType
<1>2. CASE NextPlainStep
    BY <1>0, <1>2 DEF NextPlainStep, RunType
<1>3. CASE RunRaises \/ EndPlain \/ EndSearchOnly \/ EndChecked \/ EndRounds \/ CrashRun
    BY <1>0, <1>3 DEF RunRaises, EndPlain, EndSearchOnly, EndChecked, EndRounds, CrashRun
<1>4. CASE Recheck
    BY <1>0, <1>4 DEF Recheck, RunType
<1>5. CASE NextRound
  <2>1. run'.at = "begin"
      BY <1>0, <1>5 DEF NextRound, RunType
  <2> QED BY <1>5, <2>1 DEF NextRound
<1>6. CASE Start
  <2>1. PICK c \in scenario.calls :
            run' = [Idle EXCEPT !.at = "begin", !.limits = spec, !.budget = c.budget, !.total = c.total]
      BY <1>6 DEF Start, BeginRun
  <2>2. run'.at = "begin"
      BY <2>1 DEF Idle
  <2> QED BY <1>6, <2>2 DEF Start, BeginRun
<1>7. CASE CrashAdvise \/ Repair \/ EditSpec \/ Advise \/ AppendAdvice
    BY <1>7 DEF CrashAdvise, Repair, EditSpec, Advise, AppendAdvice
<1>8. CASE UNCHANGED vars
    BY <1>8 DEF vars, campaignVars
<1> QED
    BY <1>1, <1>2, <1>3, <1>4, <1>5, <1>6, <1>7, <1>8 DEF Next, RunStep, SearchStep, Outside

LEMMA SizedAlikeNext ==
    ASSUME Typed, Course, SizedAlike, [Next]_vars
    PROVE  SizedAlike'
<1> SUFFICES ASSUME OneSize(scenario)' PROVE SizedAlike'
    BY DEF SizedAlike
<1>1. scenario' = scenario
    BY DesignsNext DEF BeginStep, Land, LandCheck
<1>2. OneSize(scenario)
    BY <1>1 DEF OneSize, DesignFor
<1>3. PICK n \in 1..DesignCap :
          /\ \A c \in scenario.calls : DesignFor(c.total) = n
          /\ \A s \in DOMAIN design : design[s] = n
          /\ \A r \in SearchRows : r.design = n
          /\ run.at = "search" => run.design = n
    BY <1>2 DEF SizedAlike
<1> SUFFICES /\ \A s \in DOMAIN design' : design'[s] = n
             /\ \A r \in rows' : r.step[1] = "search" => r.design = n
             /\ run'.at = "search" => run'.design = n
    BY <1>1, <1>3 DEF SizedAlike, SearchRows
<1>4. \A r \in rows : r.step[1] = "search" => r.design = n
    BY <1>3 DEF SearchRows
<1>5. CASE BeginStep
  <2>1. run.at = "begin" /\ rows' = rows /\ run'.design = DesignSize
      BY <1>5 DEF BeginStep, Typed, RunType
  <2>2. DesignSize = n
    <3>1. \E c \in scenario.calls : run.total = c.total
        BY <2>1 DEF Course
    <3> QED BY <1>3, <3>1 DEF DesignSize
  <2>3. design' \in {design, With(design, run.step, n)}
      BY <1>5, <2>2 DEF BeginStep
  <2>4. \A s \in DOMAIN design' : design'[s] = n
      BY <1>3, <2>3 DEF With
  <2> QED BY <1>4, <2>1, <2>2, <2>4
<1>6. CASE Land /\ UNCHANGED recipeVars
  <2>1. PICK p \in run.todo : \E got \in Outcomes(p, run.limits, SearchCorners, FALSE) :
            Landed(p, got, SearchCorners, FALSE) /\ run.at = "search"
      BY <1>6, LandedBy
  <2>2. PICK got \in Outcomes(p, run.limits, SearchCorners, FALSE) : Landed(p, got, SearchCorners, FALSE) /\ run.at = "search"
      BY <2>1
  <2>3. rows' = rows \cup {RowOf(p, got)} /\ design' = design /\ run'.design = run.design
      BY <2>2 DEF Landed, Typed, RunType
  <2>4. RowOf(p, got).design = n
      BY <1>3, <2>2 DEF RowOf
  <2> QED BY <1>3, <1>4, <2>2, <2>3, <2>4
<1>7. CASE LandCheck
  <2>1. PICK p \in run.todo : \E got \in Outcomes(p, run.limits, Corners, ~scenario.full) :
            Landed(p, got, Corners, ~scenario.full) /\ run.at = "recheck"
      BY <1>7, LandedByCheck
  <2>2. PICK got \in Outcomes(p, run.limits, Corners, ~scenario.full) :
            Landed(p, got, Corners, ~scenario.full) /\ run.at = "recheck"
      BY <2>1
  <2>3. rows' = rows \cup {RowOf(p, got)} /\ design' = design /\ run'.at = "recheck"
      BY <2>2 DEF Landed, Typed, RunType
  <2>4. RowOf(p, got).step[1] = "signoff"
      BY <2>2 DEF RowOf, Course
  <2> QED BY <1>3, <1>4, <2>3, <2>4
<1>8. CASE UNCHANGED <<rows, design>> /\ (run'.at = "search" => run.at = "search" /\ run'.design = run.design)
    BY <1>3, <1>4, <1>8
<1> QED
    BY <1>5, <1>6, <1>7, <1>8, DesignsNext

\* Where every step has one problem, a run searches under the spec it began with.
LEMMA OneProblemSearched ==
    ASSUME Typed, Course, OneProblem(scenario), run.at \in {"begin", "search", "recipe"}
    PROVE  run.limits = spec /\ run.step = <<"search", round>>
<1>1. entries = <<>>
  <2>1. CASE scenario.recipe = "steps"
      BY <2>1 DEF Course
  <2>2. CASE scenario.rounds = 1
    <3>1. Len(entries) \in Nat /\ round \in 1..1
        BY <2>2, LenProperties DEF Typed
    <3>2. Len(entries) = 0
        BY <3>1 DEF Course
    <3> QED BY <3>2, EmptySeq DEF Typed
  <2> QED BY <2>1, <2>2 DEF OneProblem
<1> QED
    BY <1>1 DEF Course, Searched

LEMMA SizedOnceNext ==
    ASSUME Typed, Course, SizedOnce, [Next]_vars
    PROVE  SizedOnce'
<1> SUFFICES ASSUME OneProblem(scenario)' PROVE SizedOnce'
    BY DEF SizedOnce
<1>1. scenario' = scenario
    BY DesignsNext DEF BeginStep, Land, LandCheck
<1>2. OneProblem(scenario)
    BY <1>1 DEF OneProblem
<1>3. spec' = spec
  <2>1. left.edits = 0
      BY <1>2, ScenarioFacts DEF Typed, OneProblem
  <2>2. CASE Start \/ NextRound
      BY <2>2 DEF Start, BeginRun, NextRound
  <2> QED BY <2>1, <2>2, MemoryKept
<1>4. \A r \in rows : r.step[1] = "search" => r.limits = spec /\ r.step \in DOMAIN design /\ r.design = design[r.step]
    BY <1>2 DEF SizedOnce, SearchRows
<1> SUFFICES
      /\ \A r \in rows' : r.step[1] = "search" => r.limits = spec /\ r.step \in DOMAIN design' /\ r.design = design'[r.step]
      /\ run'.at = "search" => run'.step \in DOMAIN design' /\ run'.design = design'[run'.step]
    BY <1>3 DEF SizedOnce, SearchRows
<1>5. run.at = "search" => run.step \in DOMAIN design /\ run.design = design[run.step]
    BY <1>2 DEF SizedOnce
<1>6. CASE BeginStep
  <2>1. /\ run.at = "begin" /\ rows' = rows /\ run'.design = DesignSize /\ run'.step = run.step
        /\ design' = IF Done = {} THEN With(design, run.step, DesignSize) ELSE design
      BY <1>6 DEF BeginStep, Typed, RunType
  <2>2. run.limits = spec /\ run.step[1] = "search"
      BY <1>2, <2>1, OneProblemSearched
  <2>3. CASE Done = {}
    <3>1. design' = With(design, run.step, DesignSize)
        BY <2>1, <2>3
    <3>2. run.step \in DOMAIN design' /\ design'[run.step] = DesignSize
        BY <3>1 DEF With
    <3>3. \A s \in DOMAIN design : s # run.step => s \in DOMAIN design' /\ design'[s] = design[s]
        BY <3>1 DEF With
    <3>4. \A r \in rows : r.step[1] = "search" => r.step # run.step
        BY <1>4, <2>2, <2>3 DEF Done, ByStep, OfProblem
    <3> QED BY <1>4, <2>1, <3>2, <3>3, <3>4
  <2>4. CASE Done # {}
    <3>1. PICK r \in rows : r.step = run.step
        BY <2>4 DEF Done, ByStep, OfProblem
    <3>2. run.step \in DOMAIN design
        BY <1>4, <2>2, <3>1
    <3>3. DesignSize = design[run.step] /\ design' = design
        BY <2>1, <2>4, <3>2 DEF DesignSize
    <3> QED BY <1>4, <2>1, <3>2, <3>3
  <2> QED BY <2>3, <2>4
<1>7. CASE Land /\ UNCHANGED recipeVars
  <2>1. PICK p \in run.todo : \E got \in Outcomes(p, run.limits, SearchCorners, FALSE) :
            Landed(p, got, SearchCorners, FALSE) /\ run.at = "search"
      BY <1>7, LandedBy
  <2>2. PICK got \in Outcomes(p, run.limits, SearchCorners, FALSE) : Landed(p, got, SearchCorners, FALSE) /\ run.at = "search"
      BY <2>1
  <2>3. rows' = rows \cup {RowOf(p, got)} /\ design' = design /\ run'.design = run.design /\ run'.step = run.step
      BY <2>2 DEF Landed, Typed, RunType
  <2>4. RowOf(p, got).design = run.design /\ RowOf(p, got).step = run.step /\ RowOf(p, got).limits = spec
      BY <1>2, <2>2, OneProblemSearched DEF RowOf
  <2> QED BY <1>4, <1>5, <2>2, <2>3, <2>4
<1>8. CASE LandCheck
  <2>1. PICK p \in run.todo : \E got \in Outcomes(p, run.limits, Corners, ~scenario.full) :
            Landed(p, got, Corners, ~scenario.full) /\ run.at = "recheck"
      BY <1>8, LandedByCheck
  <2>2. PICK got \in Outcomes(p, run.limits, Corners, ~scenario.full) :
            Landed(p, got, Corners, ~scenario.full) /\ run.at = "recheck"
      BY <2>1
  <2>3. rows' = rows \cup {RowOf(p, got)} /\ design' = design /\ run'.at = "recheck"
      BY <2>2 DEF Landed, Typed, RunType
  <2>4. RowOf(p, got).step[1] = "signoff"
      BY <2>2 DEF RowOf, Course
  <2> QED BY <1>4, <2>3, <2>4
<1>9. CASE UNCHANGED <<rows, design>> /\ (run'.at = "search" =>
               run.at = "search" /\ run'.step = run.step /\ run'.design = run.design)
    BY <1>4, <1>5, <1>9
<1> QED
    BY <1>6, <1>7, <1>8, <1>9, DesignsNext

LEMMA SizedInit == Init => SizedAlike /\ SizedOnce
<1> SUFFICES ASSUME Init PROVE SizedAlike /\ SizedOnce
    OBVIOUS
<1>1. rows = {} /\ DOMAIN design = {} /\ run.at = "idle" /\ scenario \in Scenarios
    BY DEF Init, CampaignInit, Idle
<1>2. SizedOnce
    BY <1>1 DEF SizedOnce, SearchRows
<1>3. OneSize(scenario) => \E n \in 1..DesignCap : \A c \in scenario.calls : DesignFor(c.total) = n
  <2> SUFFICES ASSUME OneSize(scenario) PROVE \E n \in 1..DesignCap : \A c \in scenario.calls : DesignFor(c.total) = n
      OBVIOUS
  <2>1. CASE scenario.calls = {}
      BY <2>1 DEF DesignCap
  <2>2. CASE scenario.calls # {}
    <3>1. PICK c \in scenario.calls : TRUE
        BY <2>2
    <3>2. c.total \in Nat
        BY <1>1, ScenarioFacts
    <3>3. DesignFor(c.total) \in 1..DesignCap
        BY <3>2, DesignForType
    <3> QED BY <3>3 DEF OneSize
  <2> QED BY <2>1, <2>2
<1>4. SizedAlike
    BY <1>1, <1>3 DEF SizedAlike, SearchRows
<1> QED
    BY <1>2, <1>4

\* Where all calls size a design alike, or where a step only ever searches one problem: whatever calls there are, of any
\* budgets, and wherever one is cut, every row of a step was proposed under one size of initial design.  (Without either,
\* steps.json, which names a step and not its problem, can be overwritten between two rows: see the README.)
THEOREM DesignKeptCorrect == OneDesignPerStep => (Spec => []DesignKept)
<1> SUFFICES ASSUME OneDesignPerStep PROVE Spec => []DesignKept
    OBVIOUS
<1>1. Init => SizedAlike /\ SizedOnce
    BY SizedInit
<1>2. Core /\ SizedAlike /\ SizedOnce /\ [Next]_vars => (SizedAlike /\ SizedOnce)'
    BY SizedAlikeNext, SizedOnceNext DEF Core
<1>3. Core /\ SizedAlike /\ SizedOnce => DesignKept
  <2> SUFFICES ASSUME Typed, SizedAlike, SizedOnce PROVE DesignKept
      BY DEF Core
  <2>1. OneSize(scenario) \/ OneProblem(scenario)
      BY DEF OneDesignPerStep, Typed
  <2>2. CASE OneSize(scenario)
      BY <2>2 DEF SizedAlike, DesignKept
  <2>3. CASE OneProblem(scenario)
      BY <2>3 DEF SizedOnce, DesignKept
  <2> QED BY <2>1, <2>2, <2>3
<1> QED
    BY <1>1, <1>2, <1>3, CoreCorrect, PTL DEF Spec

----------------------------------------------------------------------------
(* The advice: appending to the log *)

\* What can be appended: an adoption under a new id, a refusal, or the end of an advice that is in the log.
Appendable(log, row) ==
    /\ row.event = "adopt" => row.id = NextId(log)
    /\ row.event = "revoke" => \E j \in Events(log, "adopt") : log[j].id = row.id /\ log[j].limits = row.limits

\* It becomes the last of its problem's rows, and of its kind; every other row stays where it was.
LEMMA Appended ==
    ASSUME NEW log \in Seq(AdviceType), NEW row \in AdviceType, Identified(log), Appendable(log, row)
    PROVE  LET new == Append(log, row)
               n == Len(log) + 1
           IN  /\ new \in Seq(AdviceType) /\ DOMAIN new = DOMAIN log \cup {n} /\ n \notin DOMAIN log /\ n \in Nat
               /\ new[n] = row /\ \A i \in DOMAIN log : new[i] = log[i] /\ i < n
               /\ \A e : Events(new, e) = Events(log, e) \cup (IF row.event = e THEN {n} ELSE {})
               /\ \A l : AdviceOf(new, l) = AdviceOf(log, l) \cup (IF row.limits = l THEN {n} ELSE {})
<1> DEFINE new == Append(log, row)
           n == Len(log) + 1
<1>1. /\ new \in Seq(AdviceType) /\ DOMAIN new = DOMAIN log \cup {n} /\ n \notin DOMAIN log /\ n \in Nat
      /\ new[n] = row /\ \A i \in DOMAIN log : new[i] = log[i] /\ i < n
  <2>1. Len(log) \in Nat /\ DOMAIN log = 1..Len(log)
      BY LogFacts
  <2>2. new \in Seq(AdviceType) /\ Len(new) = n /\ new[n] = row /\ \A i \in 1..Len(log) : new[i] = log[i]
      BY AppendProperties
  <2>3. DOMAIN new = 1..n /\ n \in Nat
      BY <2>1, <2>2, LenProperties
  <2> QED BY <2>1, <2>2, <2>3
<1> HIDE DEF new, n
<1>2. \A e : Events(new, e) = Events(log, e) \cup (IF row.event = e THEN {n} ELSE {})
    BY <1>1 DEF Events
<1>3. row.event \in {"adopt", "refuse", "revoke"}
    BY DEF AdviceType
<1> SUFFICES ASSUME NEW l PROVE AdviceOf(new, l) = AdviceOf(log, l) \cup (IF row.limits = l THEN {n} ELSE {})
    BY <1>1, <1>2 DEF new, n
<1> DEFINE Own(x) == {i \in DOMAIN x : x[i].event # "revoke" /\ x[i].limits = l}
           Ids(x) == {x[i].id : i \in Own(x) \cap Events(x, "adopt")}
           Ends(x) == {i \in Events(x, "revoke") : x[i].id \in Ids(x)}
<1>4. AdviceOf(new, l) = Own(new) \cup Ends(new) /\ AdviceOf(log, l) = Own(log) \cup Ends(log)
    BY DEF AdviceOf
<1>5. Own(new) = Own(log) \cup (IF row.event # "revoke" /\ row.limits = l THEN {n} ELSE {})
    BY <1>1
<1>6. /\ \A id \in Ids(log) : \E i \in Events(log, "adopt") : log[i].id = id /\ log[i].limits = l
      /\ \A i \in Events(log, "adopt") : log[i].limits = l => log[i].id \in Ids(log)
    BY DEF Events
<1>7. Ids(new) = Ids(log) \cup (IF row.event = "adopt" /\ row.limits = l THEN {row.id} ELSE {})
  <2>1. Own(log) \subseteq DOMAIN log /\ Events(log, "adopt") \subseteq DOMAIN log
      BY DEF Events
  <2>2. Own(new) \cap Events(new, "adopt")
        = (Own(log) \cap Events(log, "adopt")) \cup (IF row.event = "adopt" /\ row.limits = l THEN {n} ELSE {})
      BY <1>1, <1>2, <1>5, <2>1
  <2>3. \A i \in Own(log) \cap Events(log, "adopt") : new[i].id = log[i].id
      BY <1>1, <2>1
  <2> DEFINE both == Own(log) \cap Events(log, "adopt")
  <2>4. Ids(new) = {new[i].id : i \in Own(new) \cap Events(new, "adopt")} /\ Ids(log) = {log[i].id : i \in both}
      OBVIOUS
  <2> HIDE DEF Own, Ids, both
  <2>5. CASE row.event = "adopt" /\ row.limits = l
    <3>1. Own(new) \cap Events(new, "adopt") = both \cup {n}
        BY <2>2, <2>5 DEF both
    <3> QED BY <1>1, <2>3, <2>4, <2>5, <3>1 DEF both
  <2>6. CASE ~(row.event = "adopt" /\ row.limits = l)
    <3>1. Own(new) \cap Events(new, "adopt") = both
        BY <2>2, <2>6 DEF both
    <3> QED BY <2>3, <2>4, <2>6, <3>1 DEF both
  <2> QED BY <2>5, <2>6
<1>8. Ends(new) = Ends(log) \cup (IF row.event = "revoke" /\ row.limits = l THEN {n} ELSE {})
  <2>1. \A i \in Events(log, "revoke") : i \in DOMAIN log /\ new[i].id = log[i].id
      BY <1>1 DEF Events
  <2>2. \A i \in Events(log, "revoke") : log[i].id \in Ids(new) <=> log[i].id \in Ids(log)
    <3> TAKE i \in Events(log, "revoke")
    <3>1. PICK j \in Events(log, "adopt") : log[j].id = log[i].id
        BY DEF Identified
    <3>2. row.event = "adopt" => log[i].id # row.id
      <4>1. Cardinality(Events(log, "adopt")) \in Nat
          BY LogFacts
      <4>2. log[j].id \in 1..Cardinality(Events(log, "adopt"))
          BY DEF Identified
      <4> QED BY <3>1, <4>1, <4>2 DEF Appendable, NextId
    <3> HIDE DEF Ids
    <3> QED BY <1>7, <3>2
  <2>3. row.event = "revoke" => (row.id \in Ids(log) <=> row.limits = l)
    <3> SUFFICES ASSUME row.event = "revoke" PROVE row.id \in Ids(log) <=> row.limits = l
        OBVIOUS
    <3>1. PICK j \in Events(log, "adopt") : log[j].id = row.id /\ log[j].limits = row.limits
        BY DEF Appendable
    <3>2. \A i \in Events(log, "adopt") : log[i].id = row.id => i = j
        BY <3>1 DEF Identified
    <3> HIDE DEF Ids
    <3> QED BY <1>6, <3>1, <3>2
  <2> HIDE DEF Ids
  <2>4. row.event = "revoke" => (row.id \in Ids(new) <=> row.limits = l)
      BY <1>7, <2>3
  <2> QED BY <1>1, <1>2, <2>1, <2>2, <2>4
<1> HIDE DEF Own, Ends
<1> QED
    BY <1>3, <1>4, <1>5, <1>8

\* Of places both have, two logs say the same.
LEMMA SamePlaces ==
    ASSUME NEW log, NEW new, NEW places, \A i \in places : new[i] = log[i],
           \A e : places \cap Events(new, e) = places \cap Events(log, e)
    PROVE  /\ LastAdopted(new, places) = LastAdopted(log, places)
           /\ LastAdopted(log, places) \in places => (Ended(new, places) <=> Ended(log, places))
           /\ LastAdopted(log, places) \in places => new[LastAdopted(new, places)] = log[LastAdopted(log, places)]
<1>1. LastAdopted(new, places) = LastAdopted(log, places)
    BY DEF LastAdopted
<1>2. \A i \in places \cap Events(log, "revoke") : new[i].id = log[i].id
    OBVIOUS
<1>3. LastAdopted(log, places) \in places => (Ended(new, places) <=> Ended(log, places))
    BY <1>1, <1>2 DEF Ended
<1> QED
    BY <1>1, <1>3

\* What stood at a history stands there still, but for rows given at most at that history.
LEMMA InEffectAppended ==
    ASSUME NEW log \in Seq(AdviceType), NEW row \in AdviceType, Identified(log), Appendable(log, row),
           NEW l, NEW k \in Nat, row.limits # l \/ k < row.since
    PROVE  InEffect(Append(log, row), l, k) = InEffect(log, l, k)
<1> DEFINE new == Append(log, row)
           n == Len(log) + 1
           Places(x) == {i \in AdviceOf(x, l) : x[i].since <= k}
           places == Places(log)
<1>1. /\ DOMAIN new = DOMAIN log \cup {n} /\ n \notin DOMAIN log
      /\ new[n] = row /\ \A i \in DOMAIN log : new[i] = log[i] /\ i < n
      /\ \A e : Events(new, e) = Events(log, e) \cup (IF row.event = e THEN {n} ELSE {})
      /\ AdviceOf(new, l) = AdviceOf(log, l) \cup (IF row.limits = l THEN {n} ELSE {})
    BY Appended
<1>2. AdviceOf(log, l) \subseteq DOMAIN log /\ row.since \in Nat
    BY LogFacts DEF AdviceType
<1> HIDE DEF new, n
<1>3. Places(new) = places
    BY <1>1, <1>2
<1>4. places \subseteq DOMAIN log
    BY <1>2
<1> HIDE DEF Places, places
<1>5. /\ \A i \in places : new[i] = log[i]
      /\ \A e : places \cap Events(new, e) = places \cap Events(log, e)
    BY <1>1, <1>4
<1>6. places \cap Events(log, "adopt") # {} => LastAdopted(log, places) \in places
    BY <1>4, LastAdoptedIn
<1>7. /\ LastAdopted(new, places) = LastAdopted(log, places)
      /\ places \cap Events(log, "adopt") # {} =>
            (Ended(new, places) <=> Ended(log, places)) /\ new[LastAdopted(new, places)] = log[LastAdopted(log, places)]
    BY <1>5, <1>6, SamePlaces
<1>8. /\ InEffect(new, l, k) = IF places \cap Events(new, "adopt") = {} \/ Ended(new, places) THEN NoAdvice
                               ELSE new[LastAdopted(new, places)]
      /\ InEffect(log, l, k) = IF places \cap Events(log, "adopt") = {} \/ Ended(log, places) THEN NoAdvice
                               ELSE log[LastAdopted(log, places)]
    BY <1>3 DEF InEffect, Places, places
<1>9. InEffect(new, l, k) = InEffect(log, l, k)
    BY <1>5, <1>7, <1>8
<1> QED
    BY <1>9 DEF new

\* The advice that stands after an advise: an adopted one, none after a revoke, and else the one before.
LEMMA LastOfAppended ==
    ASSUME NEW log \in Seq(AdviceType), NEW row \in AdviceType, Identified(log), Appendable(log, row),
           LET own == AdviceOf(log, row.limits)
           IN  row.event = "revoke" => own \cap Events(log, "adopt") # {} /\ row.id = log[LastAdopted(log, own)].id,
           NEW l
    PROVE  LastOf(Append(log, row), l) = IF row.limits # l \/ row.event = "refuse" THEN LastOf(log, l)
                                         ELSE IF row.event = "adopt" THEN row.id ELSE 0
<1> DEFINE new == Append(log, row)
           n == Len(log) + 1
           own == AdviceOf(log, l)
           own2 == AdviceOf(new, l)
<1>1. /\ new \in Seq(AdviceType) /\ DOMAIN new = DOMAIN log \cup {n} /\ n \notin DOMAIN log /\ n \in Nat
      /\ new[n] = row /\ \A i \in DOMAIN log : new[i] = log[i] /\ i < n
      /\ \A e : Events(new, e) = Events(log, e) \cup (IF row.event = e THEN {n} ELSE {})
      /\ own2 = own \cup (IF row.limits = l THEN {n} ELSE {})
    BY Appended
<1>2. own \subseteq DOMAIN log /\ own2 \subseteq DOMAIN new /\ \A e : Events(log, e) \subseteq DOMAIN log
    BY <1>1, LogFacts
<1>3. /\ LastOf(new, l) = IF own2 \cap Events(new, "adopt") = {} \/ Ended(new, own2) THEN 0 ELSE new[LastAdopted(new, own2)].id
      /\ LastOf(log, l) = IF own \cap Events(log, "adopt") = {} \/ Ended(log, own) THEN 0 ELSE log[LastAdopted(log, own)].id
    BY DEF LastOf
<1>4. row.event \in {"adopt", "refuse", "revoke"}
    BY DEF AdviceType
<1>5. own \cap Events(log, "adopt") # {} => LastAdopted(log, own) \in own \cap Events(log, "adopt")
    BY <1>2, LastAdoptedIn
<1> HIDE DEF new, n, own2
<1>6. \A e : own \cap Events(new, e) = own \cap Events(log, e)
  <2> HIDE DEF own
  <2> QED BY <1>1, <1>2
<1>7. own \cap Events(log, "adopt") # {} =>
          /\ (Ended(new, own) <=> Ended(log, own)) /\ new[LastAdopted(new, own)] = log[LastAdopted(log, own)]
          /\ LastAdopted(new, own) = LastAdopted(log, own)
  <2>1. \A i \in own : new[i] = log[i]
      BY <1>1, <1>2
  <2> HIDE DEF own
  <2> QED BY <1>5, <1>6, <2>1, SamePlaces
<1>8. CASE row.limits # l
  <2>1. own2 = own
      BY <1>1, <1>8
  <2> HIDE DEF own
  <2> QED BY <1>3, <1>6, <1>7, <1>8, <2>1 DEF new
<1>9. CASE row.limits = l /\ row.event = "refuse"
  <2>1. own2 \cap Events(new, "adopt") = own \cap Events(new, "adopt") /\ own2 \cap Events(new, "revoke") = own \cap Events(new, "revoke")
    <3> HIDE DEF own
    <3> QED BY <1>1, <1>2, <1>9
  <2>2. LastAdopted(new, own2) = LastAdopted(new, own)
      BY <2>1 DEF LastAdopted
  <2>3. Ended(new, own2) <=> Ended(new, own)
      BY <2>1, <2>2 DEF Ended
  <2> HIDE DEF own
  <2> QED BY <1>3, <1>6, <1>7, <1>9, <2>1, <2>2, <2>3 DEF new
<1>10. CASE row.limits = l /\ row.event = "adopt"
  <2>1. n \in own2 \cap Events(new, "adopt")
      BY <1>1, <1>10
  <2>2. LastAdopted(new, own2) \in DOMAIN new /\ n <= LastAdopted(new, own2)
      BY <1>1, <1>2, <2>1, LastAdoptedIn
  <2>3. LastAdopted(new, own2) = n
    <3>1. DOMAIN log \subseteq Nat
        BY LogFacts
    <3> QED BY <1>1, <2>2, <3>1
  <2>4. ~Ended(new, own2)
    <3> SUFFICES ASSUME NEW i \in own2 \cap Events(new, "revoke"), new[i].id = row.id PROVE FALSE
        BY <1>1, <2>3 DEF Ended
    <3>1. i \in Events(log, "revoke") /\ i \in DOMAIN log
        BY <1>1, <1>10 DEF Events
    <3>2. PICK j \in Events(log, "adopt") : log[j].id = log[i].id
        BY <3>1 DEF Identified
    <3>3. Cardinality(Events(log, "adopt")) \in Nat
        BY LogFacts
    <3>4. log[j].id \in 1..Cardinality(Events(log, "adopt"))
        BY DEF Identified
    <3> QED BY <1>1, <1>10, <3>1, <3>2, <3>3, <3>4 DEF Appendable, NextId
  <2> QED BY <1>1, <1>3, <1>10, <2>1, <2>3, <2>4 DEF new
<1>11. CASE row.limits = l /\ row.event = "revoke"
  <2>1. own2 \cap Events(new, "adopt") = own \cap Events(new, "adopt")
    <3> HIDE DEF own
    <3> QED BY <1>1, <1>2, <1>11
  <2>2. LastAdopted(new, own2) = LastAdopted(new, own)
      BY <2>1 DEF LastAdopted
  <2>3. own \cap Events(log, "adopt") # {} /\ row.id = log[LastAdopted(log, own)].id
      BY <1>11
  <2>4. n \in own2 \cap Events(new, "revoke") /\ new[n].id = new[LastAdopted(new, own2)].id
      BY <1>1, <1>7, <1>11, <2>2, <2>3
  <2>5. Ended(new, own2)
      BY <2>4 DEF Ended
  <2> QED BY <1>3, <1>11, <2>5 DEF new
<1> QED
    BY <1>4, <1>8, <1>9, <1>10, <1>11

----------------------------------------------------------------------------
(* The advice: what is pending, what is in the log, and what stands *)

LEMMA HistoryGrows ==
    ASSUME Typed, Typed', rows \subseteq rows'
    PROVE  \A l : History(l) \in Nat /\ History(l)' \in Nat /\ History(l) <= History(l)'
<1> SUFFICES ASSUME NEW l PROVE History(l) \in Nat /\ History(l)' \in Nat /\ History(l) <= History(l)'
    OBVIOUS
<1> DEFINE old == AtCorners(OfProblem(l), SearchCorners)
           new == AtCorners({r \in rows' : r.limits = l}, SearchCorners)
<1>1. old \subseteq new /\ new \subseteq rows'
    BY DEF AtCorners, OfProblem
<1>2. IsFiniteSet(new)
    BY <1>1, FS_Subset DEF Typed
<1>3. Cardinality(old) \in Nat /\ Cardinality(new) \in Nat /\ Cardinality(old) <= Cardinality(new)
    BY <1>1, <1>2, FS_Subset, FS_CardinalityType
<1>4. History(l) = Cardinality(old) /\ History(l)' = Cardinality(new)
    BY DEF History, HistoryIn, OfProblem
<1> QED
    BY <1>3, <1>4

\* What was adopted among a problem's rows was adopted for it.
LEMMA AdoptedFor ==
    ASSUME NEW log, NEW l, NEW j \in AdviceOf(log, l) \cap Events(log, "adopt")
    PROVE  log[j].limits = l
<1>1. log[j].event = "adopt" /\ j \notin Events(log, "revoke")
    BY DEF Events
<1> QED
    BY <1>1 DEF AdviceOf

\* The row an advise is about to append can be appended, at the history of the spec.
LEMMA PendingFacts ==
    ASSUME Typed, Log, Pending, adviser # <<>>
    PROVE  /\ adviser \in AdviceType /\ adviser.limits = spec /\ adviser.since = History(spec)
           /\ Identified(advice) /\ Appendable(advice, adviser)
           /\ LET own == AdviceOf(advice, adviser.limits)
              IN  adviser.event = "revoke" =>
                      own \cap Events(advice, "adopt") # {} /\ adviser.id = advice[LastAdopted(advice, own)].id
<1>1. adviser \in {Adoption(s) : s \in scenario.starts} \cup {Refusal} \cup Revocations
    BY DEF Pending
<1>2. adviser \in AdviceType
    BY DEF Typed
<1>3. HistorySize = History(spec)
    BY AdvisedType
<1>4. CASE adviser \in {Adoption(s) : s \in scenario.starts} \cup {Refusal}
  <2>1. /\ adviser.event # "revoke" /\ adviser.limits = spec /\ adviser.since = HistorySize
        /\ adviser.event = "adopt" => adviser.id = NextId(advice)
      BY <1>4 DEF Adoption, Refusal
  <2> QED BY <1>2, <1>3, <2>1 DEF Appendable, Log
<1>5. CASE adviser \in Revocations
  <2> DEFINE own == AdviceOf(advice, spec)
             j == LastAdopted(advice, own)
  <2>1. /\ adviser.event = "revoke" /\ adviser.id = advice[j].id /\ adviser.since = HistorySize /\ adviser.limits = spec
        /\ own \cap Events(advice, "adopt") # {}
      BY <1>5, AdvisedType
  <2>6. advice \in Seq(AdviceType)
      BY DEF Typed
  <2>2. own \subseteq DOMAIN advice
      BY <2>6, LogFacts
  <2>3. j \in own \cap Events(advice, "adopt")
      BY <2>1, <2>2, <2>6, LastAdoptedIn
  <2>4. advice[j].limits = spec
      BY <2>3, AdoptedFor
  <2> HIDE DEF j, own
  <2>5. Appendable(advice, adviser)
      BY <2>1, <2>3, <2>4 DEF Appendable
  <2> QED BY <1>2, <1>3, <2>1, <2>5 DEF Log, own, j
<1> QED
    BY <1>1, <1>4, <1>5

\* Nobody but an advise appends advice, and while one is under way nothing it has read changes.
LEMMA AdviceNext ==
    ASSUME Typed, Course, [Next]_vars
    PROVE  /\ rows \subseteq rows'
           /\ ~AppendAdvice => UNCHANGED <<advice, standing>>
           /\ adviser' \in {<<>>, adviser} \/ Advise
           /\ adviser' # <<>> => UNCHANGED <<rows, advice, spec, scenario>> /\ (adviser' = adviser \/ Advise)
<1>1. rows \subseteq rows'
    BY RowsNext, LandedBy, LandedByCheck DEF Landed
<1>2. CASE RunStep
  <2>1. run.at # "idle" /\ adviser' = adviser /\ UNCHANGED <<advice, standing>>
    <3>1. CASE SearchStep
        BY <3>1 DEF SearchStep, BeginStep, Propose, Land, EndStep, RunRaises
    <3>2. CASE ~SearchStep
        BY <1>2, <3>2 DEF RunStep, NextPlainStep, EndPlain, EndSearchOnly, Recheck, LandCheck, EndChecked, EndRounds, NextRound
    <3> QED BY <3>1, <3>2
  <2> QED BY <1>1, <2>1 DEF Course
<1>3. CASE Start
    BY <1>1, <1>3 DEF Start, BeginRun, LockFree
<1>4. CASE CrashRun
    BY <1>1, <1>4 DEF CrashRun, Course
<1>5. CASE CrashAdvise \/ Repair \/ EditSpec
    BY <1>1, <1>5 DEF CrashAdvise, Repair, EditSpec, LockFree
<1>6. CASE Advise \/ AppendAdvice
    BY <1>1, <1>6 DEF Advise, AppendAdvice
<1>7. CASE UNCHANGED vars
    BY <1>1, <1>7 DEF vars, campaignVars
<1> QED
    BY <1>2, <1>3, <1>4, <1>5, <1>6, <1>7 DEF Next, Outside

LEMMA PendingNext ==
    ASSUME Typed, Course, Pending, [Next]_vars
    PROVE  Pending'
<1> SUFFICES ASSUME adviser' # <<>>
             PROVE  adviser' \in ({Adoption(s) : s \in scenario.starts} \cup {Refusal} \cup Revocations)'
    BY DEF Pending
<1>1. UNCHANGED <<rows, advice, spec, scenario>> /\ (adviser' = adviser \/ Advise)
    BY AdviceNext
<1>2. adviser' \in {Adoption(s) : s \in scenario.starts} \cup {Refusal} \cup Revocations
    BY <1>1 DEF Pending, Advise
<1>3. HistorySize' = HistorySize
    BY <1>1 DEF HistorySize, OfProblem, AtCorners
<1>4. \A s \in scenario.starts : Adoption(s)' = Adoption(s)
    BY <1>1, <1>3 DEF Adoption, NextId, Events
<1>5. Refusal' = Refusal
    BY <1>1, <1>3 DEF Refusal, NextRefusal, Events
<1>6. Revocations' = Revocations
  <2>1. AdviceOf(advice, spec)' = AdviceOf(advice, spec)
      BY <1>1 DEF AdviceOf, Events
  <2>2. /\ Ended(advice, AdviceOf(advice, spec))' = Ended(advice, AdviceOf(advice, spec))
        /\ LastAdopted(advice, AdviceOf(advice, spec))' = LastAdopted(advice, AdviceOf(advice, spec))
        /\ Events(advice, "adopt")' = Events(advice, "adopt")
      BY <1>1, <2>1 DEF Ended, LastAdopted, Events
  <2> QED BY <1>1, <1>3, <2>1, <2>2 DEF Revocations
<1> QED
    BY <1>1, <1>2, <1>4, <1>5, <1>6

LEMMA IdentifiedAppended ==
    ASSUME NEW log \in Seq(AdviceType), NEW row \in AdviceType, Identified(log), Appendable(log, row)
    PROVE  Identified(Append(log, row))
<1> DEFINE new == Append(log, row)
           n == Len(log) + 1
           old == Events(log, "adopt")
<1>1. /\ DOMAIN new = DOMAIN log \cup {n} /\ n \notin DOMAIN log
      /\ new[n] = row /\ \A i \in DOMAIN log : new[i] = log[i]
      /\ \A e : Events(new, e) = Events(log, e) \cup (IF row.event = e THEN {n} ELSE {})
    BY Appended
<1>2. \A e : Events(log, e) \subseteq DOMAIN log
    BY LogFacts
<1>3. IsFiniteSet(old) /\ Cardinality(old) \in Nat /\ n \notin old
    BY <1>1, <1>2, LogFacts
<1> HIDE DEF new, n
<1>4. CASE row.event = "adopt"
  <2>1. Events(new, "adopt") = old \cup {n} /\ Cardinality(old \cup {n}) = Cardinality(old) + 1
      BY <1>1, <1>3, <1>4, FS_AddElement
  <2>2. new[n].id = Cardinality(old) + 1
      BY <1>1, <1>3, <1>4 DEF Appendable, NextId
  <2>3. \A i \in old : new[i] = log[i] /\ log[i].id \in 1..Cardinality(old)
      BY <1>1, <1>2 DEF Identified
  <2> DEFINE C == Cardinality(old)
  <2>8. C \in Nat /\ \A x \in 1..C : x \in 1..(C + 1)
      BY <1>3
  <2>9. C + 1 \in 1..(C + 1)
      BY <2>8
  <2> HIDE DEF C, old
  <2>4. \A i \in Events(new, "adopt") : new[i].id \in 1..Cardinality(Events(new, "adopt"))
    <3>1. \A i \in old : new[i].id \in 1..(C + 1)
        BY <2>3, <2>8 DEF C
    <3>2. new[n].id \in 1..(C + 1) /\ Cardinality(Events(new, "adopt")) = C + 1
        BY <2>1, <2>2, <2>9 DEF C
    <3> QED BY <2>1, <3>1, <3>2
  <2> USE DEF old
  <2>5. \A i, j \in Events(new, "adopt") : new[i].id = new[j].id => i = j
    <3> SUFFICES ASSUME NEW i \in old \cup {n}, NEW j \in old \cup {n}, new[i].id = new[j].id PROVE i = j
        BY <2>1
    <3>1. \A x \in old : new[x].id # new[n].id
        BY <1>3, <2>2, <2>3
    <3>2. i \in old /\ j \in old => i = j
        BY <2>3 DEF Identified
    <3> QED BY <3>1, <3>2
  <2>6. Events(new, "revoke") = Events(log, "revoke")
      BY <1>1, <1>4
  <2>7. \A i \in Events(new, "revoke") : \E j \in Events(new, "adopt") : new[j].id = new[i].id /\ new[j].limits = new[i].limits
    <3> TAKE i \in Events(new, "revoke")
    <3>1. PICK j \in old : log[j].id = log[i].id /\ log[j].limits = log[i].limits
        BY <2>6 DEF Identified
    <3>2. new[i] = log[i] /\ new[j] = log[j]
        BY <1>1, <1>2, <2>6
    <3> QED BY <2>1, <3>1, <3>2
  <2> QED BY <2>4, <2>5, <2>7 DEF Identified, new
<1>5. CASE row.event # "adopt"
  <2>1. Events(new, "adopt") = old
      BY <1>1, <1>5
  <2>2. \A i \in old : new[i] = log[i]
      BY <1>1, <1>2
  <2>3. \A i \in Events(new, "revoke") : \E j \in old : new[j].id = new[i].id /\ new[j].limits = new[i].limits
    <3> TAKE i \in Events(new, "revoke")
    <3>1. CASE i \in Events(log, "revoke")
      <4>1. PICK j \in old : log[j].id = log[i].id /\ log[j].limits = log[i].limits
          BY <3>1 DEF Identified
      <4> QED BY <1>1, <1>2, <2>2, <3>1, <4>1
    <3>2. CASE i = n /\ row.event = "revoke"
      <4>1. PICK j \in old : log[j].id = row.id /\ log[j].limits = row.limits
          BY <3>2 DEF Appendable
      <4> QED BY <1>1, <2>2, <3>2, <4>1
    <3> QED BY <1>1, <3>1, <3>2
  <2>4. /\ \A i \in old : new[i].id \in 1..Cardinality(old)
        /\ \A i, j \in old : new[i].id = new[j].id => i = j
      BY <2>2 DEF Identified
  <2> QED BY <2>1, <2>3, <2>4 DEF Identified, new
<1> QED
    BY <1>4, <1>5

LEMMA LogNext ==
    ASSUME Typed, Typed', Course, Log, Pending, [Next]_vars
    PROVE  Log'
<1>1. \A l : History(l) \in Nat /\ History(l)' \in Nat /\ History(l) <= History(l)'
    BY AdviceNext, HistoryGrows
<1>2. Identified(advice) /\ \A i \in DOMAIN advice : advice[i].since \in Nat /\ advice[i].since <= History(advice[i].limits)
    BY LogFacts DEF Log, Typed, AdviceType
<1>3. CASE advice' = advice
  <2>1. Identified(advice')
      BY <1>2, <1>3
  <2>2. \A i \in DOMAIN advice' : advice'[i].since <= HistoryIn(rows', advice'[i].limits)
    <3> TAKE i \in DOMAIN advice'
    <3>1. advice[i].since \in Nat /\ advice[i].since <= History(advice[i].limits)
        BY <1>2, <1>3
    <3>2. PICK l : l = advice[i].limits
        OBVIOUS
    <3>3. History(l) \in Nat /\ HistoryIn(rows', l) \in Nat /\ History(l) <= HistoryIn(rows', l)
        BY <1>1 DEF History
    <3> QED BY <1>3, <3>1, <3>2, <3>3
  <2> QED BY <2>1, <2>2 DEF Log, Identified, Events, History
<1>4. CASE AppendAdvice
  <2>1. adviser # <<>> /\ advice' = Append(advice, adviser) /\ rows' = rows
      BY <1>4 DEF AppendAdvice
  <2>2. /\ adviser \in AdviceType /\ adviser.limits = spec /\ adviser.since = History(spec)
        /\ Identified(advice) /\ Appendable(advice, adviser)
      BY <2>1, PendingFacts
  <2>3. Identified(advice')
      BY <2>1, <2>2, IdentifiedAppended DEF Typed
  <2>4. \A l : History(l)' = History(l)
      BY <2>1 DEF History
  <2>5. \A i \in DOMAIN advice' : (i \in DOMAIN advice /\ advice'[i] = advice[i]) \/ advice'[i] = adviser
      BY <2>1, <2>2, Appended DEF Typed
  <2>6. \A i \in DOMAIN advice' : advice'[i].since <= History(advice'[i].limits)
      BY <1>1, <1>2, <2>2, <2>5
  <2>7. \A i \in DOMAIN advice' : advice'[i].since <= HistoryIn(rows', advice'[i].limits)
      BY <2>1, <2>6 DEF History
  <2> QED BY <2>3, <2>7 DEF Log, Identified, Events, History
<1> QED
    BY <1>3, <1>4, AdviceNext

LEMMA StandsNext ==
    ASSUME Typed, Course, Log, Pending, Stands, [Next]_vars
    PROVE  Stands'
<1>1. CASE AppendAdvice
  <2>1. adviser # <<>> /\ advice' = Append(advice, adviser)
      BY <1>1 DEF AppendAdvice
  <2>2. /\ adviser \in AdviceType /\ Identified(advice) /\ Appendable(advice, adviser)
        /\ LET own == AdviceOf(advice, adviser.limits)
           IN  adviser.event = "revoke" =>
                   own \cap Events(advice, "adopt") # {} /\ adviser.id = advice[LastAdopted(advice, own)].id
      BY <2>1, PendingFacts
  <2>3. \A l : LastOf(advice', l) = IF adviser.limits # l \/ adviser.event = "refuse" THEN LastOf(advice, l)
                                    ELSE IF adviser.event = "adopt" THEN adviser.id ELSE 0
      BY <2>1, <2>2, LastOfAppended DEF Typed
  <2>4. adviser.event \in {"adopt", "refuse", "revoke"}
      BY <2>2 DEF AdviceType
  <2>5. standing' = IF adviser.event = "adopt" THEN With(standing, adviser.limits, adviser.id)
                    ELSE IF adviser.event = "revoke" THEN With(standing, adviser.limits, 0) ELSE standing
      BY <1>1, <2>4 DEF AppendAdvice
  <2>6. \A l : Standing(l)' = IF adviser.limits # l \/ adviser.event = "refuse" THEN Standing(l)
                              ELSE IF adviser.event = "adopt" THEN adviser.id ELSE 0
      BY <2>4, <2>5 DEF Standing, With
  <2>7. \A l \in Limits : LastOf(advice, l)' = Standing(l)'
    <3> TAKE l \in Limits
    <3>1. Standing(l) = LastOf(advice, l)
        BY DEF Stands
    <3>2. LastOf(advice, l)' = LastOf(advice', l)
        BY DEF LastOf, AdviceOf, Events, Ended, LastAdopted
    <3> QED BY <2>3, <2>6, <3>1, <3>2
  <2> QED BY <2>7 DEF Stands
<1>2. CASE ~AppendAdvice
  <2>1. UNCHANGED <<advice, standing>>
      BY <1>2, AdviceNext
  <2>2. \A l : Standing(l)' = Standing(l)
      BY <2>1 DEF Standing
  <2> QED BY <2>1, <2>2 DEF Stands
<1> QED
    BY <1>1, <1>2

----------------------------------------------------------------------------
(* The advice of a batch *)

\* Where no advice of a problem was given at a larger history, what is in effect is what stands.
LEMMA InEffectAll ==
    ASSUME NEW log \in Seq(AdviceType), Identified(log), NEW l, NEW k,
           \A i \in DOMAIN log : log[i].limits = l => log[i].since <= k
    PROVE  InEffect(log, l, k).id = LastOf(log, l)
<1> DEFINE own == AdviceOf(log, l)
           places == {i \in own : log[i].since <= k}
<1>1. \A i \in own : i \in DOMAIN log /\ log[i].limits = l
  <2> TAKE i \in own
  <2>1. own \subseteq DOMAIN log
      BY LogFacts
  <2>2. CASE log[i].event # "revoke"
      BY <2>1, <2>2 DEF AdviceOf, Events
  <2>3. CASE log[i].event = "revoke"
    <3>1. i \in Events(log, "revoke")
        BY <2>1, <2>3 DEF Events
    <3>2. PICK j \in Events(log, "adopt") : log[j].limits = l /\ log[j].id = log[i].id
        BY <2>3 DEF AdviceOf, Events
    <3>3. PICK m \in Events(log, "adopt") : log[m].id = log[i].id /\ log[m].limits = log[i].limits
        BY <3>1 DEF Identified
    <3>4. j = m
        BY <3>2, <3>3 DEF Identified
    <3> QED BY <2>1, <3>2, <3>3, <3>4
  <2> QED BY <2>2, <2>3
<1>2. places = own
    BY <1>1
<1>3. InEffect(log, l, k) = IF own \cap Events(log, "adopt") = {} \/ Ended(log, own) THEN NoAdvice
                            ELSE log[LastAdopted(log, own)]
    BY <1>2 DEF InEffect
<1> QED
    BY <1>3 DEF LastOf, NoAdvice

\* A batch is handed at least the rows an advice for its problem counts ...
LEMMA HandedHistory ==
    ASSUME Typed
    PROVE  /\ AtCorners(OfProblem(run.limits), SearchCorners) \subseteq Handed
           /\ History(run.limits) \in Nat /\ HistoryK \in Nat /\ History(run.limits) <= HistoryK
<1>1. Handed \subseteq rows /\ AtCorners(OfProblem(run.limits), SearchCorners) \subseteq Handed
    BY DEF Handed, AtCorners, OfProblem
<1>2. IsFiniteSet(Handed) /\ Cardinality(Handed) \in Nat
    BY <1>1, SetFacts
<1>3. History(run.limits) = Cardinality(AtCorners(OfProblem(run.limits), SearchCorners))
    BY DEF History, HistoryIn, OfProblem
<1>4. History(run.limits) \in Nat /\ History(run.limits) <= Cardinality(Handed)
    BY <1>1, <1>2, <1>3, FS_Subset, FS_CardinalityType
<1>5. Cardinality(run.initial) \in Nat
    BY SetFacts DEF Typed, RunType
<1> QED
    BY <1>1, <1>2, <1>4, <1>5 DEF HistoryK

\* ... and only those, where histories are plain and the problem may still be advised.
LEMMA PlainHistory ==
    ASSUME PlainHistories, Typed, Course, Chained, SearchedOnly, run.at = "search", Advisable(run.limits)
    PROVE  HistoryK = History(run.limits)
<1>1. /\ scenario.strategy = "metric_gp" \/ scenario.recipe = "steps"
      /\ scenario.recipe = "steps" \/ scenario.rounds = 1 \/ scenario.edits = 0
    BY DEF PlainHistories, Typed
<1>2. Handed = AtCorners(OfProblem(run.limits), SearchCorners)
  <2>1. CASE scenario.strategy = "metric_gp"
      BY <2>1 DEF Handed
  <2>2. CASE scenario.recipe = "steps"
      BY <2>2 DEF Handed, SearchedOnly, AtCorners, OfProblem
  <2> QED BY <1>1, <2>1, <2>2
<1>3. run.initial = {}
  <2> SUFFICES ASSUME run.initial # {} PROVE FALSE
      OBVIOUS
  <2>1. entries # <<>> /\ run.limits = Searched
      BY DEF Course
  <2>2. scenario.recipe # "steps"
      BY <2>1 DEF Course
  <2>3. scenario.rounds # 1
    <3> SUFFICES ASSUME scenario.rounds = 1 PROVE FALSE
        OBVIOUS
    <3>1. Len(entries) \in Nat /\ round \in 1..1
        BY LenProperties DEF Typed
    <3>2. Len(entries) = 0
        BY <3>1 DEF Course
    <3> QED BY <2>1, <3>2, EmptySeq DEF Typed
  <2>4. run.limits = spec
      BY <1>1, <2>2, <2>3, ScenarioFacts DEF Advisable, Typed
  <2> QED BY <2>1, <2>4 DEF Chained
<1>4. Cardinality(run.initial) = 0
    BY <1>3, FS_EmptySet
<1>5. History(run.limits) = Cardinality(Handed) /\ History(run.limits) \in Nat
    BY <1>2, HandedHistory DEF History, HistoryIn, OfProblem
<1> QED
    BY <1>4, <1>5 DEF HistoryK

\* A batch in flight is one just proposed, one a point of which just landed, or the same; an advise waits for its end.
LEMMA BatchNext ==
    ASSUME Typed, Course, [Next]_vars, run'.at = "search", run'.todo # {}
    PROVE  \/ Propose /\ UNCHANGED recipeVars
           \/ Land /\ UNCHANGED recipeVars
           \/ UNCHANGED <<run, rows, advice, standing, scenario, spec>> /\ run.at = "search"
<1>0. run \in RunType /\ Idle.at = "idle"
    BY DEF Typed, Idle
<1>1. CASE (BeginStep \/ EndStep) /\ UNCHANGED recipeVars
    BY <1>0, <1>1 DEF BeginStep, EndStep, RunType, Course
<1>2. CASE NextPlainStep
    BY <1>0, <1>2 DEF NextPlainStep, RunType
<1>3. CASE RunRaises \/ EndPlain \/ EndSearchOnly \/ EndChecked \/ EndRounds \/ CrashRun
    BY <1>0, <1>3 DEF RunRaises, EndPlain, EndSearchOnly, EndChecked, EndRounds, CrashRun
<1>4. CASE Recheck \/ LandCheck
    BY <1>0, <1>4 DEF Recheck, LandCheck, RunType
<1>5. CASE NextRound
  <2>1. run'.at = "begin"
      BY <1>0, <1>5 DEF NextRound, RunType
  <2> QED BY <2>1
<1>6. CASE Start
  <2>1. PICK c \in scenario.calls :
            run' = [Idle EXCEPT !.at = "begin", !.limits = spec, !.budget = c.budget, !.total = c.total]
      BY <1>6 DEF Start, BeginRun
  <2>2. run'.at = "begin"
      BY <2>1 DEF Idle
  <2> QED BY <2>2
<1>7. CASE CrashAdvise \/ Repair \/ EditSpec \/ Advise \/ AppendAdvice
    BY <1>7 DEF CrashAdvise, Repair, EditSpec, Advise, AppendAdvice, LockFree, Course
<1>8. CASE UNCHANGED vars
    BY <1>8 DEF vars, campaignVars
<1> QED
    BY <1>1, <1>2, <1>3, <1>4, <1>5, <1>6, <1>7, <1>8 DEF Next, RunStep, SearchStep, Outside

LEMMA SearchedOnlyNext ==
    ASSUME Typed, Course, SearchedOnly, [Next]_vars
    PROVE  SearchedOnly'
<1> SUFFICES ASSUME scenario'.recipe = "steps" PROVE \A r \in rows' : DOMAIN r.got = SearchCorners
    BY DEF SearchedOnly
<1>0. scenario' = scenario
    BY DesignsNext DEF BeginStep, Land, LandCheck
<1>1. \A r \in rows : DOMAIN r.got = SearchCorners
    BY <1>0 DEF SearchedOnly
<1>2. CASE Land /\ UNCHANGED recipeVars
  <2>1. PICK p \in run.todo : \E got \in Outcomes(p, run.limits, SearchCorners, FALSE) : Landed(p, got, SearchCorners, FALSE)
      BY <1>2, LandedBy
  <2>2. PICK got \in Outcomes(p, run.limits, SearchCorners, FALSE) : Landed(p, got, SearchCorners, FALSE)
      BY <2>1
  <2>3. DOMAIN RowOf(p, got).got = SearchCorners /\ rows' = rows \cup {RowOf(p, got)}
      BY <2>2, OutcomesType DEF RowOf, Landed
  <2> QED BY <1>1, <2>3
<1>3. CASE LandCheck
  <2>1. run.at = "recheck"
      BY <1>3 DEF LandCheck
  <2> QED BY <1>0, <2>1 DEF Course
<1> QED
    BY <1>1, <1>2, <1>3, RowsNext

\* What a proposed batch is given.
LEMMA ProposedAdvice ==
    ASSUME Typed, Log, Propose
    PROVE  /\ run'.limits = run.limits /\ run'.at = "search" /\ run'.k = HistoryK /\ HistoryK \in Nat
           /\ run'.advice = InEffect(advice, run.limits, HistoryK).id
           /\ run'.advice = LastOf(advice, run.limits)
           /\ run'.todo \cap Keys(AtCorners(OfProblem(run.limits), SearchCorners)) = {}
<1>1. PICK b \in NextBatches : run' = [run EXCEPT !.todo = b \ Keys(Reusable(run.limits, SearchCorners)),
                                                  !.k = HistoryK, !.advice = Current.id]
    BY DEF Propose
<1>2. /\ run'.limits = run.limits /\ run'.at = "search" /\ run'.k = HistoryK /\ run'.advice = Current.id
      /\ run'.todo \subseteq b
    BY <1>1 DEF Propose, Typed, RunType
<1>3. b \cap Keys(Handed) = {} /\ HistoryK \in Nat
    BY NextBatchesIn
<1>4. Keys(AtCorners(OfProblem(run.limits), SearchCorners)) \subseteq Keys(Handed)
    BY HandedHistory DEF Keys
<1>5. \A i \in DOMAIN advice : advice[i].limits = run.limits => advice[i].since <= HistoryK
  <2> SUFFICES ASSUME NEW i \in DOMAIN advice, advice[i].limits = run.limits PROVE advice[i].since <= HistoryK
      OBVIOUS
  <2>1. advice[i].since \in Nat /\ advice[i].since <= History(run.limits)
      BY LogFacts DEF Log, Typed, AdviceType
  <2> QED BY <2>1, HandedHistory
<1>6. InEffect(advice, run.limits, HistoryK).id = LastOf(advice, run.limits)
    BY <1>5, InEffectAll DEF Typed, Log
<1> QED
    BY <1>2, <1>3, <1>4, <1>6 DEF Current

LEMMA AdviceAsGivenNext ==
    ASSUME Typed, Course, Log, Stands, AdviceAsGiven, [Next]_vars
    PROVE  AdviceAsGiven'
<1> SUFFICES ASSUME run'.at = "search", run'.todo # {} PROVE run'.advice = Standing(run.limits)'
    BY DEF AdviceAsGiven
<1>1. CASE Propose
  <2>1. run'.advice = LastOf(advice, run.limits) /\ run'.limits = run.limits
      BY <1>1, ProposedAdvice
  <2>2. standing' = standing
      BY <1>1 DEF Propose
  <2>3. Standing(run.limits) = LastOf(advice, run.limits)
      BY DEF Stands, Typed, RunType
  <2> QED BY <2>1, <2>2, <2>3 DEF Standing
<1>2. CASE Land
  <2>1. run.at = "search" /\ run.todo # {} /\ run'.advice = run.advice /\ run'.limits = run.limits /\ standing' = standing
      BY <1>2 DEF Land, Typed, RunType
  <2> QED BY <2>1 DEF AdviceAsGiven, Standing
<1>3. CASE UNCHANGED <<run, standing>>
    BY <1>3 DEF AdviceAsGiven, Standing
<1> QED
    BY <1>1, <1>2, <1>3, BatchNext

\* The row of a point its batch's strategy was not handed is one more of its problem's.
LEMMA LandedHistory ==
    ASSUME Typed, NEW p, NEW got, DOMAIN got = SearchCorners, rows' = rows \cup {RowOf(p, got)},
           p \notin Keys(AtCorners(OfProblem(run.limits), SearchCorners))
    PROVE  HistoryIn(rows', run.limits) = History(run.limits) + 1
<1> DEFINE new == RowOf(p, got)
           old == AtCorners(OfProblem(run.limits), SearchCorners)
<1>1. new.key = p /\ new.limits = run.limits /\ DOMAIN new.got = SearchCorners
    BY DEF RowOf
<1>2. new \notin old
    BY <1>1 DEF Keys
<1>3. IsFiniteSet(old)
  <2>1. old \subseteq rows
      BY DEF AtCorners, OfProblem
  <2> QED BY <2>1, SetFacts
<1> HIDE DEF new
<1>4. AtCorners({r \in rows' : r.limits = run.limits}, SearchCorners) = old \cup {new}
    BY <1>1 DEF AtCorners, OfProblem, new
<1>5. Cardinality(old \cup {new}) = Cardinality(old) + 1
    BY <1>2, <1>3, FS_AddElement
<1>6. History(run.limits) = Cardinality(old)
    BY DEF History, HistoryIn, OfProblem
<1> QED
    BY <1>4, <1>5, <1>6 DEF HistoryIn

\* Limits that may be advised could be before.
LEMMA AdvisableNext ==
    ASSUME Typed, [Next]_vars
    PROVE  \A l : Advisable(l)' => Advisable(l)
<1>1. scenario' = scenario /\ (spec' = spec \/ left.edits > 0)
  <2>1. CASE Start \/ NextRound
      BY <2>1 DEF Start, BeginRun, NextRound
  <2> QED BY <2>1, MemoryKept
<1>2. left.edits > 0 => scenario.edits > 0
    BY ScenarioFacts DEF Typed
<1> QED
    BY <1>1, <1>2 DEF Advisable

LEMMA HistoriesNext ==
    ASSUME PlainHistories, Typed, Typed', Course, Chained, Log, SearchedOnly, Histories, [Next]_vars
    PROVE  Histories'
<1>1. \A l : /\ History(l) \in Nat /\ HistoryIn(rows', l) \in Nat /\ History(l) <= HistoryIn(rows', l)
             /\ Advisable(l)' => Advisable(l)
    BY AdviceNext, HistoryGrows, AdvisableNext DEF History
<1>2. \A r \in rows : r.step[1] = "search" /\ Advisable(r.limits)' => r.k < HistoryIn(rows', r.limits)
  <2> SUFFICES ASSUME NEW r \in rows, r.step[1] = "search", Advisable(r.limits)' PROVE r.k < HistoryIn(rows', r.limits)
      OBVIOUS
  <2>1. PICK l : l = r.limits
      OBVIOUS
  <2>2. Advisable(l)
      BY <1>1, <2>1
  <2>3. r.k < History(l)
      BY <2>1, <2>2 DEF Histories, SearchRows
  <2>4. r.k \in Nat
      BY DEF Typed, RowType
  <2> QED BY <1>1, <2>1, <2>3, <2>4
<1> SUFFICES
      /\ \A r \in rows' : r.step[1] = "search" /\ Advisable(r.limits)' => r.k < HistoryIn(rows', r.limits)
      /\ run'.at = "search" /\ run'.todo # {} =>
            /\ run'.todo \cap Keys(AtCorners({r \in rows' : r.limits = run'.limits}, SearchCorners)) = {}
            /\ Advisable(run.limits)' => run'.k <= HistoryIn(rows', run'.limits)
            /\ run'.advice = InEffect(advice', run'.limits, run'.k).id
    BY DEF Histories, SearchRows, History, OfProblem
<1>3. CASE Land /\ UNCHANGED recipeVars
  <2>1. PICK p \in run.todo : \E got \in Outcomes(p, run.limits, SearchCorners, FALSE) :
            Landed(p, got, SearchCorners, FALSE) /\ run.at = "search"
      BY <1>3, LandedBy
  <2>2. PICK got \in Outcomes(p, run.limits, SearchCorners, FALSE) : Landed(p, got, SearchCorners, FALSE) /\ run.at = "search"
      BY <2>1
  <2>3. DOMAIN got = SearchCorners
      BY OutcomesType
  <2>4. /\ rows' = rows \cup {RowOf(p, got)} /\ run'.todo = run.todo \ {p} /\ run'.limits = run.limits /\ run'.k = run.k
        /\ run'.advice = run.advice /\ advice' = advice
      BY <2>2 DEF Landed, Typed, RunType
  <2>5. /\ run.todo \cap Keys(AtCorners(OfProblem(run.limits), SearchCorners)) = {}
        /\ Advisable(run.limits) => run.k <= History(run.limits)
        /\ run.advice = InEffect(advice, run.limits, run.k).id
      BY <2>2 DEF Histories
  <2>6. HistoryIn(rows', run.limits) = History(run.limits) + 1
      BY <2>3, <2>4, <2>5, LandedHistory
  <2>7. PICK l : l = run.limits
      OBVIOUS
  <2>8. History(l) \in Nat /\ (Advisable(l)' => Advisable(l)) /\ run.k \in Nat
      BY <1>1 DEF Typed, RunType
  <2>9. \A m : m = l /\ Advisable(m)' => run.k < HistoryIn(rows', l) /\ run.k <= HistoryIn(rows', l)
      BY <2>5, <2>6, <2>7, <2>8
  <2>10. RowOf(p, got).limits = l /\ RowOf(p, got).k = run.k /\ RowOf(p, got).key = p
      BY <2>7 DEF RowOf
  <2>11. \A r \in rows' : r.step[1] = "search" /\ Advisable(r.limits)' => r.k < HistoryIn(rows', r.limits)
    <3> TAKE r \in rows'
    <3>1. CASE r \in rows
        BY <1>2, <3>1
    <3>2. CASE r = RowOf(p, got)
        BY <2>9, <2>10, <3>2
    <3> QED BY <2>4, <3>1, <3>2
  <2>12. run'.todo \cap Keys(AtCorners({r \in rows' : r.limits = run'.limits}, SearchCorners)) = {}
    <3> SUFFICES ASSUME NEW r \in rows', r.limits = run.limits, DOMAIN r.got = SearchCorners PROVE r.key \notin run.todo \ {p}
        BY <2>4 DEF Keys, AtCorners
    <3>1. CASE r \in rows
        BY <2>5, <3>1 DEF Keys, AtCorners, OfProblem
    <3>2. CASE r = RowOf(p, got)
        BY <2>10, <3>2
    <3> QED BY <2>4, <3>1, <3>2
  <2>13. Advisable(run.limits)' => run'.k <= HistoryIn(rows', run'.limits)
      BY <2>4, <2>7, <2>9
  <2> QED BY <2>4, <2>5, <2>11, <2>12, <2>13
<1>4. CASE LandCheck
  <2>1. PICK p \in run.todo : \E got \in Outcomes(p, run.limits, Corners, ~scenario.full) :
            Landed(p, got, Corners, ~scenario.full) /\ run.at = "recheck"
      BY <1>4, LandedByCheck
  <2>2. PICK got \in Outcomes(p, run.limits, Corners, ~scenario.full) :
            Landed(p, got, Corners, ~scenario.full) /\ run.at = "recheck"
      BY <2>1
  <2>3. rows' = rows \cup {RowOf(p, got)} /\ run'.at = "recheck"
      BY <2>2 DEF Landed, Typed, RunType
  <2>4. RowOf(p, got).step[1] = "signoff"
      BY <2>2 DEF RowOf, Course
  <2> QED BY <1>2, <2>3, <2>4
<1>5. CASE rows' = rows
  <2> SUFFICES ASSUME run'.at = "search", run'.todo # {}
               PROVE  /\ run'.todo \cap Keys(AtCorners({r \in rows' : r.limits = run'.limits}, SearchCorners)) = {}
                      /\ Advisable(run.limits)' => run'.k <= HistoryIn(rows', run'.limits)
                      /\ run'.advice = InEffect(advice', run'.limits, run'.k).id
      BY <1>2, <1>5
  <2>1. CASE Propose
    <3>1. /\ run'.limits = run.limits /\ run'.k = HistoryK /\ HistoryK \in Nat
          /\ run'.advice = InEffect(advice, run.limits, HistoryK).id
          /\ run'.todo \cap Keys(AtCorners(OfProblem(run.limits), SearchCorners)) = {}
        BY <2>1, ProposedAdvice
    <3>2. run.at = "search" /\ UNCHANGED <<advice, spec, scenario>>
        BY <2>1 DEF Propose
    <3>3. Advisable(run.limits)' => HistoryK <= History(run.limits)
      <4>1. PICK l : l = run.limits
          OBVIOUS
      <4>2. Advisable(run.limits)' => Advisable(run.limits)
          BY <3>1, <3>2 DEF Advisable
      <4> QED BY <3>1, <3>2, <4>2, PlainHistory
    <3> QED BY <1>5, <3>1, <3>2, <3>3 DEF OfProblem, History
  <2>2. CASE UNCHANGED <<run, rows, advice, standing, scenario, spec>> /\ run.at = "search"
    <3>1. Advisable(run.limits)' => Advisable(run.limits)
        BY <2>2 DEF Advisable
    <3> QED BY <2>2, <3>1 DEF Histories, OfProblem, History
  <2>3. CASE Land
    <3>1. FALSE
      <4>1. PICK p \in run.todo : \E got \in Outcomes(p, run.limits, SearchCorners, FALSE) :
                /\ rows' = rows \cup {RowOf(p, got)} /\ run' = [run EXCEPT !.todo = @ \ {p}]
          BY <2>3 DEF Land
      <4>2. PICK got \in Outcomes(p, run.limits, SearchCorners, FALSE) : rows' = rows \cup {RowOf(p, got)}
          BY <4>1
      <4>3. RowOf(p, got) \in AtCorners(OfProblem(run.limits), SearchCorners)
        <5>1. DOMAIN got = SearchCorners
            BY OutcomesType
        <5> QED BY <1>5, <4>2, <5>1 DEF RowOf, AtCorners, OfProblem
      <4>4. RowOf(p, got).key \in Keys(AtCorners(OfProblem(run.limits), SearchCorners)) /\ RowOf(p, got).key = p
          BY <4>3 DEF Keys, RowOf
      <4>5. run.at = "search"
          BY <2>3 DEF Land
      <4> QED BY <4>1, <4>4, <4>5 DEF Histories
    <3> QED BY <3>1
  <2> QED BY <2>1, <2>2, <2>3, BatchNext
<1> QED
    BY <1>3, <1>4, <1>5, RowsNext

LEMMA AdviceReplaysNext ==
    ASSUME Typed, Course, Log, Pending, Histories, AdviceReplays, [Next]_vars
    PROVE  AdviceReplays'
<1> SUFFICES \A r \in rows' : r.step[1] = "search" => r.advice = InEffect(advice', r.limits, r.k).id
    BY DEF AdviceReplays, SearchRows
<1>0. \A r \in rows : r.step[1] = "search" => r.advice = InEffect(advice, r.limits, r.k).id
    BY DEF AdviceReplays, SearchRows
<1>1. CASE AppendAdvice
  <2>1. adviser # <<>> /\ advice' = Append(advice, adviser) /\ rows' = rows
      BY <1>1 DEF AppendAdvice
  <2>2. /\ adviser \in AdviceType /\ adviser.limits = spec /\ adviser.since = History(spec)
        /\ Identified(advice) /\ Appendable(advice, adviser)
      BY <2>1, PendingFacts
  <2> SUFFICES ASSUME NEW r \in rows, r.step[1] = "search" PROVE InEffect(advice', r.limits, r.k) = InEffect(advice, r.limits, r.k)
      BY <1>0, <2>1
  <2>3. r.limits = spec => r.k < adviser.since
      BY <2>2 DEF Histories, SearchRows, Advisable
  <2>4. r.k \in Nat
      BY DEF Typed, RowType
  <2> QED BY <2>1, <2>2, <2>3, <2>4, InEffectAppended DEF Typed
<1>2. CASE Land /\ UNCHANGED recipeVars
  <2>1. PICK p \in run.todo : \E got \in Outcomes(p, run.limits, SearchCorners, FALSE) :
            Landed(p, got, SearchCorners, FALSE) /\ run.at = "search"
      BY <1>2, LandedBy
  <2>2. PICK got \in Outcomes(p, run.limits, SearchCorners, FALSE) : Landed(p, got, SearchCorners, FALSE) /\ run.at = "search"
      BY <2>1
  <2>3. rows' = rows \cup {RowOf(p, got)} /\ advice' = advice
      BY <2>2 DEF Landed
  <2>4. run.advice = InEffect(advice, run.limits, run.k).id
      BY <2>2 DEF Histories
  <2>5. LET r == RowOf(p, got) IN r.advice = InEffect(advice, r.limits, r.k).id
      BY <2>4 DEF RowOf
  <2> QED BY <1>0, <2>3, <2>5
<1>3. CASE LandCheck
  <2>1. PICK p \in run.todo : \E got \in Outcomes(p, run.limits, Corners, ~scenario.full) :
            Landed(p, got, Corners, ~scenario.full) /\ run.at = "recheck"
      BY <1>3, LandedByCheck
  <2>2. PICK got \in Outcomes(p, run.limits, Corners, ~scenario.full) :
            Landed(p, got, Corners, ~scenario.full) /\ run.at = "recheck"
      BY <2>1
  <2>3. rows' = rows \cup {RowOf(p, got)} /\ advice' = advice
      BY <2>2 DEF Landed
  <2>4. RowOf(p, got).step[1] = "signoff"
      BY <2>2 DEF RowOf, Course
  <2> QED BY <1>0, <2>3, <2>4
<1>4. CASE rows' = rows /\ advice' = advice
    BY <1>0, <1>4
<1> QED
    BY <1>1, <1>2, <1>3, <1>4, RowsNext, AdviceNext

----------------------------------------------------------------------------
(* What advice a batch had *)

Advices == Log /\ Stands /\ Pending /\ SearchedOnly /\ Histories /\ AdviceApplied

LEMMA AdvicesInit == Init => Advices
<1> SUFFICES ASSUME Init PROVE Advices
    OBVIOUS
<1>1. rows = {} /\ run.at = "idle" /\ advice = <<>> /\ adviser = <<>> /\ standing = <<>>
    BY DEF Init, CampaignInit, Idle
<1>2. DOMAIN advice = {} /\ DOMAIN standing = {} /\ \A e : Events(advice, e) = {}
    BY <1>1 DEF Events
<1>3. Log
    BY <1>2 DEF Log, Identified
<1>4. Stands
    BY <1>2 DEF Stands, Standing, LastOf
<1>5. Pending /\ SearchedOnly /\ Histories /\ AdviceApplied
    BY <1>1 DEF Pending, SearchedOnly, Histories, AdviceApplied, AdviceAsGiven, AdviceReplays, SearchRows
<1> QED
    BY <1>3, <1>4, <1>5 DEF Advices

\* Where histories are plain -- metric_gp's, or no re-check between the searches; and no tightened round of a spec that is
\* edited -- every batch is run under the advice that was given last for its problem and not revoked, and the advice of every
\* row can be read back from the two files, whatever is adopted, refused, revoked, cut off and edited later.  (Where they are
\* not, the count an advice is given at is not the one a batch is handed: see the README.)
THEOREM AdviceAppliedCorrect == PlainHistories => (Spec => []AdviceApplied)
<1> SUFFICES ASSUME PlainHistories PROVE Spec => []AdviceApplied
    OBVIOUS
<1>1. Core /\ Core' /\ Advices /\ [Next]_vars => Advices'
  <2> SUFFICES ASSUME Core, Core', Advices, [Next]_vars PROVE Advices'
      OBVIOUS
  <2>1. Typed /\ Course /\ Chained /\ Typed'
      BY DEF Core
  <2>2. Log /\ Stands /\ Pending /\ SearchedOnly /\ Histories /\ AdviceAsGiven /\ AdviceReplays
      BY DEF Advices, AdviceApplied
  <2> QED BY <2>1, <2>2, LogNext, StandsNext, PendingNext, SearchedOnlyNext, HistoriesNext, AdviceAsGivenNext, AdviceReplaysNext
          DEF Advices, AdviceApplied
<1>2. Advices => AdviceApplied
    BY DEF Advices
<1> QED
    BY <1>1, <1>2, AdvicesInit, CoreCorrect, PTL DEF Spec

----------------------------------------------------------------------------
(* The rounds of a rerun: what the rows alone say *)

\* Two rows that show the same under the same limits are judged alike.
LEMMA SameGot ==
    ASSUME NEW r, NEW o, r.got = o.got, r.limits = o.limits
    PROVE  Miss(r) = Miss(o) /\ Penalty(r) = Penalty(o) /\ (Feasible(r) <=> Feasible(o))
<1>1. Values(r) = Values(o) /\ (Feasible(r) <=> Feasible(o))
    BY DEF Values, Feasible
<1>2. Judged(r) <=> Judged(o)
    BY <1>1 DEF Judged
<1> QED
    BY <1>1, <1>2 DEF Miss, Penalty

\* Two rows that measured one point at every corner show the same.
LEMMA ConfirmedAlike ==
    ASSUME Typed, Consistent, NEW r \in Confirmed, NEW o \in Confirmed, r.key = o.key
    PROVE  Miss(r) = Miss(o) /\ Penalty(r) = Penalty(o) /\ (Feasible(r) <=> Feasible(o))
<1>1. r \in rows /\ o \in rows /\ DOMAIN r.got = Corners /\ DOMAIN o.got = Corners /\ r.limits = o.limits
    BY DEF Confirmed
<1>2. r.got = [c \in DOMAIN r.got |-> r.got[c]] /\ o.got = [c \in DOMAIN o.got |-> o.got[c]]
    BY <1>1 DEF Typed, RowType
<1>3. \A c \in Corners : r.got[c] = o.got[c]
    BY <1>1 DEF Confirmed, Consistent
<1>4. r.got = o.got
    BY <1>1, <1>2, <1>3
<1> QED
    BY <1>1, <1>4, SameGot

\* ... and how far it misses, if it does, is a number.
LEMMA ConfirmedPenalty ==
    ASSUME Typed, NEW r \in Confirmed
    PROVE  Penalty(r) \in Nat /\ r.key \in Nat
<1>1. r \in rows /\ DOMAIN r.got = Corners /\ \A c \in Corners : r.got[c] # NotRun
    BY DEF Confirmed, NotRun
<1>2. r.key \in Nat
    BY <1>1, ConstantFacts DEF Typed, RowType
<1> QED
    BY <1>1, <1>2, PenaltyType, ConstantFacts

\* A round that earned another has rows, all of one problem.
LEMMA EarnedRows ==
    ASSUME NEW n, NEW l, NEW next, Earned(n, l, next)
    PROVE  OfRound(n) # {} /\ \A q \in OfRound(n) : q.limits = l
<1>1. PICK r \in rows : Decides(r, n)
    BY DEF Earned
<1>2. r.key \in Keys(Best(OfRound(n), scenario.top))
    BY <1>1 DEF Decides, Winners
<1>3. OfRound(n) # {}
    BY <1>2 DEF Keys, Best
<1> QED
    BY <1>3 DEF Earned

\* The rows that decide a round miss alike.
LEMMA DecidesOnce ==
    ASSUME Typed, Consistent, NEW n, NEW r, NEW r2, Decides(r, n), Decides(r2, n)
    PROVE  Miss(r) = Miss(r2)
<1>1. r \in Confirmed /\ r2 \in Confirmed /\ r.key \in Winners(n) /\ r2.key \in Winners(n)
    BY DEF Decides
<1>2. /\ Penalty(r) < Penalty(r2) \/ (Penalty(r) = Penalty(r2) /\ r.key <= r2.key)
      /\ Penalty(r2) < Penalty(r) \/ (Penalty(r2) = Penalty(r) /\ r2.key <= r.key)
    BY <1>1 DEF Decides
<1>3. Penalty(r) \in Nat /\ Penalty(r2) \in Nat /\ r.key \in Nat /\ r2.key \in Nat
    BY <1>1, ConfirmedPenalty
<1>4. r.key = r2.key
    BY <1>2, <1>3
<1> QED
    BY <1>1, <1>4, ConfirmedAlike

\* The rows of a round earn one next round.
LEMMA EarnedOnce ==
    ASSUME Typed, Consistent, NEW n, NEW l, NEW next, NEW l2, NEW next2, Earned(n, l, next), Earned(n, l2, next2)
    PROVE  l = l2 /\ next = next2
<1>1. l = l2
    BY EarnedRows
<1>2. PICK r \in rows : Decides(r, n) /\ next = Tightened(l, Miss(r))
    BY DEF Earned
<1>3. PICK r2 \in rows : Decides(r2, n) /\ next2 = Tightened(l2, Miss(r2))
    BY DEF Earned
<1>4. Miss(r) = Miss(r2)
    BY <1>2, <1>3, DecidesOnce
<1> QED
    BY <1>1, <1>2, <1>3, <1>4

\* What a round earned stays earned, whatever lands in another.
LEMMA EarnedGrows ==
    ASSUME Typed, Typed', Consistent', NEW new, rows' = rows \cup {new}, UNCHANGED <<spec, scenario>>,
           NEW n, NEW l, NEW next, Earned(n, l, next), new.step # <<"search", n>>
    PROVE  Earned(n, l, next)'
<1>1. OfRound(n)' = OfRound(n) /\ Winners(n)' = Winners(n)
  <2>1. OfRound(n)' = OfRound(n)
      BY DEF OfRound
  <2> QED BY <2>1 DEF Winners, Keys, Best, Feasible
<1>2. Keys(HandedOf(l)) \subseteq Keys(HandedOf(l))' /\ EarlierKeys(n) \subseteq EarlierKeys(n)'
    BY DEF Keys, HandedOf, AtCorners, OfProblem, EarlierKeys
<1>3. Complete(n, l)'
  <2>1. Complete(n, l)
      BY DEF Earned
  <2> QED BY <1>1, <1>2, <2>1 DEF Complete
<1>4. PICK r \in rows : Decides(r, n) /\ Miss(r) # NoMiss /\ next = Tightened(l, Miss(r)) /\ ~Crossed(next)
    BY DEF Earned
<1>5. Miss(r)' = Miss(r) /\ Tightened(l, Miss(r))' = Tightened(l, Miss(r))
  <2>1. Miss(r)' = Miss(r)
      BY DEF Miss, Values
  <2> QED BY <2>1 DEF Tightened
<1>6. Confirmed \subseteq Confirmed' /\ Confirmed' \subseteq Confirmed \cup {new} /\ Confirmed' \subseteq rows'
    BY DEF Confirmed
<1>7. \A o : Penalty(o)' = Penalty(o)
    BY DEF Penalty, Judged, Feasible, Values, Gap
<1>8. \A o \in Confirmed' : o.key \in Winners(n) =>
          ~Feasible(o) /\ (Penalty(r) < Penalty(o) \/ (Penalty(r) = Penalty(o) /\ r.key <= o.key))
  <2> SUFFICES ASSUME NEW o \in Confirmed', o.key \in Winners(n)
               PROVE  ~Feasible(o) /\ (Penalty(r) < Penalty(o) \/ (Penalty(r) = Penalty(o) /\ r.key <= o.key))
      OBVIOUS
  <2>1. PICK s \in Confirmed : s.key = o.key
      BY <1>4 DEF Decides, Keys
  <2>2. /\ s \in rows' /\ o \in rows' /\ DOMAIN s.got = Corners /\ DOMAIN o.got = Corners /\ s.limits = o.limits
        /\ \A c \in Corners : s.got[c] >= 0 /\ o.got[c] >= 0
      BY <1>6, <2>1 DEF Confirmed
  <2>3. s.got = [c \in Corners |-> s.got[c]] /\ o.got = [c \in Corners |-> o.got[c]]
      BY <2>2 DEF Typed, RowType
  <2>4. \A c \in Corners : s.got[c] = o.got[c]
      BY <2>1, <2>2 DEF Consistent
  <2>5. s.got = o.got
      BY <2>3, <2>4
  <2>6. Penalty(s) = Penalty(o) /\ (Feasible(s) <=> Feasible(o))
      BY <2>2, <2>5, SameGot
  <2>7. ~Feasible(s) /\ (Penalty(r) < Penalty(s) \/ (Penalty(r) = Penalty(s) /\ r.key <= s.key))
      BY <1>4, <2>1 DEF Decides
  <2> QED BY <2>1, <2>6, <2>7
<1>9. Decides(r, n)'
  <2>1. r \in Confirmed' /\ r.key \in Winners(n)' /\ Winners(n)' \subseteq Keys(Confirmed)'
      BY <1>1, <1>4, <1>6 DEF Decides, Keys
  <2>2. \A o : Feasible(o)' <=> Feasible(o)
      BY DEF Feasible
  <2> QED BY <1>1, <1>7, <1>8, <2>1, <2>2 DEF Decides
<1>10. \A q \in OfRound(n)' : q.limits = l
    BY <1>1 DEF Earned
<1> QED
    BY <1>3, <1>4, <1>5, <1>9, <1>10 DEF Earned

\* Where no row is added, the rows say what they said.
LEMMA EarnedSame ==
    ASSUME UNCHANGED <<rows, spec, scenario>>
    PROVE  /\ \A n : OfRound(n)' = OfRound(n) /\ EarlierKeys(n)' = EarlierKeys(n) /\ Winners(n)' = Winners(n)
           /\ \A l : HandedOf(l)' = HandedOf(l)
           /\ \A n, l : Complete(n, l)' <=> Complete(n, l)
           /\ Confirmed' = Confirmed
           /\ \A n, l, next : Earned(n, l, next)' <=> Earned(n, l, next)
<1>1. \A n : OfRound(n)' = OfRound(n) /\ EarlierKeys(n)' = EarlierKeys(n)
    BY DEF OfRound, EarlierKeys, Keys
<1>2. \A n : Winners(n)' = Winners(n)
    BY <1>1 DEF Winners, Keys, Best, Feasible
<1>3. \A l : HandedOf(l)' = HandedOf(l)
    BY DEF HandedOf, AtCorners, OfProblem
<1>4. \A n, l : Complete(n, l)' <=> Complete(n, l)
    BY <1>1, <1>3 DEF Complete, Keys
<1>5. Confirmed' = Confirmed
    BY DEF Confirmed
<1>6. \A r : Miss(r)' = Miss(r) /\ Penalty(r)' = Penalty(r) /\ (Feasible(r)' <=> Feasible(r))
    BY DEF Miss, Penalty, Judged, Feasible, Values, Gap
<1>7. \A r, n : Decides(r, n)' <=> Decides(r, n)
    BY <1>2, <1>5, <1>6 DEF Decides, Keys
<1>8. \A l, r : Tightened(l, Miss(r))' = Tightened(l, Miss(r))
    BY <1>6 DEF Tightened
<1>9. \A n, l, next : Earned(n, l, next)' <=> Earned(n, l, next)
    BY <1>1, <1>4, <1>6, <1>7, <1>8 DEF Earned
<1> QED
    BY <1>1, <1>2, <1>3, <1>4, <1>5, <1>9

\* All rows of the round under way are of the problem the call searches.
LEMMA RoundLimits ==
    ASSUME Typed, Course, Consistent, Traceable, RowsEarned, CallEarned, run.at # "idle"
    PROVE  /\ \A q \in OfRound(round) : q.limits = Searched
           /\ Len(entries) = round - 1 /\ round \in Nat \ {0}
           /\ ByStep(OfProblem(Searched), <<"search", round>>) = OfRound(round)
<1>1. Len(entries) = round - 1 /\ round \in Nat \ {0}
  <2>1. round \in 1..scenario.rounds /\ scenario.rounds \in Nat \ {0}
      BY ScenarioFacts DEF Typed
  <2>2. round \in Nat \ {0}
      BY <2>1
  <2> QED BY <2>2 DEF Course, Traceable
<1>2. \A q \in OfRound(round) : q.limits = Searched
  <2> TAKE q \in OfRound(round)
  <2>1. q \in rows /\ q.step = <<"search", round>> /\ q.step[1] = "search" /\ q.step[2] = round
      BY DEF OfRound
  <2>2. CASE round = 1
    <3>1. entries = <<>>
        BY <1>1, <2>2, EmptySeq DEF Typed
    <3> QED BY <2>1, <2>2, <3>1 DEF RowsEarned, Searched
  <2>3. CASE round # 1
    <3>1. round - 1 \in 1..Len(entries) /\ entries # <<>> /\ round > 1
        BY <1>1, <2>3, EmptySeq
    <3>2. Earned(round - 1, entries[round - 1].searched, entries[round - 1].next)
        BY <3>1 DEF CallEarned
    <3>3. \E o \in OfRound(round - 1) : Earned(round - 1, o.limits, q.limits)
        BY <2>1, <3>1 DEF RowsEarned
    <3>4. q.limits = entries[round - 1].next
        BY <3>2, <3>3, EarnedOnce
    <3> QED BY <1>1, <3>1, <3>4 DEF Searched
  <2> QED BY <2>2, <2>3
<1>3. ByStep(OfProblem(Searched), <<"search", round>>) = OfRound(round)
    BY <1>2 DEF ByStep, OfProblem, OfRound
<1> QED
    BY <1>1, <1>2, <1>3

\* A round with a batch in flight is not complete.
LEMMA InFlight ==
    ASSUME Typed, Course, Consistent, Traceable, RowsEarned, CallEarned, RoundInCourse, run.at = "search", NEW p \in run.todo
    PROVE  ~Complete(round, run.limits)
<1>1. /\ Cardinality(OfRound(round)) + Cardinality(run.todo) <= run.budget
      /\ run.todo \cap (Keys(HandedOf(run.limits)) \cup run.initial) = {}
    BY DEF RoundInCourse, InFlightFits
<1>2. ~(\A c \in scenario.calls : c.budget <= Cardinality(OfRound(round)))
  <2>1. PICK c \in scenario.calls : run.budget = c.budget
      BY DEF Course
  <2>2. OfRound(round) \subseteq rows /\ run.todo \subseteq Points
      BY DEF OfRound, Typed, RunType
  <2>3. Cardinality(OfRound(round)) \in Nat /\ Cardinality(run.todo) \in Nat /\ IsFiniteSet(run.todo) /\ run.budget \in Nat
      BY <2>2, SetFacts DEF Typed, RunType
  <2>4. Cardinality(run.todo) # 0
      BY <2>3, FS_EmptySet
  <2> QED BY <1>1, <2>1, <2>3, <2>4
<1>3. ~(Points \subseteq Keys(HandedOf(run.limits)) \cup EarlierKeys(round))
  <2>1. p \in Points /\ run.initial = EarlierKeys(round)
      BY DEF CallEarned, Typed, RunType
  <2> QED BY <1>1, <2>1
<1> QED
    BY <1>2, <1>3 DEF Complete

\* Rows that land in the round under way, or none, leave what the rounds before earned.
LEMMA EarnedKept ==
    ASSUME Typed, Typed', Course, Consistent, Consistent', Traceable, RowsEarned, CallEarned, RoundInCourse,
           NEW corners, NEW stop, NEW p, NEW got, Landed(p, got, corners, stop),
           run.at = "search" \/ run.at = "recheck"
    PROVE  /\ \A n, l, next : Earned(n, l, next) => Earned(n, l, next)'
           /\ \A n, l : Complete(n, l) => Complete(n, l)'
<1> DEFINE new == RowOf(p, got)
<1>1. rows' = rows \cup {new} /\ UNCHANGED <<spec, scenario>> /\ p \in run.todo
    BY DEF Landed
<1>2. new.step = run.step /\ new.limits = run.limits
    BY DEF RowOf
<1> HIDE DEF new
<1>3. ASSUME NEW n, NEW l, NEW next, Earned(n, l, next) PROVE Earned(n, l, next)'
  <2>1. CASE new.step # <<"search", n>>
      BY <1>1, <1>3, <2>1, EarnedGrows
  <2>2. CASE new.step = <<"search", n>>
    <3>1. run.at = "search" /\ n = round /\ run.limits = Searched
        BY <1>2, <2>2 DEF Course
    <3>2. l = run.limits
        BY <1>3, <3>1, EarnedRows, RoundLimits
    <3>3. Complete(n, l)
        BY <1>3 DEF Earned
    <3> QED BY <1>1, <3>1, <3>2, <3>3, InFlight
  <2> QED BY <2>1, <2>2
<1>4. ASSUME NEW n, NEW l, Complete(n, l) PROVE Complete(n, l)'
  <2>1. OfRound(n) \subseteq OfRound(n)' /\ OfRound(n)' \subseteq rows' /\ scenario' = scenario
      BY <1>1 DEF OfRound
  <2>2. IsFiniteSet(OfRound(n)')
      BY <2>1, FS_Subset DEF Typed
  <2>3. /\ Cardinality(OfRound(n)) \in Nat /\ Cardinality(OfRound(n)') \in Nat
        /\ Cardinality(OfRound(n)) <= Cardinality(OfRound(n)')
      BY <2>1, <2>2, FS_Subset, FS_CardinalityType
  <2>4. Keys(HandedOf(l)) \subseteq Keys(HandedOf(l))' /\ EarlierKeys(n) \subseteq EarlierKeys(n)'
      BY <1>1 DEF Keys, HandedOf, AtCorners, OfProblem, EarlierKeys
  <2>5. \A c \in scenario.calls : c.budget \in Nat
      BY ScenarioFacts DEF Typed
  <2> QED BY <1>4, <2>1, <2>3, <2>4, <2>5 DEF Complete
<1> QED
    BY <1>3, <1>4

----------------------------------------------------------------------------
(* ... and that a rerun finds the rounds again *)

\* What a traceable campaign never does: edit its limits, leave a search short, search past the budget of a re-check.
LEMMA TraceableKept ==
    ASSUME RerunsAlike, Typed, Traceable, [Next]_vars
    PROVE  /\ scenario' = scenario /\ spec' = spec /\ ~scenario.short /\ TotalsAgree(scenario)
           /\ Traceable' /\ spec \in Limits
<1>1. scenario.edits = 0 /\ ~scenario.short /\ TotalsAgree(scenario)
    BY DEF RerunsAlike, Traceable, Typed
<1>2. left.edits = 0
    BY <1>1 DEF Typed
<1>3. scenario' = scenario /\ spec' = spec
  <2>1. CASE Start \/ NextRound
      BY <2>1 DEF Start, BeginRun, NextRound
  <2> QED BY <1>2, <2>1, MemoryKept
<1> QED
    BY <1>1, <1>3, ScenarioFacts DEF Traceable, Typed

\* A run is at its re-check, or before it, by a step that brings it there or leaves it there.
LEMMA CheckNext ==
    ASSUME Typed, [Next]_vars, run'.at \in {"recipe", "recheck"}
    PROVE  \/ EndStep /\ UNCHANGED recipeVars
           \/ Recheck \/ LandCheck
           \/ UNCHANGED <<run, rows, spec, scenario, round, checked, entries>>
<1>0. run \in RunType /\ Idle.at = "idle"
    BY DEF Typed, Idle
<1>1. CASE (BeginStep \/ Propose \/ Land) /\ UNCHANGED recipeVars
    BY <1>0, <1>1 DEF BeginStep, Propose, Land, RunType
<1>2. CASE NextPlainStep
    BY <1>0, <1>2 DEF NextPlainStep, RunType
<1>3. CASE RunRaises \/ EndPlain \/ EndSearchOnly \/ EndChecked \/ EndRounds \/ CrashRun
    BY <1>0, <1>3 DEF RunRaises, EndPlain, EndSearchOnly, EndChecked, EndRounds, CrashRun
<1>4. CASE NextRound
  <2>1. run'.at = "begin"
      BY <1>0, <1>4 DEF NextRound, RunType
  <2> QED BY <2>1
<1>5. CASE Start
  <2>1. PICK c \in scenario.calls :
            run' = [Idle EXCEPT !.at = "begin", !.limits = spec, !.budget = c.budget, !.total = c.total]
      BY <1>5 DEF Start, BeginRun
  <2>2. run'.at = "begin"
      BY <2>1 DEF Idle
  <2> QED BY <2>2
<1>6. CASE EditSpec
    BY <1>6 DEF EditSpec, LockFree
<1>7. CASE (CrashAdvise \/ Repair \/ Advise \/ AppendAdvice) /\ UNCHANGED recipeVars
    BY <1>7 DEF CrashAdvise, Repair, Advise, AppendAdvice, recipeVars
<1>8. CASE UNCHANGED vars
    BY <1>8 DEF vars, campaignVars, recipeVars
<1> QED
    BY <1>1, <1>2, <1>3, <1>4, <1>5, <1>6, <1>7, <1>8 DEF Next, RunStep, SearchStep, Outside

\* The points a round started with stay while it runs.
LEMMA InitialKept ==
    ASSUME Typed, [Next]_vars, ~Start, ~NextRound, ~NextPlainStep, run'.at # "idle"
    PROVE  run'.initial = run.initial /\ round' = round
<1>0. run \in RunType /\ Idle.at = "idle"
    BY DEF Typed, Idle
<1>1. CASE (BeginStep \/ Propose \/ EndStep) /\ UNCHANGED recipeVars
    BY <1>0, <1>1 DEF BeginStep, Propose, EndStep, RunType, recipeVars
<1>2. CASE Land /\ UNCHANGED recipeVars
    BY <1>0, <1>2 DEF Land, RunType, recipeVars
<1>3. CASE RunRaises \/ EndPlain \/ EndSearchOnly \/ EndChecked \/ EndRounds \/ CrashRun
    BY <1>0, <1>3 DEF RunRaises, EndPlain, EndSearchOnly, EndChecked, EndRounds, CrashRun
<1>4. CASE Recheck \/ LandCheck
    BY <1>0, <1>4 DEF Recheck, LandCheck, RunType
<1>5. CASE (CrashAdvise \/ Repair \/ EditSpec \/ Advise \/ AppendAdvice) /\ UNCHANGED recipeVars
    BY <1>5 DEF CrashAdvise, Repair, EditSpec, Advise, AppendAdvice, recipeVars
<1>6. CASE UNCHANGED vars
    BY <1>6 DEF vars, campaignVars, recipeVars
<1> QED
    BY <1>1, <1>2, <1>3, <1>4, <1>5, <1>6 DEF Next, RunStep, SearchStep, Outside

\* What a step lacks, and the size of its next batch, are numbers.
LEMMA BatchFacts ==
    ASSUME Typed, Cardinality(Done) < run.budget
    PROVE  LET lacks == run.budget - Cardinality(Done)
               n == Min({scenario.batch, lacks})
           IN  lacks \in Nat /\ n \in Nat \ {0} /\ n <= lacks
<1>1. Cardinality(Done) \in Nat
  <2>1. Done \subseteq rows
      BY DEF Done, ByStep, OfProblem
  <2> QED BY <2>1, SetFacts
<1>2. run.budget \in Nat /\ scenario.batch \in Nat \ {0}
    BY ScenarioFacts DEF Typed, RunType
<1> DEFINE lacks == run.budget - Cardinality(Done)
<1>3. lacks \in Nat \ {0}
    BY <1>1, <1>2
<1> HIDE DEF lacks
<1>4. Min({scenario.batch, lacks}) = IF scenario.batch <= lacks THEN scenario.batch ELSE lacks
    BY <1>2, <1>3, TwoNumbers
<1>5. Min({scenario.batch, lacks}) \in Nat \ {0} /\ Min({scenario.batch, lacks}) <= lacks
    BY <1>2, <1>3, <1>4
<1> QED
    BY <1>3, <1>5 DEF lacks

\* A batch has no more points than its step lacks ...
LEMMA BatchSize ==
    ASSUME Typed, Cardinality(Done) < run.budget, NEW b \in NextBatches
    PROVE  Cardinality(b) <= run.budget - Cardinality(Done)
<1> DEFINE taken == Keys(Handed) \cup run.initial
           first == Current.start \ taken
           lacks == run.budget - Cardinality(Done)
           n == Min({scenario.batch, lacks})
           free == Points \ taken
<1>1. n \in Nat /\ lacks \in Nat /\ n <= lacks
    BY BatchFacts
<1>2. Cardinality(free) \in Nat
    BY SetFacts
<1>3. b \in Batches(first, taken, n)
    BY DEF NextBatches
<1> SUFFICES Cardinality(b) <= lacks
    OBVIOUS
<1> HIDE DEF n, first, taken, lacks
<1>4. CASE Cardinality(first) >= n
    BY <1>1, <1>3, <1>4 DEF Batches, kSubset
<1>5. CASE ~(Cardinality(first) >= n)
  <2> DEFINE m == Cardinality(free)
             full == Min({n, m})
  <2>1. PICK i \in (IF scenario.short THEN 0 ELSE full)..full : b \in kSubset(i, free)
      BY <1>3, <1>5 DEF Batches
  <2>2. Cardinality(b) = i
      BY <2>1 DEF kSubset
  <2>3. m \in Nat
      BY <1>2
  <2> HIDE DEF m, free
  <2>4. full = IF n <= m THEN n ELSE m
      BY <1>1, <2>3, TwoNumbers
  <2> HIDE DEF full
  <2>5. full \in Nat /\ full <= n
      BY <1>1, <2>3, <2>4
  <2> QED BY <1>1, <2>1, <2>2, <2>5
<1> QED
    BY <1>4, <1>5

\* ... and is empty, where none is left short, only when no point is left.
LEMMA NoPointLeft ==
    ASSUME Typed, ~scenario.short, Cardinality(Done) < run.budget, {} \in NextBatches
    PROVE  Points \subseteq Keys(Handed) \cup run.initial
<1> DEFINE taken == Keys(Handed) \cup run.initial
           first == Current.start \ taken
           n == Min({scenario.batch, run.budget - Cardinality(Done)})
           free == Points \ taken
           m == Cardinality(free)
<1>1. n \in Nat \ {0}
    BY BatchFacts
<1>2. m \in Nat /\ IsFiniteSet(free) /\ Cardinality({}) = 0
    BY SetFacts, FS_EmptySet
<1>3. {} \in Batches(first, taken, n)
    BY DEF NextBatches
<1> HIDE DEF n, first
<1>4. ~(Cardinality(first) >= n)
    BY <1>1, <1>2, <1>3 DEF Batches, kSubset
<1>5. \E i \in Min({n, m})..Min({n, m}) : {} \in kSubset(i, free)
    BY <1>3, <1>4 DEF Batches
<1> HIDE DEF m
<1>6. Min({n, m}) = IF n <= m THEN n ELSE m
    BY <1>1, <1>2, TwoNumbers
<1>7. Min({n, m}) = 0
    BY <1>1, <1>2, <1>5, <1>6 DEF kSubset
<1>8. m = 0
    BY <1>1, <1>2, <1>6, <1>7
<1>9. free = {}
    BY <1>2, <1>8, FS_EmptySet DEF m
<1> QED
    BY <1>9

\* When every winner of a round is re-checked and none is feasible, the best of them decides it.
LEMMA BestDecides ==
    ASSUME Typed, Consistent, Rechecked, RoundInCourse,
           run.at = "recheck", run.todo = {}, checked # {}, ~Feasible(BestRechecked)
    PROVE  Decides(BestRechecked, round) /\ BestRechecked \in rows
<1>1. checked \subseteq Confirmed /\ Keys(checked) = Winners(round) /\ checked \subseteq rows
    BY DEF RoundInCourse, CheckFits, Typed
<1>2. BestRechecked \in checked /\ ~(\E r \in checked : Feasible(r))
    BY SomethingShown, BestRecheckedIn
<1>3. \A r \in checked : Judged(r)
  <2> TAKE r \in checked
  <2>1. DOMAIN r.got = Corners /\ \A c \in Corners : r.got[c] # Failed
      BY <1>1 DEF Confirmed, Failed
  <2> QED BY <1>2, <2>1 DEF Judged
<1>4. \A s \in checked : \/ Penalty(BestRechecked) < Penalty(s)
                         \/ Penalty(BestRechecked) = Penalty(s) /\ BestRechecked.key <= s.key
    BY <1>2, <1>3, SomethingShown, BestRecheckedIn
<1>5. BestRechecked.key \in Winners(round) /\ Winners(round) \subseteq Keys(Confirmed)
    BY <1>1, <1>2 DEF Keys
<1>6. \A o \in Confirmed : o.key \in Winners(round) =>
          ~Feasible(o) /\ (\/ Penalty(BestRechecked) < Penalty(o)
                           \/ Penalty(BestRechecked) = Penalty(o) /\ BestRechecked.key <= o.key)
  <2> SUFFICES ASSUME NEW o \in Confirmed, o.key \in Winners(round)
               PROVE  ~Feasible(o) /\ (\/ Penalty(BestRechecked) < Penalty(o)
                                       \/ Penalty(BestRechecked) = Penalty(o) /\ BestRechecked.key <= o.key)
      OBVIOUS
  <2>1. PICK s \in checked : s.key = o.key
      BY <1>1 DEF Keys
  <2>2. Penalty(s) = Penalty(o) /\ (Feasible(s) <=> Feasible(o))
      BY <1>1, <2>1, ConfirmedAlike
  <2> QED BY <1>2, <1>4, <2>1, <2>2
<1> QED
    BY <1>1, <1>2, <1>5, <1>6 DEF Decides

\* A round that goes on has earned the next ...
LEMMA NextRoundEarned ==
    ASSUME Typed, Course, Consistent, Rechecked, Traceable, RowsEarned, CallEarned, RoundInCourse, NextRound
    PROVE  Earned(round, Searched, Tightened(Searched, Miss(BestRechecked)))
<1>1. run.at = "recheck" /\ run.todo = {} /\ Outcome = "none"
    BY DEF NextRound
<1>2. /\ checked # {} /\ ~Feasible(BestRechecked) /\ Miss(BestRechecked) # NoMiss
      /\ ~Crossed(Tightened(Searched, Miss(BestRechecked)))
    BY <1>1 DEF Outcome
<1>3. Decides(BestRechecked, round) /\ BestRechecked \in rows
    BY <1>1, <1>2, BestDecides
<1>4. Complete(round, Searched) /\ \A q \in OfRound(round) : q.limits = Searched
    BY <1>1, RoundLimits DEF RoundInCourse, CheckFits
<1> QED
    BY <1>2, <1>3, <1>4 DEF Earned

\* ... and one at which the rounds end has earned none, or is the last.
LEMMA EndRoundsEarned ==
    ASSUME Typed, Course, Consistent, Rechecked, Traceable, RowsEarned, CallEarned, RoundInCourse, EndRounds,
           NEW l, NEW next, Earned(round, l, next)
    PROVE  round = scenario.rounds
<1>1. run.at = "recheck" /\ run.todo = {} /\ Outcome # "none"
    BY DEF EndRounds
<1>2. PICK r \in rows : Decides(r, round) /\ Miss(r) # NoMiss /\ next = Tightened(l, Miss(r)) /\ ~Crossed(next)
    BY DEF Earned
<1>3. l = Searched
    BY <1>1, EarnedRows, RoundLimits
<1>4. checked \subseteq Confirmed /\ Keys(checked) = Winners(round)
    BY <1>1 DEF RoundInCourse, CheckFits
<1>5. checked # {}
    BY <1>2, <1>4 DEF Decides, Keys
<1>6. BestRechecked \in checked
    BY <1>1, <1>5, SomethingShown, BestRecheckedIn
<1>7. ~Feasible(BestRechecked)
    BY <1>2, <1>4, <1>6 DEF Decides, Keys
<1>8. Miss(BestRechecked) = Miss(r)
    BY <1>1, <1>2, <1>5, <1>7, BestDecides, DecidesOnce
<1> QED
    BY <1>1, <1>2, <1>3, <1>5, <1>7, <1>8 DEF Outcome

\* The row a call's search leaves is of the limits the rounds before earned.
LEMMA LandedEarned ==
    ASSUME Typed, Course, Traceable, CallEarned, run.at = "search"
    PROVE  /\ run.step = <<"search", round>> /\ run.limits = Searched /\ round \in 1..scenario.rounds
           /\ round = 1 => run.limits = spec
           /\ round # 1 => /\ round - 1 \in 1..Len(entries) /\ entries # <<>> /\ Len(entries) = round - 1
                           /\ run.limits = entries[round - 1].next
                           /\ Earned(round - 1, entries[round - 1].searched, run.limits)
<1>1. Len(entries) = round - 1 /\ run.step = <<"search", round>> /\ run.limits = Searched /\ round \in 1..scenario.rounds
    BY DEF Course, Traceable, Typed
<1>2. round \in Nat \ {0}
    BY <1>1, ScenarioFacts DEF Typed
<1>3. CASE round = 1
  <2>1. entries = <<>>
      BY <1>1, <1>3, EmptySeq DEF Typed
  <2> QED BY <1>1, <1>3, <2>1 DEF Searched
<1>4. CASE round # 1
  <2>1. round - 1 \in 1..Len(entries) /\ entries # <<>>
      BY <1>1, <1>2, <1>4, EmptySeq
  <2>2. Earned(round - 1, entries[round - 1].searched, entries[round - 1].next)
      BY <2>1 DEF CallEarned
  <2> QED BY <1>1, <1>4, <2>1, <2>2 DEF Searched
<1> QED
    BY <1>3, <1>4

LEMMA RowsEarnedNext ==
    ASSUME RerunsAlike, Typed, Typed', Course, Consistent, Consistent', Traceable, RowsEarned, CallEarned, RoundInCourse,
           [Next]_vars
    PROVE  RowsEarned'
<1>1. UNCHANGED <<scenario, spec>>
    BY TraceableKept
<1>2. CASE rows' = rows
  <2> SUFFICES ASSUME NEW r \in rows, r.step[1] = "search"
               PROVE  /\ r.step[2] <= scenario.rounds
                      /\ r.step[2] = 1 => r.limits = spec
                      /\ r.step[2] > 1 => \E q \in OfRound(r.step[2] - 1) : Earned(r.step[2] - 1, q.limits, r.limits)'
    <3>1. \A n : OfRound(n)' = OfRound(n)
        BY <1>1, <1>2, EarnedSame
    <3> QED BY <1>1, <1>2, <3>1 DEF RowsEarned
  <2>1. \A n, l, next : Earned(n, l, next)' <=> Earned(n, l, next)
      BY <1>1, <1>2, EarnedSame
  <2> QED BY <2>1 DEF RowsEarned
<1>3. CASE Land /\ UNCHANGED recipeVars
  <2>1. PICK p \in run.todo : \E got \in Outcomes(p, run.limits, SearchCorners, FALSE) :
            Landed(p, got, SearchCorners, FALSE) /\ run.at = "search"
      BY <1>3, LandedBy
  <2>2. PICK got \in Outcomes(p, run.limits, SearchCorners, FALSE) : Landed(p, got, SearchCorners, FALSE) /\ run.at = "search"
      BY <2>1
  <2> DEFINE new == RowOf(p, got)
  <2>3. rows' = rows \cup {new}
      BY <2>2 DEF Landed
  <2>4. new.step = run.step /\ new.limits = run.limits
      BY DEF RowOf
  <2>5. \A n, l, next : Earned(n, l, next) => Earned(n, l, next)'
      BY <2>2, EarnedKept
  <2> HIDE DEF new
  <2>6. \A n : OfRound(n) \subseteq OfRound(n)'
      BY <2>3 DEF OfRound
  <2> SUFFICES ASSUME NEW r \in rows', r.step[1] = "search"
               PROVE  /\ r.step[2] <= scenario.rounds
                      /\ r.step[2] = 1 => r.limits = spec
                      /\ r.step[2] > 1 => \E q \in OfRound(r.step[2] - 1)' : Earned(r.step[2] - 1, q.limits, r.limits)'
      BY <1>1 DEF RowsEarned
  <2>7. CASE r \in rows
    <3>1. r.step[2] <= scenario.rounds /\ (r.step[2] = 1 => r.limits = spec)
        BY <2>7 DEF RowsEarned
    <3>2. r.step[2] > 1 => \E q \in OfRound(r.step[2] - 1) : Earned(r.step[2] - 1, q.limits, r.limits)
        BY <2>7 DEF RowsEarned
    <3> QED BY <2>5, <2>6, <3>1, <3>2
  <2>8. CASE r = new
    <3>1. run.step = <<"search", round>> /\ round \in 1..scenario.rounds
        BY <2>2, LandedEarned
    <3>2. r.step[2] = round /\ r.limits = run.limits
        BY <2>4, <2>8, <3>1
    <3>3. scenario.rounds \in Nat
        BY ScenarioFacts DEF Typed
    <3>4. CASE round = 1
        BY <2>2, <3>1, <3>2, <3>3, <3>4, LandedEarned
    <3>5. CASE round # 1
      <4>1. Earned(r.step[2] - 1, entries[round - 1].searched, r.limits)
          BY <2>2, <3>2, <3>5, LandedEarned
      <4>2. PICK q \in OfRound(r.step[2] - 1) : q.limits = entries[round - 1].searched
          BY <4>1, EarnedRows
      <4>3. Earned(r.step[2] - 1, q.limits, r.limits)
          BY <4>1, <4>2
      <4>4. q \in OfRound(r.step[2] - 1)' /\ Earned(r.step[2] - 1, q.limits, r.limits)'
          BY <2>5, <2>6, <4>2, <4>3
      <4> QED BY <3>1, <3>2, <3>3, <3>5, <4>4
    <3> QED BY <3>4, <3>5
  <2> QED BY <2>3, <2>7, <2>8
<1>4. CASE LandCheck
  <2>1. PICK p \in run.todo : \E got \in Outcomes(p, run.limits, Corners, ~scenario.full) :
            Landed(p, got, Corners, ~scenario.full) /\ run.at = "recheck"
      BY <1>4, LandedByCheck
  <2>2. PICK got \in Outcomes(p, run.limits, Corners, ~scenario.full) :
            Landed(p, got, Corners, ~scenario.full) /\ run.at = "recheck"
      BY <2>1
  <2> DEFINE new == RowOf(p, got)
  <2>3. rows' = rows \cup {new}
      BY <2>2 DEF Landed
  <2>4. new.step[1] = "signoff"
      BY <2>2 DEF RowOf, Course
  <2>5. \A n, l, next : Earned(n, l, next) => Earned(n, l, next)'
      BY <2>2, EarnedKept
  <2> HIDE DEF new
  <2>6. \A n : OfRound(n) \subseteq OfRound(n)'
      BY <2>3 DEF OfRound
  <2> SUFFICES ASSUME NEW r \in rows, r.step[1] = "search"
               PROVE  /\ r.step[2] <= scenario.rounds
                      /\ r.step[2] = 1 => r.limits = spec
                      /\ r.step[2] > 1 => \E q \in OfRound(r.step[2] - 1)' : Earned(r.step[2] - 1, q.limits, r.limits)'
      BY <1>1, <2>3, <2>4 DEF RowsEarned
  <2>7. r.step[2] <= scenario.rounds /\ (r.step[2] = 1 => r.limits = spec)
      BY DEF RowsEarned
  <2>8. r.step[2] > 1 => \E q \in OfRound(r.step[2] - 1) : Earned(r.step[2] - 1, q.limits, r.limits)
      BY DEF RowsEarned
  <2> QED BY <2>5, <2>6, <2>7, <2>8
<1> QED
    BY <1>2, <1>3, <1>4, RowsNext

\* Every step keeps what a round has earned, and the points searched before the round under way.
LEMMA EarnedNext ==
    ASSUME RerunsAlike, Typed, Typed', Course, Consistent, Consistent', Traceable, RowsEarned, CallEarned, RoundInCourse,
           [Next]_vars
    PROVE  /\ \A n, l, next : Earned(n, l, next) => Earned(n, l, next)'
           /\ \A n, l : Complete(n, l) => Complete(n, l)'
           /\ run.at # "idle" => \A n : n = round => EarlierKeys(n)' = EarlierKeys(n)
<1>1. CASE rows' = rows
  <2>1. UNCHANGED <<rows, spec, scenario>>
      BY <1>1, TraceableKept
  <2> QED BY <2>1, EarnedSame
<1>2. ASSUME NEW p, NEW got, NEW corners, NEW stop, Landed(p, got, corners, stop), run.at \in {"search", "recheck"}
      PROVE  /\ \A n, l, next : Earned(n, l, next) => Earned(n, l, next)'
             /\ \A n, l : Complete(n, l) => Complete(n, l)'
             /\ run.at # "idle" => \A n : n = round => EarlierKeys(n)' = EarlierKeys(n)
  <2>1. rows' = rows \cup {RowOf(p, got)} /\ RowOf(p, got).step = run.step
      BY <1>2 DEF Landed, RowOf
  <2>2. run.step[1] = "signoff" \/ run.step[2] = round
      BY <1>2 DEF Course
  <2>3. \A n : n = round => ~(run.step[1] = "search" /\ run.step[2] < n)
      BY <2>2 DEF Typed
  <2>4. \A n : n = round => EarlierKeys(n)' = EarlierKeys(n)
    <3> HIDE DEF EarlierKeys
    <3> TAKE n
    <3>1. n = round => {r \in rows' : r.step[1] = "search" /\ r.step[2] < n} = {r \in rows : r.step[1] = "search" /\ r.step[2] < n}
        BY <2>1, <2>3
    <3> QED BY <3>1 DEF EarlierKeys, Keys
  <2>5. /\ \A n, l, next : Earned(n, l, next) => Earned(n, l, next)'
        /\ \A n, l : Complete(n, l) => Complete(n, l)'
      BY <1>2, EarnedKept
  <2> QED BY <2>4, <2>5
<1>3. CASE Land /\ UNCHANGED recipeVars
    BY <1>2, <1>3, LandedBy
<1>4. CASE LandCheck
    BY <1>2, <1>4, LandedByCheck
<1> QED
    BY <1>1, <1>3, <1>4, RowsNext

LEMMA CallEarnedStart ==
    ASSUME Typed', Start
    PROVE  CallEarned'
<1>1. PICK c \in scenario.calls :
          run' = [Idle EXCEPT !.at = "begin", !.limits = spec, !.budget = c.budget, !.total = c.total]
    BY DEF Start, BeginRun
<1>2. run'.initial = {} /\ entries' = <<>> /\ round' = 1 /\ Len(entries') = 0
    BY <1>1, EmptySeq DEF Start, Idle
<1>3. \A r \in rows' : r.step \in StepType
    BY DEF Typed, RowType
<1>4. \A r \in rows' : ~(r.step[2] < 1)
    BY <1>3 DEF StepType
<1>5. EarlierKeys(round)' = {}
    BY <1>2, <1>4 DEF EarlierKeys, Keys
<1>6. 1..Len(entries') = {}
    BY <1>2
<1> QED
    BY <1>2, <1>5, <1>6 DEF CallEarned

LEMMA CallEarnedNextRound ==
    ASSUME RerunsAlike, Typed, Typed', Course, Consistent, Rechecked, Traceable, RowsEarned, CallEarned, RoundInCourse, NextRound
    PROVE  CallEarned'
<1> DEFINE next == Tightened(Searched, Miss(BestRechecked))
           e == Entry(Miss(BestRechecked), next)
<1>1. /\ UNCHANGED <<rows, spec, scenario>> /\ run.at = "recheck" /\ file'.rounds = entries' /\ round' = round + 1
      /\ run' = [run EXCEPT !.at = "begin", !.step = <<"search", round + 1>>, !.limits = next,
                            !.initial = @ \cup Keys(ByStep(OfProblem(Searched), <<"search", round>>))]
    BY DEF NextRound
<1>2. entries' = Append(entries, e) /\ e \in EntryType /\ e.searched = Searched /\ e.next = next
    BY NextRoundType DEF Entry
<1>3. Earned(round, e.searched, e.next)
    BY <1>2, NextRoundEarned
<1> HIDE DEF next, e
<1>4. /\ Len(entries') = Len(entries) + 1 /\ entries'[Len(entries) + 1] = e
      /\ \A n \in 1..Len(entries) : entries'[n] = entries[n]
      /\ Len(entries) = round - 1 /\ round \in Nat \ {0}
  <2>1. Len(entries) = round - 1 /\ round \in Nat \ {0}
      BY <1>1, RoundLimits
  <2>2. entries \in Seq(EntryType)
      BY DEF Typed
  <2>3. /\ Len(Append(entries, e)) = Len(entries) + 1 /\ Append(entries, e)[Len(entries) + 1] = e
        /\ \A n \in 1..Len(entries) : Append(entries, e)[n] = entries[n]
      BY <1>2, <2>2, AppendProperties
  <2> QED BY <1>2, <2>1, <2>3
<1>5. \A n, l, m : Earned(n, l, m)' <=> Earned(n, l, m)
    BY <1>1, EarnedSame
<1>6. \A n \in 1..Len(entries') : Earned(n, entries'[n].searched, entries'[n].next)
  <2> TAKE n \in 1..Len(entries')
  <2>1. CASE n = round
      BY <1>3, <1>4, <2>1
  <2>2. CASE n # round
    <3>1. n \in 1..Len(entries)
        BY <1>4, <2>2
    <3> QED BY <1>1, <1>4, <3>1 DEF CallEarned
  <2> QED BY <2>1, <2>2
<1>7. \A n \in 1..Len(entries') : Earned(n, entries[n].searched, entries[n].next)'
  <2> TAKE n \in 1..Len(entries')
  <2>1. PICK l, m : l = entries'[n].searched /\ m = entries'[n].next
      OBVIOUS
  <2>2. Earned(n, l, m)'
      BY <1>5, <1>6, <2>1
  <2> QED BY <2>1, <2>2
<1>8. run'.initial = EarlierKeys(round)'
  <2>1. run'.initial = run.initial \cup Keys(ByStep(OfProblem(Searched), <<"search", round>>))
      BY <1>1 DEF Typed, RunType
  <2>2. ByStep(OfProblem(Searched), <<"search", round>>) = OfRound(round)
      BY <1>1, RoundLimits
  <2>3. run.initial = EarlierKeys(round)
      BY <1>1 DEF CallEarned
  <2>4. \A r \in rows : r.step \in StepType
      BY DEF Typed, RowType
  <2>5. \A r \in rows : r.step[1] = "search" /\ r.step[2] < round + 1 <=>
                            (r.step[1] = "search" /\ r.step[2] < round) \/ r.step = <<"search", round>>
      BY <1>4, <2>4 DEF StepType
  <2>6. EarlierKeys(round)' = Keys({r \in rows : r.step[1] = "search" /\ r.step[2] < round + 1})
      BY <1>1 DEF EarlierKeys, Keys
  <2>7. {r \in rows : r.step[1] = "search" /\ r.step[2] < round + 1}
        = {r \in rows : r.step[1] = "search" /\ r.step[2] < round} \cup OfRound(round)
      BY <2>5 DEF OfRound
  <2>8. \A S, T : Keys(S \cup T) = Keys(S) \cup Keys(T)
      BY DEF Keys
  <2>9. EarlierKeys(round) = Keys({r \in rows : r.step[1] = "search" /\ r.step[2] < round})
      BY DEF EarlierKeys
  <2> QED BY <2>1, <2>2, <2>3, <2>6, <2>7, <2>8, <2>9
<1> QED
    BY <1>1, <1>7, <1>8 DEF CallEarned

LEMMA CallEarnedNext ==
    ASSUME RerunsAlike, Typed, Typed', Course, Consistent, Consistent', Rechecked, Traceable,
           RowsEarned, CallEarned, RoundInCourse, [Next]_vars
    PROVE  CallEarned'
<1>1. CASE run'.at = "idle"
    BY <1>1 DEF CallEarned
<1>2. CASE Start
    BY <1>2, CallEarnedStart
<1>3. CASE NextRound
    BY <1>3, CallEarnedNextRound
<1>4. CASE run'.at # "idle" /\ ~Start /\ ~NextRound
  <2>1. entries' = entries /\ run.at # "idle"
      BY <1>4, MemoryKept
  <2>2. ~NextPlainStep /\ ~EndRounds
      BY <1>4 DEF NextPlainStep, EndRounds, Traceable, Idle
  <2>3. run'.initial = run.initial /\ round' = round /\ file' = file
      BY <1>4, <2>2, InitialKept, FileKept
  <2>4. \A n \in 1..Len(entries) : Earned(n, entries[n].searched, entries[n].next)
      BY <2>1 DEF CallEarned
  <2>5. \A n \in 1..Len(entries') : Earned(n, entries[n].searched, entries[n].next)'
    <3> TAKE n \in 1..Len(entries')
    <3>1. PICK l, m : l = entries[n].searched /\ m = entries[n].next
        OBVIOUS
    <3>2. Earned(n, l, m)'
        BY <2>1, <2>4, <3>1, EarnedNext
    <3>3. l = entries'[n].searched /\ m = entries'[n].next
        BY <2>1, <3>1
    <3> QED BY <3>2, <3>3
  <2>6. run'.initial = EarlierKeys(round)'
    <3>1. PICK n : n = round
        OBVIOUS
    <3>2. EarlierKeys(n)' = EarlierKeys(n) /\ run.initial = EarlierKeys(n)
        BY <2>1, <3>1, EarnedNext DEF CallEarned
    <3>3. EarlierKeys(round)' = EarlierKeys(n)'
        BY <2>3, <3>1 DEF EarlierKeys
    <3> QED BY <2>3, <3>2, <3>3
  <2>7. entries' # <<>> => file'.rounds = entries'
      BY <2>1, <2>3 DEF CallEarned
  <2> QED BY <2>5, <2>6, <2>7 DEF CallEarned
<1> QED
    BY <1>1, <1>2, <1>3, <1>4

\* What a simulation shows at every corner when all are simulated and none fails.
LEMMA FullOutcomes ==
    ASSUME Typed, scenario.full, ~scenario.fails, NEW p, NEW limits, NEW got \in Outcomes(p, limits, Corners, ~scenario.full)
    PROVE  DOMAIN got = Corners /\ \A c \in Corners : got[c] >= 0
<1>1. \A c \in Corners : got[c] # NotRun
    BY DEF Outcomes
<1>2. DOMAIN got = Corners /\ \A c \in Corners : got[c] \in Measured(p, c)
    BY <1>1 DEF Outcomes
<1>3. \A c \in Corners : Measured(p, c) \subseteq Nat
  <2> TAKE c \in Corners
  <2>1. Known(p, c) \subseteq Nat /\ scenario.values \subseteq Nat
      BY MeasuredType, ScenarioFacts DEF Typed
  <2> QED BY <2>1 DEF Measured
<1> QED
    BY <1>2, <1>3

\* A batch in flight fits when it is proposed, ...
LEMMA ProposeFits ==
    ASSUME Typed, Typed', Course, Consistent, Traceable, RowsEarned, CallEarned, Propose, UNCHANGED recipeVars
    PROVE  InFlightFits'
<1>1. /\ run.at = "search" /\ Cardinality(Done) < run.budget /\ UNCHANGED <<rows, scenario, round>>
      /\ \E b \in NextBatches : run' = [run EXCEPT !.todo = b \ Keys(Reusable(run.limits, SearchCorners)),
                                                   !.k = HistoryK, !.advice = Current.id]
    BY DEF Propose, recipeVars
<1>2. PICK b \in NextBatches : run' = [run EXCEPT !.todo = b \ Keys(Reusable(run.limits, SearchCorners)),
                                                  !.k = HistoryK, !.advice = Current.id]
    BY <1>1
<1>3. run'.todo \subseteq b /\ run'.limits = run.limits /\ run'.initial = run.initial /\ run'.budget = run.budget
    BY <1>2 DEF Typed, RunType
<1>4. b \subseteq Points /\ b \cap (Keys(Handed) \cup run.initial) = {} /\ Cardinality(b) <= run.budget - Cardinality(Done)
    BY <1>1, NextBatchesIn, BatchSize
<1>5. Done = OfRound(round) /\ OfRound(round)' = OfRound(round)
  <2>1. Done = OfRound(round)
      BY <1>1, RoundLimits, LandedEarned DEF Done
  <2> QED BY <1>1, <2>1 DEF OfRound
<1>6. Handed = HandedOf(run.limits) /\ HandedOf(run.limits)' = HandedOf(run.limits)
    BY <1>1, <1>3 DEF Handed, HandedOf, AtCorners, OfProblem
<1>7. Cardinality(run'.todo) <= Cardinality(b) /\ Cardinality(run'.todo) \in Nat /\ Cardinality(b) \in Nat
    BY <1>3, <1>4, SetFacts, FS_Subset
<1>8. Cardinality(Done) \in Nat /\ run.budget \in Nat
  <2>1. Done \subseteq rows
      BY DEF Done, ByStep, OfProblem
  <2> QED BY <2>1, SetFacts DEF Typed, RunType
<1>9. (Cardinality(OfRound(round)) + Cardinality(run.todo) <= run.budget)'
    BY <1>3, <1>4, <1>5, <1>7, <1>8
<1>10. run'.todo \cap (Keys(HandedOf(run.limits))' \cup run'.initial) = {}
    BY <1>3, <1>4, <1>6 DEF Keys
<1> QED
    BY <1>9, <1>10 DEF InFlightFits

\* ... and when a point of it has landed.
LEMMA LandFits ==
    ASSUME Typed, Typed', InFlightFits, NEW p \in run.todo, NEW got, Landed(p, got, SearchCorners, FALSE), run.at = "search"
    PROVE  InFlightFits'
<1> DEFINE new == RowOf(p, got)
<1>1. rows' = rows \cup {new} /\ run' = [run EXCEPT !.todo = @ \ {p}] /\ UNCHANGED <<scenario, round>>
    BY DEF Landed
<1>2. new.key = p
    BY DEF RowOf
<1> HIDE DEF new
<1>3. run'.todo = run.todo \ {p} /\ run'.limits = run.limits /\ run'.initial = run.initial /\ run'.budget = run.budget
    BY <1>1 DEF Typed, RunType
<1>4. Cardinality(run'.todo) = Cardinality(run.todo) - 1 /\ Cardinality(run.todo) \in Nat
  <2>1. run.todo \subseteq Points
      BY DEF Typed, RunType
  <2>2. IsFiniteSet(run.todo) /\ Cardinality(run.todo) \in Nat
      BY <2>1, SetFacts
  <2> QED BY <1>3, <2>2, FS_RemoveElement
<1>5. Cardinality(OfRound(round)') <= Cardinality(OfRound(round)) + 1
      /\ Cardinality(OfRound(round)) \in Nat /\ Cardinality(OfRound(round)') \in Nat
  <2>1. OfRound(round)' \subseteq OfRound(round) \cup {new} /\ OfRound(round) \subseteq rows
      BY <1>1 DEF OfRound
  <2>2. IsFiniteSet(OfRound(round)) /\ Cardinality(OfRound(round)) \in Nat
      BY <2>1, SetFacts
  <2>3. /\ IsFiniteSet(OfRound(round) \cup {new})
        /\ Cardinality(OfRound(round) \cup {new}) <= Cardinality(OfRound(round)) + 1
      BY <2>2, FS_AddElement
  <2>4. Cardinality(OfRound(round)') <= Cardinality(OfRound(round) \cup {new}) /\ IsFiniteSet(OfRound(round)')
      BY <2>1, <2>3, FS_Subset
  <2>5. Cardinality(OfRound(round)') \in Nat /\ Cardinality(OfRound(round) \cup {new}) \in Nat
      BY <2>3, <2>4, FS_CardinalityType
  <2> QED BY <2>2, <2>3, <2>4, <2>5
<1>6. Cardinality(OfRound(round)) + Cardinality(run.todo) <= run.budget /\ run.budget \in Nat
    BY DEF InFlightFits, Typed, RunType
<1>7. (Cardinality(OfRound(round)) + Cardinality(run.todo) <= run.budget)'
    BY <1>3, <1>4, <1>5, <1>6
<1>8. run'.todo \cap (Keys(HandedOf(run.limits))' \cup run'.initial) = {}
  <2>1. Keys(HandedOf(run.limits))' \subseteq Keys(HandedOf(run.limits)) \cup {p}
      BY <1>1, <1>2, <1>3 DEF Keys, HandedOf, AtCorners, OfProblem
  <2> QED BY <1>3, <2>1 DEF InFlightFits
<1> QED
    BY <1>7, <1>8 DEF InFlightFits

LEMMA InFlightNext ==
    ASSUME Typed, Typed', Course, Course', Consistent, Traceable, RowsEarned, CallEarned, RoundInCourse, [Next]_vars,
           run'.at = "search", run'.todo # {}
    PROVE  InFlightFits'
<1>1. CASE Propose /\ UNCHANGED recipeVars
    BY <1>1, ProposeFits
<1>2. CASE Land /\ UNCHANGED recipeVars
  <2>1. PICK p \in run.todo : \E got \in Outcomes(p, run.limits, SearchCorners, FALSE) :
            Landed(p, got, SearchCorners, FALSE) /\ run.at = "search"
      BY <1>2, LandedBy
  <2>2. PICK got \in Outcomes(p, run.limits, SearchCorners, FALSE) : Landed(p, got, SearchCorners, FALSE) /\ run.at = "search"
      BY <2>1
  <2>3. InFlightFits
      BY <2>2 DEF RoundInCourse, InFlightFits
  <2> QED BY <2>2, <2>3, LandFits
<1>3. CASE UNCHANGED <<run, rows, advice, standing, scenario, spec>> /\ run.at = "search"
  <2>1. run.step = <<"search", round>> /\ run'.step = <<"search", round'>>
      BY <1>3 DEF Course
  <2>2. round' = round
      BY <1>3, <2>1
  <2>3. InFlightFits
      BY <1>3 DEF RoundInCourse, InFlightFits
  <2>4. OfRound(round)' = OfRound(round)
      BY <1>3, <2>2 DEF OfRound
  <2>5. HandedOf(run.limits)' = HandedOf(run.limits)
      BY <1>3 DEF HandedOf, AtCorners, OfProblem
  <2> QED BY <1>3, <2>3, <2>4, <2>5 DEF InFlightFits, Keys
<1> QED
    BY <1>1, <1>2, <1>3, BatchNext

\* Whoever goes on to a re-check has completed its round.
LEMMA CompleteNext ==
    ASSUME RerunsAlike, Typed, Typed', Course, Course', Consistent, Consistent', Traceable,
           RowsEarned, CallEarned, RoundInCourse, [Next]_vars, run'.at = "recipe", run'.budget = run'.total
    PROVE  Complete(round, Searched)'
<1>1. CASE EndStep /\ UNCHANGED recipeVars
  <2>1. /\ run.at = "search" /\ run' = [run EXCEPT !.at = "recipe"] /\ UNCHANGED <<rows, spec, scenario, round, entries>>
        /\ Cardinality(Done) >= run.budget \/ {} \in NextBatches
      BY <1>1 DEF EndStep, recipeVars
  <2>2. run.budget = run.total /\ run.limits = Searched
      BY <2>1 DEF Typed, RunType, Course
  <2>3. Done = OfRound(round)
      BY <2>1, RoundLimits, LandedEarned DEF Done
  <2>4. Complete(round, Searched)
    <3>1. CASE Cardinality(Done) >= run.budget
      <4>1. PICK c \in scenario.calls : run.budget = c.budget /\ run.total = c.total
          BY <2>1 DEF Course
      <4>2. \A d \in scenario.calls : d.budget <= run.budget
          BY <2>2, <4>1, TraceableKept DEF TotalsAgree
      <4>3. \A d \in scenario.calls : d.budget \in Nat
          BY ScenarioFacts DEF Typed
      <4>4. Cardinality(Done) \in Nat /\ run.budget \in Nat
        <5>1. Done \subseteq rows
            BY DEF Done, ByStep, OfProblem
        <5> QED BY <5>1, SetFacts DEF Typed, RunType
      <4> QED BY <2>3, <3>1, <4>2, <4>3, <4>4 DEF Complete
    <3>2. CASE ~(Cardinality(Done) >= run.budget)
      <4>1. Cardinality(Done) < run.budget
        <5>1. Done \subseteq rows
            BY DEF Done, ByStep, OfProblem
        <5>2. Cardinality(Done) \in Nat /\ run.budget \in Nat
            BY <5>1, SetFacts DEF Typed, RunType
        <5> QED BY <3>2, <5>2
      <4>2. Points \subseteq Keys(Handed) \cup run.initial
          BY <2>1, <3>2, <4>1, TraceableKept, NoPointLeft
      <4>3. Handed = HandedOf(Searched) /\ run.initial = EarlierKeys(round)
          BY <2>1, <2>2 DEF Handed, HandedOf, CallEarned
      <4> QED BY <4>2, <4>3 DEF Complete
    <3> QED BY <3>1, <3>2
  <2>5. Searched' = Searched
      BY <2>1 DEF Searched
  <2>6. PICK n, l : n = round /\ l = Searched
      OBVIOUS
  <2>7. Complete(n, l)'
      BY <2>1, <2>4, <2>6, EarnedSame
  <2> QED BY <2>1, <2>5, <2>6, <2>7
<1>2. CASE UNCHANGED <<run, rows, spec, scenario, round, checked, entries>>
  <2>1. Complete(round, Searched)
      BY <1>2 DEF RoundInCourse
  <2>2. PICK n, l : n = round /\ l = Searched
      OBVIOUS
  <2>3. Complete(n, l)' /\ Searched' = Searched
      BY <1>2, <2>1, <2>2, EarnedSame DEF Searched
  <2> QED BY <1>2, <2>2, <2>3
<1>3. ~Recheck /\ ~LandCheck
  <2>1. Recheck => run'.at = "recheck"
      BY DEF Recheck, Typed, RunType
  <2>2. LandCheck => run'.at = "recheck"
      BY DEF LandCheck, Typed, RunType
  <2> QED BY <2>1, <2>2
<1> QED
    BY <1>1, <1>2, <1>3, CheckNext

\* A re-check fits its round when it is planned, ...
LEMMA RecheckFits ==
    ASSUME Typed, Course, Consistent, Traceable, RowsEarned, CallEarned, RoundInCourse, Recheck
    PROVE  CheckFits'
<1> DEFINE winners == Keys(Best(Done, scenario.top))
           known == {r \in Reusable(spec, Corners) : r.key \in winners}
<1>1. /\ run.at = "recipe" /\ run.budget = run.total /\ checked' = known
      /\ UNCHANGED <<rows, spec, scenario, round, entries>>
      /\ run' = [run EXCEPT !.at = "recheck", !.step = <<"signoff", round>>, !.limits = spec,
                            !.todo = winners \ Keys(known), !.k = 0, !.design = 0, !.advice = 0]
    BY DEF Recheck
<1>2. Done = OfRound(round)
    BY <1>1, RoundLimits DEF Done, Course
<1>3. winners = Winners(round)
    BY <1>2 DEF Winners
<1> HIDE DEF winners
<1>4. known \subseteq Confirmed
    BY DEF Reusable, OfProblem, Feasible, Confirmed
<1>5. Keys(known) \subseteq winners
    BY DEF Keys
<1>6. run'.todo = winners \ Keys(known)
    BY <1>1 DEF Typed, RunType
<1>7. Complete(round, Searched) /\ Searched' = Searched
    BY <1>1 DEF RoundInCourse, Searched
<1>8. Keys(checked)' = Keys(known)
    BY <1>1 DEF Keys
<1> HIDE DEF known
<1>9. PICK n, l : n = round /\ l = Searched
    OBVIOUS
<1>10. Complete(n, l)' /\ Winners(n)' = Winners(n) /\ Confirmed' = Confirmed
    BY <1>1, <1>7, <1>9, EarnedSame
<1>11. Complete(round, Searched)' /\ Winners(round)' = Winners(round)
    BY <1>1, <1>7, <1>9, <1>10
<1>12. Keys(checked)' \cup run'.todo = Winners(round)'
    BY <1>3, <1>5, <1>6, <1>8, <1>11
<1> QED
    BY <1>1, <1>4, <1>10, <1>11, <1>12 DEF CheckFits

\* ... and when a point of it has landed.
LEMMA LandCheckFits ==
    ASSUME RerunsAlike, Typed, Typed', Course, Consistent, Consistent', Traceable, RowsEarned, CallEarned, RoundInCourse,
           CheckFits, LandCheck
    PROVE  CheckFits'
<1>1. PICK p \in run.todo : \E got \in Outcomes(p, run.limits, Corners, ~scenario.full) :
          Landed(p, got, Corners, ~scenario.full) /\ run.at = "recheck" /\ checked' = checked \cup {RowOf(p, got)}
    BY LandedByCheck
<1>2. PICK got \in Outcomes(p, run.limits, Corners, ~scenario.full) :
          Landed(p, got, Corners, ~scenario.full) /\ run.at = "recheck" /\ checked' = checked \cup {RowOf(p, got)}
    BY <1>1
<1> DEFINE new == RowOf(p, got)
<1>3. /\ rows' = rows \cup {new} /\ run' = [run EXCEPT !.todo = @ \ {p}]
      /\ UNCHANGED <<spec, scenario, round, entries>> /\ checked' = checked \cup {new}
    BY <1>2 DEF Landed
<1>4. new.key = p /\ new.step = run.step /\ new.limits = run.limits /\ new.got = got
    BY DEF RowOf
<1>5. run.step = <<"signoff", round>> /\ run.limits = spec
    BY <1>2 DEF Course
<1>6. DOMAIN got = Corners /\ \A c \in Corners : got[c] >= 0
    BY FullOutcomes DEF Traceable
<1> HIDE DEF new
<1>7. checked' \subseteq Confirmed'
    BY <1>3, <1>4, <1>5, <1>6 DEF CheckFits, Confirmed
<1>8. run'.todo = run.todo \ {p}
    BY <1>3 DEF Typed, RunType
<1>9. Keys(checked)' = Keys(checked) \cup {p}
    BY <1>3, <1>4 DEF Keys
<1>10. PICK n, l : n = round /\ l = Searched
    OBVIOUS
<1>11. Winners(n)' = Winners(n)
  <2>1. OfRound(n)' = OfRound(n)
      BY <1>3, <1>4, <1>5 DEF OfRound
  <2> QED BY <1>3, <2>1 DEF Winners, Keys, Best, Feasible
<1>12. Complete(n, l)'
    BY <1>2, <1>10, EarnedKept DEF CheckFits
<1>13. Searched' = Searched
    BY <1>3 DEF Searched
<1>14. Complete(round, Searched)' /\ Winners(round)' = Winners(round)
    BY <1>3, <1>10, <1>11, <1>12, <1>13
<1>15. Keys(checked)' \cup run'.todo = Winners(round)'
    BY <1>8, <1>9, <1>14 DEF CheckFits
<1> QED
    BY <1>7, <1>14, <1>15 DEF CheckFits

LEMMA RoundInCourseNext ==
    ASSUME RerunsAlike, Typed, Typed', Course, Course', Consistent, Consistent', Traceable,
           RowsEarned, CallEarned, RoundInCourse, [Next]_vars
    PROVE  RoundInCourse'
<1>1. run'.at = "recheck" => CheckFits'
  <2> SUFFICES ASSUME run'.at = "recheck" PROVE CheckFits'
      OBVIOUS
  <2>1. CASE Recheck
      BY <2>1, RecheckFits
  <2>2. CASE LandCheck
    <3>1. CheckFits
        BY <2>2 DEF LandCheck, RoundInCourse
    <3> QED BY <2>2, <3>1, LandCheckFits
  <2>3. CASE UNCHANGED <<run, rows, spec, scenario, round, checked, entries>>
    <3>1. CheckFits
        BY <2>3 DEF RoundInCourse
    <3>2. PICK n, l : n = round /\ l = Searched
        OBVIOUS
    <3>3. /\ Complete(n, l)' <=> Complete(n, l)
          /\ Winners(n)' = Winners(n) /\ Confirmed' = Confirmed /\ Searched' = Searched
        BY <2>3, EarnedSame DEF Searched
    <3>4. Complete(round, Searched)' /\ Winners(round)' = Winners(round)
        BY <2>3, <3>1, <3>2, <3>3 DEF CheckFits
    <3> QED BY <2>3, <3>1, <3>3, <3>4 DEF CheckFits, Keys
  <2>4. ~(EndStep /\ UNCHANGED recipeVars)
      BY DEF EndStep, Typed, RunType
  <2> QED BY <2>1, <2>2, <2>3, <2>4, CheckNext
<1>2. run'.at = "search" /\ run'.todo # {} => InFlightFits'
    BY InFlightNext
<1>3. run'.at = "recipe" /\ run'.budget = run'.total => Complete(round, Searched)'
    BY CompleteNext
<1> QED
    BY <1>1, <1>2, <1>3 DEF RoundInCourse

\* The file of a call that goes on to another round, or ends its rounds, ties every row.
LEMMA WrittenTies ==
    ASSUME Typed, Typed', Course, Consistent, Rechecked, Traceable, RowsEarned, CallEarned, RoundInCourse,
           NextRound \/ EndRounds, NEW r \in rows, r.step[1] = "search", r.step[2] \in 2..(Len(file'.rounds) + 1)
    PROVE  r.limits = file'.rounds[r.step[2] - 1].next
<1> DEFINE k == r.step[2] - 1
<1>1. run.at = "recheck"
    BY DEF NextRound, EndRounds
<1>2. Len(entries) = round - 1 /\ round \in Nat \ {0} /\ scenario.rounds \in Nat
    BY <1>1, RoundLimits, ScenarioFacts DEF Typed
<1>3. PICK e \in EntryType : /\ file'.rounds = Append(entries, e)
                             /\ NextRound => Earned(round, Searched, e.next)
  <2>1. CASE EndRounds
    <3>1. PICK miss \in [low : Nat, high : Nat] : file'.rounds = Append(entries, Entry(miss, Searched))
        BY <2>1, EndRoundsType
    <3>2. Entry(miss, Searched) \in EntryType
        BY <3>1, SearchedType DEF Entry, EntryType
    <3>3. EndRounds /\ NextRound => FALSE
        BY DEF EndRounds, NextRound
    <3> QED BY <2>1, <3>1, <3>2, <3>3
  <2>2. CASE NextRound
    <3> DEFINE e == Entry(Miss(BestRechecked), Tightened(Searched, Miss(BestRechecked)))
    <3>1. e \in EntryType /\ entries' = Append(entries, e)
        BY <2>2, NextRoundType
    <3>2. file'.rounds = entries'
        BY <2>2 DEF NextRound
    <3>3. e.next = Tightened(Searched, Miss(BestRechecked))
        BY DEF Entry
    <3>4. Earned(round, Searched, e.next)
        BY <2>2, <3>3, NextRoundEarned
    <3> HIDE DEF e
    <3> QED BY <3>1, <3>2, <3>4
  <2> QED BY <2>1, <2>2
<1>4. /\ Len(file'.rounds) = round /\ file'.rounds[round] = e
      /\ \A n \in 1..(round - 1) : file'.rounds[n] = entries[n]
  <2>1. /\ Len(file'.rounds) = Len(entries) + 1 /\ file'.rounds[Len(entries) + 1] = e
        /\ \A n \in 1..Len(entries) : file'.rounds[n] = entries[n]
      BY <1>3, AppendProperties DEF Typed
  <2>2. round = Len(entries) + 1
      BY <1>2
  <2> QED BY <1>2, <2>1, <2>2
<1>5. k \in 1..round /\ r.step[2] \in Int /\ r.step[2] > 1
    BY <1>2, <1>4
<1>6. PICK q \in OfRound(k) : Earned(k, q.limits, r.limits)
    BY <1>5 DEF RowsEarned
<1>7. CASE k # round
  <2>1. k \in 1..Len(entries) /\ k \in 1..(round - 1)
      BY <1>2, <1>5, <1>7
  <2>2. Earned(k, entries[k].searched, entries[k].next)
      BY <1>1, <2>1 DEF CallEarned
  <2>3. r.limits = entries[k].next
      BY <1>6, <2>2, EarnedOnce
  <2> QED BY <1>4, <2>1, <2>3
<1>8. CASE k = round
  <2>1. r.step[2] <= scenario.rounds
      BY DEF RowsEarned
  <2>2. round # scenario.rounds
      BY <1>2, <1>5, <1>8, <2>1
  <2>3. Earned(round, q.limits, r.limits)
      BY <1>6, <1>8
  <2>4. NextRound
      BY <2>2, <2>3, EndRoundsEarned
  <2>5. r.limits = e.next
      BY <1>3, <2>3, <2>4, EarnedOnce
  <2> QED BY <1>4, <1>8, <2>5
<1> QED
    BY <1>7, <1>8

LEMMA FileTiesRowsNext ==
    ASSUME RerunsAlike, Typed, Typed', Course, Consistent, Rechecked, Traceable,
           RowsEarned, CallEarned, RoundInCourse, FileTiesRows, [Next]_vars
    PROVE  FileTiesRows'
<1> SUFFICES ASSUME NEW r \in rows', r.step[1] = "search", r.step[2] \in 2..(Len(file'.rounds) + 1)
             PROVE  r.limits = file'.rounds[r.step[2] - 1].next
    BY DEF FileTiesRows, SearchRows
<1>1. \A s \in rows : s.step[1] = "search" /\ s.step[2] \in 2..(Len(file.rounds) + 1) =>
          s.limits = file.rounds[s.step[2] - 1].next
    BY DEF FileTiesRows, SearchRows, Traceable
<1>2. CASE NextRound \/ EndRounds
  <2>1. rows' = rows
      BY <1>2 DEF NextRound, EndRounds
  <2> QED BY <1>2, <2>1, WrittenTies
<1>3. CASE ~NextRound /\ ~EndRounds
  <2>1. file' = file
      BY <1>3, FileKept
  <2>2. CASE r \in rows
      BY <1>1, <2>1, <2>2
  <2>3. CASE r \notin rows
    <3>1. CASE Land /\ UNCHANGED recipeVars
      <4>1. PICK p \in run.todo : \E got \in Outcomes(p, run.limits, SearchCorners, FALSE) :
                Landed(p, got, SearchCorners, FALSE) /\ run.at = "search"
          BY <3>1, LandedBy
      <4>2. PICK got \in Outcomes(p, run.limits, SearchCorners, FALSE) :
                Landed(p, got, SearchCorners, FALSE) /\ run.at = "search"
          BY <4>1
      <4>3. r = RowOf(p, got)
          BY <2>3, <4>2 DEF Landed
      <4>4. r.step = run.step /\ r.limits = run.limits
          BY <4>3 DEF RowOf
      <4>5. run.step = <<"search", round>> /\ round \in 1..scenario.rounds
          BY <4>2, LandedEarned
      <4>6. r.step[2] = round /\ round # 1
          BY <4>4, <4>5
      <4>7. entries # <<>> /\ run.limits = entries[round - 1].next
          BY <4>2, <4>6, LandedEarned
      <4>8. file.rounds = entries
          BY <4>2, <4>7 DEF CallEarned
      <4> QED BY <2>1, <4>4, <4>6, <4>7, <4>8
    <3>2. CASE LandCheck
      <4>1. PICK p \in run.todo : \E got \in Outcomes(p, run.limits, Corners, ~scenario.full) :
                Landed(p, got, Corners, ~scenario.full) /\ run.at = "recheck"
          BY <3>2, LandedByCheck
      <4>2. PICK got \in Outcomes(p, run.limits, Corners, ~scenario.full) :
                Landed(p, got, Corners, ~scenario.full) /\ run.at = "recheck"
          BY <4>1
      <4>3. r = RowOf(p, got)
          BY <2>3, <4>2 DEF Landed
      <4>4. r.step[1] = "signoff"
          BY <4>2, <4>3 DEF RowOf, Course
      <4> QED BY <4>4
    <3> QED BY <2>3, <3>1, <3>2, RowsNext
  <2> QED BY <2>2, <2>3
<1> QED
    BY <1>2, <1>3

LEMMA TracedNext ==
    ASSUME RerunsAlike, Typed, Typed', Course, Course', Consistent, Consistent', Rechecked, Traced, [Next]_vars
    PROVE  Traced'
<1>1. scenario' = scenario
    BY DesignsNext DEF BeginStep, Land, LandCheck
<1>2. ASSUME scenario'.rounds = 1 PROVE file'.rounds = <<>>
  <2>1. ~EndRounds /\ ~NextRound
      BY <1>1, <1>2 DEF EndRounds, NextRound
  <2> QED BY <1>1, <1>2, <2>1, FileKept DEF Traced
<1>3. ASSUME Traceable' PROVE (RowsEarned /\ CallEarned /\ RoundInCourse /\ FileTiesRows)'
  <2>1. Traceable
      BY <1>1, <1>3 DEF Traceable
  <2>2. RowsEarned /\ CallEarned /\ RoundInCourse /\ FileTiesRows
      BY <2>1 DEF Traced
  <2> QED BY <2>1, <2>2, RowsEarnedNext, CallEarnedNext, RoundInCourseNext, FileTiesRowsNext
<1> QED
    BY <1>2, <1>3 DEF Traced

LEMMA TracedInit == Init => Traced
<1> SUFFICES ASSUME Init PROVE Traced
    OBVIOUS
<1>1. rows = {} /\ run.at = "idle" /\ file.rounds = <<>>
    BY DEF Init, CampaignInit, Idle, Unwritten
<1> QED
    BY <1>1 DEF Traced, RowsEarned, CallEarned, RoundInCourse, FileTiesRows, SearchRows

\* Whatever is cut off and run again, in calls of any budgets: where a rerun searches each round as it was searched, the file
\* of the rounds gives every row of a later round the limits it was searched under, and its moves add up.
THEOREM RoundsTracedCorrect == RerunsAlike => (Spec => []RoundsTraced)
<1> SUFFICES ASSUME RerunsAlike PROVE Spec => []RoundsTraced
    OBVIOUS
<1>1. Core /\ Core' /\ Traced /\ [Next]_vars => Traced'
    BY TracedNext DEF Core
<1>2. Core /\ Traced => RoundsTraced
  <2> SUFFICES ASSUME Core, Traced PROVE FileTiesRows
      BY DEF Core, RoundsTraced
  <2>1. CASE Traceable
      BY <2>1 DEF Traced
  <2>2. CASE scenario.rounds = 1
    <3>1. Len(file.rounds) = 0
        BY <2>2, EmptySeq DEF Traced
    <3>2. 2..(Len(file.rounds) + 1) = {}
        BY <3>1
    <3> QED BY <3>2 DEF FileTiesRows
  <2>3. scenario.rounds \in Nat \ {0}
      BY ScenarioFacts DEF Core, Typed
  <2> QED BY <2>1, <2>2, <2>3 DEF Traceable, FileTiesRows
<1> QED
    BY <1>1, <1>2, TracedInit, CoreCorrect, PTL DEF Spec
=============================================================================
