----------------------------- MODULE PointSchedule -----------------------------
(***************************************************************************)
(* One point's children, the schedule that orders and stops them, and the  *)
(* verdict (eval/engine.py, children_of and _run_point; eval/schedule.py;  *)
(* blocks/evaluate.py, stop_kinds; sim/corner.py, aggregate).              *)
(*                                                                         *)
(* Every unit gives one metric with one constraint on it: a child that ran *)
(* well gives a number, which passes up to Limit, and the objective of a   *)
(* corner is the sum of its metrics.  What each child would give is fixed  *)
(* at the start, so that the verdict of a point stopped early can be       *)
(* compared with the one it would have had.                                *)
(*                                                                         *)
(* Left out: library devices (ordered before the other devices, the same   *)
(* otherwise), warnings, and the scores the order is learned from: any     *)
(* order of the testbench children is one some history gives.              *)
(***************************************************************************)
EXTENDS Integers, Sequences, FiniteSets, FiniteSetsExt, Functions

CONSTANTS
    Specs,      \* the specs a point may be of
    Limit,      \* the largest value that passes
    Values,     \* bound: the values a metric takes
    StopFrom    \* STOP_FROM_SIMULATIONS

VARIABLES
    spec,      \* what the point's spec says
    outcome,   \* what each child would give
    order,     \* the order the children run in
    kinds,     \* the kinds of child whose failure stops the point; {} without a schedule
    place,     \* children of the order passed so far
    reason,    \* the child that stopped the point; NoChild while none has
    ran,       \* the children that ran
    verdict    \* the point's verdict once it is judged

vars == <<spec, outcome, order, kinds, place, reason, ran, verdict>>

\* spec.testbench_ids and spec.device_ids, and the run's corners (<<>> for a spec without them), each in the spec's order;
\* and its corner_policy.
SpecFields ==
    [testbenches : Seq(STRING), devices : Seq(STRING), corners : Seq(STRING),
     constraints : {"all_corners", "nominal"}, objective : {"worst_case", "nominal", "none"}]

NoCorner == "-"

\* Ids are unique within their kind (spec.py, _unique), and here a testbench has no device's id.
ASSUME ScheduleAssumption ==
    /\ Specs \subseteq SpecFields
    /\ \A s \in Specs :
          /\ IsInjective(s.testbenches) /\ IsInjective(s.devices) /\ IsInjective(s.corners)
          /\ Range(s.testbenches) \cap Range(s.devices) = {} /\ NoCorner \notin Range(s.corners)
    /\ Limit \in Nat /\ Values \subseteq Nat /\ StopFrom \in Nat

Testbenches == spec.testbenches
Devices == spec.devices
Corners == spec.corners

----------------------------------------------------------------------------
(* Children and their order *)

NoChild == [kind |-> "-", unit |-> "-", corner |-> NoCorner]

RunCorners == IF Corners = <<>> THEN <<NoCorner>> ELSE Corners

\* Testbench by testbench, each one's corners.
Grid(corners) ==
    [i \in 1..(Len(Testbenches) * Len(corners)) |->
        [kind |-> "testbench", unit |-> Testbenches[1 + ((i - 1) \div Len(corners))], corner |-> corners[1 + ((i - 1) % Len(corners))]]]

\* The engine's order: the testbenches' children, then the devices.
TestbenchChildren == Grid(RunCorners)
DeviceChildren == [d \in 1..Len(Devices) |-> [kind |-> "device", unit |-> Devices[d], corner |-> NoCorner]]
ChildrenOf == TestbenchChildren \o DeviceChildren
Children == Range(ChildrenOf)

\* The corners' names in the spec's order, and the first of a set of them.
CornerIds == IF Corners = <<>> THEN <<"nominal">> ELSE Corners
First(corners) == CornerIds[Min({i \in DOMAIN CornerIds : CornerIds[i] \in corners})]

\* "nominal" if it is one of them, else the first.
NominalOf(corners) == IF "nominal" \in corners THEN "nominal" ELSE First(corners)

\* Schedule.nominal; a run without corners has none.
Nominal == IF Corners = <<>> THEN NoCorner ELSE NominalOf(Range(Corners))

\* The corners with the nominal one moved to the front.
NominalFirst ==
    LET n == CHOOSE i \in DOMAIN RunCorners : RunCorners[i] = Nominal
    IN  [i \in 1..Len(RunCorners) |-> RunCorners[IF i = 1 THEN n ELSE IF i <= n THEN i - 1 ELSE i]]

\* The spec's order: the devices, then testbench by testbench, the nominal corner first.
SpecOrder == DeviceChildren \o Grid(NominalFirst)

\* Mutant: an order learned over every child, the devices among them.
OrdersOfAll(stopKinds) ==
    IF "testbench" \in stopKinds THEN Bijection(1..Len(ChildrenOf), Children) ELSE {SpecOrder}

\* Schedule.order: the devices first; the testbench children in any order a history may give them, or the spec's.
Orders(stopKinds) ==
    IF "testbench" \in stopKinds
    THEN {DeviceChildren \o s : s \in Bijection(1..Len(TestbenchChildren), Range(TestbenchChildren))}
    ELSE {SpecOrder}

----------------------------------------------------------------------------
(* What stops a point: blocks/evaluate.py, and Schedule.failure *)

Switch == {"true", "false", "none"}

StopWanted(override, switch) ==
    IF override # "none" THEN override = "true"
    ELSE IF switch # "none" THEN switch = "true"
    ELSE Len(TestbenchChildren) >= StopFrom

StopKinds(override, switch) ==
    {k \in {"testbench", "device"} :
        \/ k = "testbench" /\ StopWanted(override, switch)
        \/ k = "device" /\ Devices # <<>> /\ Testbenches # <<>>
                        /\ IF override # "none" THEN override = "true" ELSE switch # "false"}

\* A child's result: "failed:<stage>", "metric_failed" (its metric is lost), or its metric's value.
Failed == [status |-> "failed", value |-> 0]
Lost == [status |-> "metric_failed", value |-> 0]
Gave(v) == [status |-> "ok", value |-> v]
Result == {Failed, Lost} \cup {Gave(v) : v \in Values}

Violates(child) == outcome[child].status = "ok" /\ outcome[child].value > Limit

InScope(child) == spec.constraints # "nominal" \/ child.corner \in {NoCorner, Nominal}

\* Mutant: a violation counts at every corner.
FailsAnywhere(child) == outcome[child].status # "ok" \/ Violates(child)

\* Schedule.failure: the point cannot be feasible after this child.
Fails(child) == outcome[child].status # "ok" \/ (InScope(child) /\ Violates(child))

----------------------------------------------------------------------------
(* The verdict: sim/corner.py *)

\* Mutant: the corner-less children forgotten.
AtOwn(corner, set) == {c \in set : c.corner = corner}

\* The children of a set whose metrics count at a corner: its own and the corner-less ones.
At(corner, set) == {c \in set : c.corner \in {NoCorner, corner}}

\* The corners present: the children's; where no child has one, those the point was to run at, by its keys.
Present(set) ==
    LET corners == {c.corner : c \in set} \ {NoCorner}
    IN  IF Corners = <<>> THEN {"nominal"}
        ELSE IF corners # {} THEN corners
        ELSE IF Testbenches # <<>> THEN Range(Corners)
        ELSE {"nominal"} \cap Range(Corners)

\* The sum of a number of each member of a set.
SumOver(amount) == Cardinality(UNION {{x} \X (1..amount[x]) : x \in DOMAIN amount})

ViolatesAt(corner, set) == {c \in At(corner, set) : Violates(c)}

\* The sum of squared violations at a corner.
Penalty(corner, set) ==
    SumOver([c \in ViolatesAt(corner, set) |-> (outcome[c].value - Limit) * (outcome[c].value - Limit)])

\* Mutant: the verdict looks at the nominal corner whatever the policy.
ScopeNominal(set) == {NominalOf(Present(set))}

\* The corners whose violations fail the point.
Scope(set) == IF spec.constraints = "nominal" THEN {NominalOf(Present(set))} ELSE Present(set)

Violating(set) == {corner \in Scope(set) : ViolatesAt(corner, set) # {}}

\* The corner in the scope with the largest penalty, the first of equal ones; NoCorner when none violates.
Violated(set) ==
    IF Violating(set) = {} THEN NoCorner
    ELSE First({corner \in Violating(set) : \A k \in Violating(set) : Penalty(k, set) <= Penalty(corner, set)})

Verdict(status, corner) == [status |-> status, corner |-> corner]

\* A child of the set with this status.
Some(set, status) == \E c \in set : outcome[c].status = status

\* _incomplete; with nothing that fails the point it raises ValueError.
Incomplete(set) ==
    IF Some(set, "failed") THEN Verdict("failed", NoCorner)
    ELSE IF Some(set, "metric_failed") THEN Verdict("metric_failed", NoCorner)
    ELSE IF Violating(set) = {} THEN Verdict("ValueError", NoCorner)
    ELSE Verdict("constraint_failed", Violated(set))

\* A corner's objective; objective.evaluate gives none where a constraint is violated.
ObjectiveAt(corner) == SumOver([c \in At(corner, Children) |-> outcome[c].value])
HasObjective(corner) == spec.objective # "none" /\ ViolatesAt(corner, Children) = {}

\* The corner whose objective is worst; max() raises TypeError when it compares a corner without one with another.
WorstObjective ==
    LET all == Present(Children)
        corners == IF spec.objective = "nominal" THEN {NominalOf(all)} ELSE all
    IN  IF spec.objective = "none" THEN Verdict("ok", NominalOf(all))
        ELSE IF \E c, d \in corners : c # d /\ ~HasObjective(c) THEN Verdict("TypeError", NoCorner)
        ELSE Verdict("ok", First({c \in corners : \A k \in corners : ObjectiveAt(k) <= ObjectiveAt(c)}))

\* aggregate for the complete set; corner_ids[0] raises IndexError where no corner is present.
Complete ==
    IF Some(Children, "failed") THEN Verdict("failed", NoCorner)
    ELSE IF Present(Children) = {} THEN Verdict("IndexError", NoCorner)
    ELSE IF Some(Children, "metric_failed") THEN Verdict("metric_failed", NoCorner)
    ELSE IF Violating(Children) # {} THEN Verdict("constraint_failed", Violated(Children))
    ELSE WorstObjective

\* aggregate, for the children that ran.
Aggregate(set) == IF set = Children THEN Complete ELSE Incomplete(set)

\* The first of a set of children in the engine's order.
FirstChild(set) == ChildrenOf[Min({i \in DOMAIN ChildrenOf : ChildrenOf[i] \in set})]

\* _stopper: the child the recorded point names as the one it stopped after.
Stopper(set) ==
    LET with(status) == {c \in set : outcome[c].status = status}
    IN  IF Some(set, "failed") THEN FirstChild(with("failed"))
        ELSE IF Some(set, "metric_failed") THEN FirstChild(with("metric_failed"))
        ELSE IF Violating(set) # {} THEN FirstChild(ViolatesAt(Violated(set), set))
        ELSE NoChild

----------------------------------------------------------------------------
(* _run_point *)

NoVerdict == Verdict("-", NoCorner)

Init ==
    /\ spec \in Specs
    /\ outcome \in [Children -> Result]
    /\ \E override, switch \in Switch : kinds = StopKinds(override, switch)
    /\ order \in IF kinds = {} THEN {ChildrenOf} ELSE Orders(kinds)
    /\ place = 0 /\ reason = NoChild /\ ran = {} /\ verdict = NoVerdict

\* A device has stopped the point: it ends before its first testbench child.
StopsHere == reason # NoChild /\ (reason.kind # "device" \/ order[place + 1].kind # "device")

\* Mutant: a device that fails ends the point at once.
RunChildStopsAtDevice ==
    /\ verdict = NoVerdict /\ place < Len(order) /\ reason = NoChild
    /\ LET child == order[place + 1]
       IN  /\ ran' = ran \cup {child}
           /\ reason' = IF kinds # {} /\ child.kind \in kinds /\ Fails(child) THEN child ELSE reason
           /\ place' = IF reason' # NoChild THEN Len(order) ELSE place + 1
    /\ UNCHANGED <<spec, outcome, order, kinds, verdict>>

\* The next child runs; a stop is looked for while there is none, and never after the last child.
RunChild ==
    /\ verdict = NoVerdict /\ place < Len(order) /\ ~StopsHere
    /\ LET child == order[place + 1]
       IN  /\ ran' = ran \cup {child}
           /\ reason' = IF reason = NoChild /\ place + 1 < Len(order) /\ child.kind \in kinds /\ Fails(child)
                        THEN child ELSE reason
    /\ place' = place + 1
    /\ UNCHANGED <<spec, outcome, order, kinds, verdict>>

\* Every child ran, or the point is stopped: it is judged.
Judge ==
    /\ verdict = NoVerdict
    /\ place = Len(order) \/ StopsHere
    /\ verdict' = Aggregate(ran)
    /\ UNCHANGED <<spec, outcome, order, kinds, place, reason, ran>>

Next == RunChild \/ Judge

Spec == Init /\ [][Next]_vars

----------------------------------------------------------------------------
(* Properties *)

Judged == verdict # NoVerdict
Stopped == Judged /\ ran # Children

TypeOK ==
    /\ spec \in Specs
    /\ outcome \in [Children -> Result] /\ kinds \subseteq {"testbench", "device"}
    /\ order \in Bijection(1..Len(ChildrenOf), Children)
    /\ place \in 0..Len(order) /\ ran = {order[i] : i \in 1..place}
    /\ reason \in ran \cup {NoChild}

\* A point the schedule stopped fails, and would have failed had its other children run, whatever they give
\* (schedule.py, "the first child whose result shows the point cannot be feasible").
StopIsSound == Stopped => {verdict.status, Complete.status} \subseteq {"failed", "metric_failed", "constraint_failed"}

\* Every point whose children ran has a verdict: the corner policy raises nothing (corner.py, aggregate).
EveryPointJudged == Judged => verdict.status \notin {"ValueError", "TypeError", "IndexError"}

\* No simulation of a point runs after one that fails it, and none after a device that does, but every device is measured.
NothingAfterFailure ==
    Judged =>
        /\ \A c \in Children : c.kind = "device" => c \in ran
        /\ \A i, k \in 1..place :
              i < k /\ order[i].kind \in kinds /\ Fails(order[i]) => order[k].kind = "device"

\* The child a stopped point's record names is the one that stopped it -- for a device, one of the devices: the digest
\* counts where points stop by it (corner.py, stopper and stopped_at_device).
StopperNamed ==
    Stopped => /\ Stopper(ran).kind = reason.kind
               /\ reason.kind = "testbench" => Stopper(ran) = reason
=============================================================================
