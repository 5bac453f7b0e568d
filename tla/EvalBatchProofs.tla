-------------------------- MODULE EvalBatchProofs --------------------------
(***************************************************************************)
(* Theorems about EvalBatch, for every value of its constants.             *)
(***************************************************************************)
EXTENDS EvalBatch, TableLemmas

----------------------------------------------------------------------------
(* Numbers and sets *)

\* The table's rows are rows of TableLemmas.
LEMMA RowsOfTable == Rows(Row)
BY DEF Rows, Row

\* The numbers of a table's rows are finitely many.
LEMMA IdsFinite ==
    ASSUME NEW rows \in Seq(Row)
    PROVE  Ids(rows) \subseteq Nat /\ IsFiniteSet(Ids(rows))
<1>1. IdSet(rows) \subseteq Nat /\ IsFiniteSet(IdSet(rows))
    BY RowsOfTable, IdSetFinite
<1> QED
    BY <1>1 DEF Ids, Table!Ids, IdSet

\* The next number is new: no row and no directory has it.
LEMMA NextIndexFresh ==
    ASSUME file \in Seq(Row), dirs \subseteq Nat, IsFiniteSet(dirs)
    PROVE  NextIndex \in Nat \ {0} /\ \A n \in Ids(file) \cup dirs : n < NextIndex
BY IdsFinite, NextOfSets DEF NextIndex

\* The count the table uses is the number of its simulations (a bridge between the two instances of Cardinality).
LEMMA SimulationsCounted ==
    ASSUME NEW rows
    PROVE  SimulationsOf(rows) = Cardinality(SimulationSet(rows))
BY DEF SimulationsOf, Table!SimulationsOf, Table!Simulations, SimulationSet, Table!Cardinality, Cardinality

\* A table's simulations are counted by a number.
LEMMA SimulationsFinite ==
    ASSUME NEW rows \in Seq(Row)
    PROVE  SimulationsOf(rows) \in Nat
BY RowsOfTable, SimulationSetFinite, SimulationsCounted

----------------------------------------------------------------------------
(* The inductive invariant *)

\* The jobs that hold a number of their own.
Own(j) == ~job[j].reused /\ job[j].phase # "none"

\* Numbers: the rows' are distinct, the jobs' are distinct, a job that may still append holds one no row has, and what
\* planning hands out next is past them all.
Numbering ==
    /\ \A i, k \in DOMAIN file : file[i].id = file[k].id => i = k
    /\ \A j, k \in Slot : Own(j) /\ Own(k) /\ job[j].id = job[k].id => j = k
    /\ \A j \in Reserved : job[j].id \notin Ids(file)
    /\ main = "planning" =>
          /\ \A n \in Ids(file) \cup dirs : n < nextIndex
          /\ \A j \in Slot : Own(j) => job[j].id < nextIndex

\* What a job's phase says of its other fields.
ShapeOf(j) ==
    /\ job[j].reused => job[j].phase \in {"planned", "queued", "returned", "cancelled"}
    /\ job[j].phase \in {"none", "planned", "queued"} => job[j].results = <<>> /\ ~job[j].signalled
    /\ main = "planning" => job[j].phase \in {"none", "planned"} /\ (job[j].phase = "planned" => j <= planned)

Shape == \A j \in Slot : ShapeOf(j)

HasKilled(results) == \E i \in DOMAIN results : results[i] = "killed"

InterruptedOf(j) ==
    /\ job[j].phase \in Busy /\ (job[j].signalled \/ HasKilled(job[j].results)) => Stopping
    /\ job[j].phase = "passed" => ~HasKilled(job[j].results)

\* An interrupt is counted before any command gets it, so what it killed is seen as interrupted.
Interruption ==
    /\ seen <= interrupts
    /\ main = "idle" => handler = "none"
    /\ handler # "none" /\ main # "planning" => interrupts # seen
    /\ \A j \in Slot : InterruptedOf(j)
    /\ \A i \in DOMAIN file : Table!Honest(file[i])

\* While a job of the call may append, the ok rows of its point are the call's own.
Reuse ==
    /\ OkPointsReused
    /\ \A j \in Reserved : \A i \in DOMAIN file :
          file[i].ok /\ file[i].point = job[j].point => file[i].call = calls

\* What is reserved covers what the jobs may still cost.
CostOf(j) ==
    /\ Len(job[j].results) <= NChildren
    /\ job[j].cache = "miss" => PointRuns = 1
    /\ job[j].phase \in {"between", "starting", "running"} => ~Complete(job[j].results)

Budget ==
    /\ \A j \in Slot : CostOf(j)
    /\ BudgetKept
    /\ main = "planning" => SimulationsOf(file) + PerPoint * Cardinality(Reserved) <= used

IInv == TypeOK /\ Numbering /\ Shape /\ Interruption /\ Reuse /\ Budget

----------------------------------------------------------------------------
(* Type correctness *)

\* A Slot is a number, and the next one to plan is a slot.
LEMMA PlannedSlot ==
    ASSUME TypeOK, planned < Len(points)
    PROVE  planned + 1 \in Slot /\ planned + 1 \in 1..Len(points) /\ points[planned + 1] \in Point
<1>1. Len(points) \in Nat /\ Len(points) <= MaxBatch /\ planned \in Nat
    BY LenProperties DEF TypeOK
<1>2. planned + 1 \in 1..Len(points) /\ planned + 1 \in Slot
    BY <1>1, BatchAssumption DEF Slot
<1> QED
    BY <1>2, ElementOfSeq DEF TypeOK

\* The empty job is a job, and a call starts with one in every slot.
LEMMA NoJobType == NoJob \in Job /\ [j \in Slot |-> NoJob] \in [Slot -> Job]
<1>1. (CHOOSE p \in Point : TRUE) \in Point
    BY BatchAssumption
<1>2. <<>> \in Seq(Outcome)
    BY EmptySeq
<1> QED
    BY <1>1, <1>2 DEF NoJob, Job, Phase

\* What a job becomes, whatever else changes.
LEMMA ToType ==
    ASSUME job \in [Slot -> Job], NEW j \in Slot, NEW phase \in Phase, To(j, phase)
    PROVE  job' \in [Slot -> Job]
BY DEF To, Job

\* Setting one field of one job.
LEMMA FieldTypes ==
    ASSUME NEW f \in [Slot -> Job], NEW j \in Slot
    PROVE  /\ \A x \in Phase : [f EXCEPT ![j].phase = x] \in [Slot -> Job]
           /\ \A x \in Seq(Outcome) : [f EXCEPT ![j].results = x] \in [Slot -> Job]
           /\ \A x \in {"none", "hit", "miss"} : [f EXCEPT ![j].cache = x] \in [Slot -> Job]
           /\ \A x \in Nat : [f EXCEPT ![j].tries = x] \in [Slot -> Job]
           /\ \A x \in BOOLEAN : /\ [f EXCEPT ![j].started = x] \in [Slot -> Job]
                                 /\ [f EXCEPT ![j].recorded = x] \in [Slot -> Job]
                                 /\ [f EXCEPT ![j].signalled = x] \in [Slot -> Job]
<1>1. ASSUME NEW x \in Phase PROVE [f EXCEPT ![j].phase = x] \in [Slot -> Job]
    BY DEF Job
<1>2. ASSUME NEW x \in Seq(Outcome) PROVE [f EXCEPT ![j].results = x] \in [Slot -> Job]
    BY DEF Job
<1>3. ASSUME NEW x \in {"none", "hit", "miss"} PROVE [f EXCEPT ![j].cache = x] \in [Slot -> Job]
    BY DEF Job
<1>4. ASSUME NEW x \in BOOLEAN
      PROVE  /\ [f EXCEPT ![j].started = x] \in [Slot -> Job]
             /\ [f EXCEPT ![j].recorded = x] \in [Slot -> Job]
             /\ [f EXCEPT ![j].signalled = x] \in [Slot -> Job]
    BY DEF Job
<1>5. ASSUME NEW x \in Nat PROVE [f EXCEPT ![j].tries = x] \in [Slot -> Job]
    BY DEF Job
<1> QED
    BY <1>1, <1>2, <1>3, <1>4, <1>5

\* What a job starts is one of its stages, or the removal.
LEMMA StartsType ==
    ASSUME TypeOK, NEW j \in Slot, NEW stage \in Nat, Starts(j, stage)
    PROVE  late' \in [Slot -> SUBSET Nat]
BY DEF TypeOK, Starts

LEMMA StageOfType ==
    ASSUME TypeOK, NEW j \in Slot
    PROVE  StageOf(j) \in Nat /\ Removal \in Nat
<1>1. Len(job[j].results) \in Nat
    BY LenProperties DEF TypeOK, Job
<1> QED
    BY <1>1, BatchAssumption DEF StageOf, Removal

\* Cancelling what is queued leaves jobs (engine.py, shutdown with cancel_futures).
LEMMA CancelledType ==
    ASSUME job \in [Slot -> Job]
    PROVE  Cancelled \in [Slot -> Job]
<1>1. \A j \in Slot : [job[j] EXCEPT !.phase = "cancelled"] \in Job
    BY DEF Job, Phase
<1> QED BY <1>1 DEF Cancelled

\* The row a job at its end appends is a row of the table (engine.py, Observation).
LEMMA RowType ==
    ASSUME TypeOK, NEW j \in Slot
    PROVE  RowOf(j) \in Row
<1>1. job[j] \in Job /\ calls \in Nat
    BY DEF TypeOK
<1>2. Len(job[j].results) \in Nat /\ job[j].results \in Seq(Outcome)
    BY <1>1, LenProperties DEF Job
<1>3. AllOk(job[j].results) \in BOOLEAN
    BY DEF AllOk
<1> DEFINE miss == IF job[j].cache = "miss" THEN 1 ELSE 0
<1>4. Len(job[j].results) + miss \in Nat
  <2>1. miss \in {0, 1}
      OBVIOUS
  <2> HIDE DEF miss
  <2> QED BY <1>2, <2>1
<1>5. job[j].id \in Nat /\ job[j].point \in Point
    BY <1>1 DEF Job
<1> QED
    BY <1>1, <1>2, <1>3, <1>4, <1>5 DEF RowOf, Row

\* The two rows a batch writes to the step log are step rows (engine.py, _log_interrupted and the ok row).
LEMMA StepRowTypes ==
    ASSUME TypeOK
    PROVE  OkRow \in StepRow /\ InterruptedRow \in StepRow
<1>1. New \subseteq Slot /\ IsFiniteSet(New)
  <2>1. Len(points) \in Nat /\ Len(points) <= MaxBatch
      BY LenProperties DEF TypeOK
  <2>2. IsFiniteSet(1..Len(points))
      BY <2>1, FS_Interval
  <2>3. New \in SUBSET (1..Len(points))
      BY DEF New
  <2>4. 1..Len(points) \subseteq Slot
      BY <2>1, BatchAssumption DEF Slot
  <2>5. IsFiniteSet(New)
      BY <2>2, <2>3, FS_Subset
  <2> QED BY <2>3, <2>4, <2>5
<1>2. \A js \in SUBSET New : Cardinality(js) \in Nat /\ IdsOf(js) \subseteq Nat
  <2> TAKE js \in SUBSET New
  <2>1. Cardinality(js) \in Nat
      BY <1>1, FS_Subset, FS_CardinalityType
  <2>2. \A j \in js : job[j].id \in Nat
      BY <1>1 DEF TypeOK, Job
  <2> QED BY <2>1, <2>2 DEF IdsOf
<1>3. calls \in Nat
    BY DEF TypeOK
<1> DEFINE Rec == {j \in New : job[j].recorded}
           Int_ == {j \in New : job[j].started /\ ~job[j].recorded}
           Not_ == {j \in New : ~job[j].started}
<1>4. Rec \in SUBSET New /\ Int_ \in SUBSET New /\ Not_ \in SUBSET New
    OBVIOUS
<1>5. InterruptedRow = [status |-> "interrupted", call |-> calls, new |-> Cardinality(Rec),
                        recorded |-> IdsOf(Rec), interrupted |-> IdsOf(Int_), notStarted |-> IdsOf(Not_)]
    BY DEF InterruptedRow
<1>6. OkRow = [status |-> "ok", call |-> calls, new |-> Cardinality(New),
               recorded |-> {}, interrupted |-> {}, notStarted |-> {}]
    BY DEF OkRow
<1> HIDE DEF Rec, Int_, Not_
<1>7. Cardinality(Rec) \in Nat /\ IdsOf(Rec) \subseteq Nat /\ IdsOf(Int_) \subseteq Nat /\ IdsOf(Not_) \subseteq Nat
    BY <1>2, <1>4
<1>8. InterruptedRow \in StepRow
    BY <1>3, <1>5, <1>7 DEF StepRow
<1>9. OkRow \in StepRow
    BY <1>2, <1>3, <1>6 DEF StepRow
<1> QED
    BY <1>8, <1>9


\* Every step keeps the types.
LEMMA TypeNext ==
    ASSUME TypeOK, [Next]_vars
    PROVE  TypeOK'
<1>0. job \in [Slot -> Job]
    BY DEF TypeOK
<1>1. CASE \E request \in Requests : Call(request)
  <2>1. PICK request \in Requests : Call(request)
      BY <1>1
  <2>2. request \in Seq(Point) /\ Len(request) \in 1..MaxBatch /\ MaxBatch \in Nat
      BY BatchAssumption
  <2>3. NextIndex \in Nat \ {0} /\ SimulationsOf(file) \in Nat
      BY NextIndexFresh, SimulationsFinite DEF TypeOK
  <2>4. Len(request) <= MaxBatch /\ 0 \in 0..Len(request) /\ 1 \in 1..(MaxBatch + 1)
      BY <2>2
  <2>5. calls + 1 \in Nat
      BY DEF TypeOK
  <2>6. job' \in [Slot -> Job] /\ "planning" \in Main
      BY <2>1, NoJobType DEF Call, Main
  <2> QED BY <2>1, <2>2, <2>3, <2>4, <2>5, <2>6 DEF TypeOK, Call, store, signal
<1>2. CASE PlanReuse
  <2>1. PICK i \in DOMAIN file :
            job' = [job EXCEPT ![planned + 1] = [NoJob EXCEPT !.id = file[i].id, !.point = points[planned + 1],
                                                               !.reused = TRUE, !.phase = "planned"]]
      BY <1>2 DEF PlanReuse, Reusable
  <2>2. file[i] \in Row
      BY <2>1, LenProperties DEF TypeOK
  <2>3. planned < Len(points)
      BY <1>2 DEF PlanReuse
  <2>4. job' \in [Slot -> Job]
      BY <2>1, <2>2, <2>3, PlannedSlot, NoJobType DEF TypeOK, Job, Row, Phase
  <2>5. planned + 1 \in 0..Len(points)
      BY <2>3, LenProperties DEF TypeOK
  <2> QED BY <1>2, <2>4, <2>5 DEF TypeOK, PlanReuse, store, mainVar, signal, bounds
<1>3. CASE PlanNew
  <2>1. planned < Len(points)
      BY <1>3 DEF PlanNew
  <2>2. job' \in [Slot -> Job]
      BY <1>3, <2>1, PlannedSlot, NoJobType DEF TypeOK, PlanNew, Job, Phase
  <2>3. planned + 1 \in 0..Len(points)
      BY <2>1, LenProperties DEF TypeOK
  <2>4. PerPoint \in Nat
      BY BatchAssumption DEF PerPoint
  <2> QED BY <1>3, <2>2, <2>3, <2>4 DEF TypeOK, PlanNew, store, mainVar, signal, bounds
<1>4. CASE PlanRefused
    BY <1>4, NoJobType DEF TypeOK, PlanRefused, Main, store, plan, signal, bounds
<1>5. CASE Submit
  <2>1. \A j \in Slot : [job[j] EXCEPT !.phase = "queued"] \in Job
      BY <1>0 DEF Job, Phase
  <2>2. job' \in [Slot -> Job]
      BY <1>0, <1>5, <2>1 DEF Submit
  <2>3. /\ main' \in Main /\ seen' \in Nat
        /\ UNCHANGED <<file, steps, dirs, points, planned, used, nextIndex, wait, stop, lock, interrupts, handler>>
        /\ UNCHANGED <<late, calls, crashes>>
      BY <1>5 DEF TypeOK, Submit, Main, store, plan, signal, bounds
  <2> QED BY <2>2, <2>3 DEF TypeOK
<1>6. ASSUME NEW j \in Slot, Take(j)
      PROVE  TypeOK'
  <2>1. job' \in [Slot -> Job]
    <3>1. CASE TakeReused(j) \/ TakeAfterInterrupt(j)
        BY <1>0, <3>1, ToType DEF TakeReused, TakeAfterInterrupt, Phase
    <3>2. CASE TakeUp(j)
        BY <1>0, <3>2, FieldTypes DEF TakeUp, Phase
    <3> QED BY <1>6, <3>1, <3>2 DEF Take
  <2>2. dirs' \subseteq Nat /\ IsFiniteSet(dirs')
    <3>1. CASE TakeUp(j)
      <4>1. dirs' = dirs \cup {job[j].id} /\ job[j].id \in Nat
          BY <3>1 DEF TypeOK, TakeUp, Job
      <4> QED BY <4>1, FS_AddElement DEF TypeOK
    <3> QED BY <1>6, <3>1 DEF TypeOK, Take, TakeReused, TakeAfterInterrupt, store
  <2> QED
      BY <1>6, <2>1, <2>2 DEF TypeOK, Take, TakeReused, TakeAfterInterrupt, TakeUp, store, plan, mainVar, signal, bounds
<1>7. ASSUME NEW j \in Slot, AppendRow(j)
      PROVE  TypeOK'
  <2>1. job' \in [Slot -> Job]
      BY <1>7, ToType DEF TypeOK, AppendRow, Phase
  <2>2. file' \in Seq(Row)
      BY <1>7, RowType, AppendProperties DEF TypeOK, AppendRow
  <2> QED BY <1>7, <2>1, <2>2 DEF TypeOK, AppendRow, plan, mainVar, signal, bounds
<1>8. ASSUME NEW j \in Slot, Spawn(j)
      PROVE  TypeOK'
  <2>1. job' \in [Slot -> Job]
      BY <1>0, <1>8, FieldTypes DEF Spawn, Phase
  <2>2. late' \in [Slot -> SUBSET Nat]
      BY <1>8, StageOfType, StartsType DEF Spawn
  <2> QED BY <1>8, <2>1, <2>2 DEF TypeOK, Spawn, store, plan, mainVar, signal, bounds
<1>9. ASSUME NEW j \in Slot, NEW outcome \in Outcome, PointStageEnds(j, outcome)
      PROVE  TypeOK'
  <2>1. [i \in 1..NChildren |-> outcome] \in Seq(Outcome)
      BY BatchAssumption
  <2>2. job' \in [Slot -> Job]
      BY <1>0, <1>9, <2>1, FieldTypes DEF PointStageEnds, Phase
  <2> QED BY <1>9, <2>2 DEF TypeOK, PointStageEnds, store, plan, mainVar, signal, bounds
<1>10. ASSUME NEW j \in Slot, NEW outcome \in Outcome, ChildEnds(j, outcome)
       PROVE  TypeOK'
  <2>1. Append(job[j].results, outcome) \in Seq(Outcome)
      BY AppendProperties DEF TypeOK, Job
  <2>2. job' \in [Slot -> Job]
      BY <1>0, <1>10, <2>1, FieldTypes DEF ChildEnds, Phase
  <2> QED BY <1>10, <2>2 DEF TypeOK, ChildEnds, store, plan, mainVar, signal, bounds
<1>11. ASSUME NEW j \in Slot,
              \/ BetweenInterrupted(j) \/ Begin(j) \/ Retry(j) \/ CommandRaises(j) \/ JudgeInterrupted(j) \/ Judge(j)
              \/ Retain(j) \/ RetainRaises(j)
       PROVE  TypeOK'
  <2>1. job' \in [Slot -> Job]
    <3>1. CASE Retry(j)
      <4>1. job[j].tries + 1 \in Nat
          BY <1>0 DEF Job
      <4> QED BY <1>0, <3>1, <4>1, FieldTypes DEF Retry, Phase
    <3> QED
        BY <1>11, <3>1, ToType
           DEF TypeOK, BetweenInterrupted, Begin, CommandRaises, JudgeInterrupted, Judge, Retain, RetainRaises, Phase
  <2>2. late' \in [Slot -> SUBSET Nat]
    <3>1. CASE Retain(j) \/ RetainRaises(j)
        BY <3>1, StageOfType, StartsType DEF Retain, RetainRaises, TypeOK
    <3> QED BY <1>11, <3>1 DEF TypeOK, BetweenInterrupted, Begin, Retry, CommandRaises, JudgeInterrupted, Judge
  <2> QED
      BY <1>11, <2>1, <2>2
         DEF TypeOK, BetweenInterrupted, Begin, Retry, CommandRaises, JudgeInterrupted, Judge, Retain, RetainRaises,
             store, plan, mainVar, signal, bounds
<1>12. ASSUME NEW j \in Slot, CacheHit(j) \/ MarkRecorded(j)
       PROVE  TypeOK'
  <2>1. job' \in [Slot -> Job]
    <3>1. CASE CacheHit(j)
        BY <1>0, <3>1, FieldTypes DEF CacheHit
    <3>2. CASE MarkRecorded(j)
        BY <1>0, <3>2, FieldTypes DEF MarkRecorded, Phase
    <3> QED BY <1>12, <3>1, <3>2
  <2> QED BY <1>12, <2>1 DEF TypeOK, CacheHit, MarkRecorded, store, plan, mainVar, signal, bounds
<1>13. CASE MainNext
  <2>1. wait + 1 \in 1..(MaxBatch + 1)
      BY <1>13, BatchAssumption, LenProperties DEF TypeOK, MainNext
  <2> QED BY <1>13, <2>1 DEF TypeOK, MainNext, store, plan, signal, bounds
<1>14. CASE MainLogs \/ ShutdownEnds \/ RaiseInShutdown
  <2>1. steps \in Seq(StepRow) /\ OkRow \in StepRow /\ InterruptedRow \in StepRow
      BY StepRowTypes DEF TypeOK
  <2>2. steps' = Append(steps, OkRow) \/ steps' = Append(steps, InterruptedRow)
      BY <1>14 DEF MainLogs, ShutdownEnds, RaiseInShutdown
  <2>3. steps' \in Seq(StepRow)
      BY <2>1, <2>2, AppendProperties
  <2> QED BY <1>14, <2>3 DEF TypeOK, MainLogs, ShutdownEnds, RaiseInShutdown, Main, plan, signal, bounds
<1>15. CASE MainRaised \/ RaiseInWaiting
  <2>1. job' \in [Slot -> Job]
      BY <1>15, CancelledType DEF TypeOK, MainRaised, RaiseInWaiting
  <2> QED BY <1>15, <2>1 DEF TypeOK, MainRaised, RaiseInWaiting, Main, store, plan, signal, bounds
<1>16. CASE MainDone \/ Unwound \/ RaiseInUnwinding \/ RaiseInLogging
    BY <1>16 DEF TypeOK, MainDone, Unwound, RaiseInUnwinding, RaiseInLogging, Main, store, plan, signal, bounds
<1>17. CASE Interrupt
    BY <1>17 DEF TypeOK, Interrupt, store, plan, mainVar, bounds
<1>18. CASE SignalGroups
  <2>0. \A j \in Slot : [job[j] EXCEPT !.signalled = TRUE] \in Job
      BY <1>0 DEF Job
  <2>1. job' \in [Slot -> Job]
      BY <1>0, <1>18, <2>0 DEF SignalGroups
  <2>2. /\ handler' = "raising"
        /\ UNCHANGED <<file, steps, dirs, points, planned, used, nextIndex, main, wait, stop, seen, lock, interrupts>>
        /\ UNCHANGED <<late, calls, crashes>>
      BY <1>18 DEF SignalGroups, store, plan, mainVar, bounds
  <2> QED BY <2>1, <2>2 DEF TypeOK
<1>19. CASE RaiseInPlanning \/ Crash
  <2>1. job' \in [Slot -> Job]
      BY <1>19, NoJobType DEF RaiseInPlanning, Crash
  <2>2. CASE RaiseInPlanning
      BY <2>1, <2>2 DEF TypeOK, RaiseInPlanning, Main, store, plan, bounds
  <2>3. CASE Crash
    <3>0. crashes' \in Nat
      <4>1. crashes \in Nat /\ crashes' = crashes + 1
          BY <2>3 DEF TypeOK, Crash
      <4> QED BY <4>1
    <3>1. main' \in Main /\ lock' \in BOOLEAN /\ handler' \in {"none", "signalling", "raising"}
        BY <2>3 DEF Crash, Main
    <3>2. UNCHANGED <<store, plan, wait, stop, seen, interrupts, late, calls>>
        BY <2>3 DEF Crash
    <3> QED BY <2>1, <3>0, <3>1, <3>2 DEF TypeOK, store, plan
  <2> QED BY <1>19, <2>2, <2>3
<1>20. CASE UNCHANGED vars
    BY <1>20 DEF TypeOK, vars, store, plan, mainVar, signal, bounds
<1> QED
    BY <1>1, <1>2, <1>3, <1>4, <1>5, <1>6, <1>7, <1>8, <1>9, <1>10, <1>11, <1>12, <1>13, <1>14, <1>15, <1>16, <1>17,
       <1>18, <1>19, <1>20 DEF Next, Work, MainStep, HandlerStep

\* The initial state is well typed.
LEMMA TypeInit == Init => TypeOK
<1> SUFFICES ASSUME Init PROVE TypeOK
    OBVIOUS
<1>1. <<>> \in Seq(Row) /\ <<>> \in Seq(StepRow) /\ <<>> \in Seq(Point) /\ Len(<<>>) = 0
    BY EmptySeq
<1>2. IsFiniteSet({})
    BY FS_EmptySet
<1>3. job \in [Slot -> Job] /\ wait \in 1..(MaxBatch + 1) /\ planned \in 0..Len(points)
    BY <1>1, NoJobType, BatchAssumption DEF Init
<1>4. Len(points) <= MaxBatch
    BY <1>1, BatchAssumption DEF Init
<1>5. file \in Seq(Row) /\ steps \in Seq(StepRow) /\ points \in Seq(Point)
    BY <1>1 DEF Init
<1>6. dirs \subseteq Nat /\ IsFiniteSet(dirs)
    BY <1>2 DEF Init
<1>7. lock \in BOOLEAN /\ stop \in BOOLEAN /\ main \in Main /\ handler \in {"none", "signalling", "raising"}
    BY DEF Init, Main
<1>8. /\ used \in Nat /\ nextIndex \in Nat \ {0} /\ interrupts \in Nat /\ seen \in Nat
      /\ late \in [Slot -> SUBSET Nat] /\ calls \in Nat /\ crashes \in Nat
    BY DEF Init
<1> QED BY <1>3, <1>4, <1>5, <1>6, <1>7, <1>8 DEF TypeOK

\* Every variable keeps its type: a new observation's number is always one a file name can carry, however often the run
\* was interrupted or killed.
THEOREM TypeCorrect == Spec => []TypeOK
<1>1. TypeOK /\ [Next]_vars => TypeOK'
    BY TypeNext
<1> QED
    BY TypeInit, <1>1, PTL DEF Spec

----------------------------------------------------------------------------
(* The shape of the jobs *)

\* Every step keeps the shape of a batch: which slots are planned, when workers run, what a row counts.
LEMMA ShapeNext ==
    ASSUME TypeOK, Shape, [Next]_vars
    PROVE  Shape'
<1> SUFFICES ASSUME NEW k \in Slot PROVE ShapeOf(k)'
    BY DEF Shape
<1>0. job \in [Slot -> Job] /\ job[k] \in Job /\ ShapeOf(k) /\ planned \in Nat /\ k \in Nat
  <2>1. Len(points) \in Nat
      BY LenProperties DEF TypeOK
  <2> QED BY <2>1, BatchAssumption DEF TypeOK, Shape, Slot
<1>1. ASSUME job'[k] = NoJob
      PROVE  ShapeOf(k)'
    BY <1>1 DEF ShapeOf, NoJob
<1>2. CASE PlanReuse \/ PlanNew
  <2>1. planned + 1 \in Slot
      BY <1>2, PlannedSlot DEF PlanReuse, PlanNew
  <2>2. \/ job'[k] = job[k]
        \/ k = planned + 1 /\ job'[k].phase = "planned" /\ job'[k].results = <<>> /\ ~job'[k].signalled
    <3>1. CASE PlanReuse
        BY <1>0, <2>1, <3>1 DEF PlanReuse, NoJob
    <3>2. CASE PlanNew
        BY <1>0, <2>1, <3>2 DEF PlanNew, NoJob
    <3> QED BY <1>2, <3>1, <3>2
  <2>3. planned' = planned + 1 /\ main' = main
      BY <1>2 DEF PlanReuse, PlanNew, mainVar
  <2> QED BY <1>0, <2>2, <2>3 DEF ShapeOf
<1>3. ASSUME job'[k] = [job[k] EXCEPT !.phase = job'[k].phase], main' # "planning",
             ~job[k].reused \/ job'[k].phase \in {"planned", "queued", "returned", "cancelled"},
             job'[k].phase \in {"none", "planned", "queued"} => job[k].phase \in {"none", "planned", "queued"}
      PROVE  ShapeOf(k)'
    BY <1>0, <1>3 DEF ShapeOf, Job
<1>4. ASSUME job'[k] = job[k], main' = main, planned' = planned
      PROVE  ShapeOf(k)'
    BY <1>0, <1>4 DEF ShapeOf
<1>5. ASSUME job'[k] = job[k], main' # "planning"
      PROVE  ShapeOf(k)'
    BY <1>0, <1>5 DEF ShapeOf
<1>6. CASE (\E request \in Requests : Call(request)) \/ PlanRefused \/ RaiseInPlanning \/ Crash
    BY <1>1, <1>6 DEF Call, PlanRefused, RaiseInPlanning, Crash
<1>7. CASE Submit
    BY <1>0, <1>3, <1>5, <1>7 DEF Submit, Job
<1>8. CASE MainRaised \/ RaiseInWaiting
  <2>1. job' = Cancelled /\ main' # "planning"
      BY <1>8 DEF MainRaised, RaiseInWaiting
  <2>2. CASE job[k].phase = "queued"
    <3>1. job'[k] = [job[k] EXCEPT !.phase = "cancelled"] /\ job'[k].phase = "cancelled"
        BY <1>0, <2>1, <2>2 DEF Cancelled, Job
    <3> QED BY <1>3, <2>1, <3>1
  <2>3. CASE job[k].phase # "queued"
      BY <1>5, <2>1, <2>3 DEF Cancelled
  <2> QED BY <2>2, <2>3
<1>9. CASE MainNext \/ Interrupt
    BY <1>4, <1>9 DEF MainNext, Interrupt, plan, mainVar
<1>10. CASE MainDone \/ MainLogs \/ ShutdownEnds \/ Unwound \/ RaiseInShutdown \/ RaiseInUnwinding \/ RaiseInLogging
    BY <1>5, <1>10 DEF MainDone, MainLogs, ShutdownEnds, Unwound, RaiseInShutdown, RaiseInUnwinding, RaiseInLogging
<1>11. ASSUME NEW j \in Slot, Take(j) \/ Work(j)
       PROVE  ShapeOf(k)'
  <2>1. main' = main /\ planned' = planned
      BY <1>11
         DEF Take, TakeReused, TakeAfterInterrupt, TakeUp, Work, BetweenInterrupted, Begin, CacheHit, Spawn,
             PointStageEnds, ChildEnds, Retry, CommandRaises, JudgeInterrupted, Judge, AppendRow, MarkRecorded, Retain,
             RetainRaises, plan, mainVar
  <2>2. CASE k # j
    <3>1. job'[k] = job[k]
        BY <1>0, <1>11, <2>2
           DEF Take, TakeReused, TakeAfterInterrupt, TakeUp, Work, BetweenInterrupted, Begin, CacheHit, Spawn,
               PointStageEnds, ChildEnds, Retry, CommandRaises, JudgeInterrupted, Judge, AppendRow, MarkRecorded, Retain,
               RetainRaises, To
    <3> QED BY <1>4, <2>1, <3>1
  <2>3. CASE k = j /\ Take(j)
    <3>1. CASE TakeReused(j) \/ TakeAfterInterrupt(j)
      <4>1. PICK phase \in {"returned", "interrupted"} :
               /\ job' = [job EXCEPT ![j].phase = phase] /\ job[j].phase = "queued"
               /\ phase = "interrupted" => ~job[j].reused
          BY <3>1 DEF TakeReused, TakeAfterInterrupt, NextInQueue, To
      <4>2. job'[k] = [job[k] EXCEPT !.phase = phase] /\ job'[k].phase = phase
          BY <1>0, <2>3, <4>1 DEF Job
      <4>3. main # "planning"
          BY <1>0, <2>3, <4>1 DEF ShapeOf
      <4>4. main' # "planning" BY <2>1, <4>3
      <4> QED BY <1>3, <2>3, <4>1, <4>2, <4>4
    <3>2. CASE TakeUp(j)
      <4>1. job' = [job EXCEPT ![j].phase = "between", ![j].started = TRUE] /\ job[j].phase = "queued" /\ ~job[j].reused
          BY <3>2 DEF TakeUp, NextInQueue
      <4>2. job'[k].phase = "between" /\ ~job'[k].reused
          BY <1>0, <2>3, <4>1 DEF Job
      <4>3. main # "planning"
          BY <1>0, <2>3, <4>1 DEF ShapeOf
      <4>4. main' # "planning" BY <2>1, <4>3
      <4> QED BY <4>2, <4>4 DEF ShapeOf
    <3> QED BY <2>3, <3>1, <3>2 DEF Take
  <2>4. CASE k = j /\ Work(j)
    <3>1. job[j].phase \in Busy
        BY <2>4
           DEF Work, BetweenInterrupted, Begin, CacheHit, Spawn, PointStageEnds, ChildEnds, Retry, CommandRaises,
               JudgeInterrupted, Judge, AppendRow, MarkRecorded, Retain, RetainRaises, Busy
    <3>2. job'[j].phase \notin {"none", "planned", "queued"} /\ job'[j].reused = job[j].reused
      <4>1. CASE \/ BetweenInterrupted(j) \/ Begin(j) \/ Retry(j) \/ CommandRaises(j) \/ JudgeInterrupted(j) \/ Judge(j)
                 \/ AppendRow(j) \/ Retain(j) \/ RetainRaises(j)
          BY <1>0, <4>1
             DEF BetweenInterrupted, Begin, Retry, CommandRaises, JudgeInterrupted, Judge, AppendRow, Retain, RetainRaises,
                 To, Job
      <4>2. CASE CacheHit(j)
          BY <1>0, <4>2 DEF CacheHit, Job
      <4>3. CASE Spawn(j) \/ MarkRecorded(j)
          BY <1>0, <4>3 DEF Spawn, MarkRecorded, Job
      <4>4. ASSUME NEW outcome \in Outcome, PointStageEnds(j, outcome) \/ ChildEnds(j, outcome)
            PROVE  job'[j].phase \in {"between", "judging"} /\ job'[j].reused = job[j].reused
          BY <1>0, <4>4 DEF PointStageEnds, ChildEnds, Job
      <4> QED BY <2>4, <4>1, <4>2, <4>3, <4>4 DEF Work
    <3> QED BY <1>0, <2>1, <2>4, <3>1, <3>2 DEF ShapeOf, Busy
  <2> QED BY <1>11, <2>2, <2>3, <2>4
<1>12. CASE SignalGroups
    BY <1>0, <1>12 DEF SignalGroups, plan, mainVar, ShapeOf, Job
<1>13. CASE UNCHANGED vars
    BY <1>4, <1>13 DEF vars, plan, mainVar
<1> QED
    BY <1>2, <1>6, <1>7, <1>8, <1>9, <1>10, <1>11, <1>12, <1>13 DEF Next, MainStep, HandlerStep

----------------------------------------------------------------------------
(* Every step but three leaves the table and the jobs' numbers and points alone *)

\* What a job of its own is after a step: it keeps its number and point, and never comes back to the pending phases.
Kept(k) ==
    \/ job'[k].phase = "none"
    \/ job'[k].reused
    \/ /\ Own(k)
       /\ job'[k].id = job[k].id /\ job'[k].point = job[k].point /\ ~job'[k].reused
       /\ job'[k].phase \in Pending => job[k].phase \in Pending

\* The steps that neither open a call, nor plan a new point, nor append a row.
LEMMA Quiet ==
    ASSUME TypeOK, Shape, [Next]_vars,
           \A request \in Requests : ~Call(request), ~PlanNew, \A j \in Slot : ~AppendRow(j)
    PROVE  /\ file' = file /\ calls' = calls
           /\ \A k \in Slot : Kept(k)
           /\ main' = "planning" => main = "planning" /\ dirs' = dirs /\ nextIndex' = nextIndex /\ used' = used
<1>0. job \in [Slot -> Job]
    BY DEF TypeOK
<1> DEFINE Same == \A k \in Slot : job'[k] = job[k]
           Frame == /\ file' = file /\ calls' = calls
                    /\ \/ main' # "planning"
                       \/ main = "planning" /\ dirs' = dirs /\ nextIndex' = nextIndex /\ used' = used
<1>1. ASSUME NEW k \in Slot, job'[k] = job[k]
      PROVE  Kept(k)
    BY <1>0, <1>1 DEF Kept, Own, Job
<1>2. ASSUME NEW k \in Slot, NEW x, job'[k] = [job[k] EXCEPT !.phase = x],
             x \in Pending => job[k].phase \in Pending, job[k].phase # "none" \/ job[k].reused \/ x = "none"
      PROVE  Kept(k)
    BY <1>0, <1>2 DEF Kept, Own, Job
<1>3. CASE PlanReuse
  <2>1. planned + 1 \in Slot
      BY <1>3, PlannedSlot DEF PlanReuse
  <2>2. job'[planned + 1].reused /\ \A k \in Slot \ {planned + 1} : job'[k] = job[k]
      BY <1>0, <1>3, <2>1 DEF PlanReuse, NoJob
  <2>3. \A k \in Slot : Kept(k)
      BY <1>1, <2>2 DEF Kept
  <2> QED BY <1>3, <2>3 DEF PlanReuse, store, mainVar, bounds
<1>4. CASE PlanRefused \/ RaiseInPlanning \/ Crash
  <2>1. \A k \in Slot : job'[k].phase = "none"
      BY <1>4 DEF PlanRefused, RaiseInPlanning, Crash, NoJob
  <2>2. file' = file /\ calls' = calls /\ main' = "idle"
      BY <1>4 DEF PlanRefused, RaiseInPlanning, Crash, store, bounds
  <2> QED BY <2>1, <2>2 DEF Kept
<1>5. CASE Submit
  <2>1. \A k \in Slot : Kept(k)
    <3> TAKE k \in Slot
    <3>1. CASE job[k].phase = "planned"
        BY <1>2, <1>5, <3>1 DEF Submit, Pending
    <3>2. CASE job[k].phase # "planned"
        BY <1>1, <1>5, <3>2 DEF Submit
    <3> QED BY <3>1, <3>2
  <2> QED BY <1>5, <2>1 DEF Submit, store, bounds
<1>6. CASE MainRaised \/ RaiseInWaiting
  <2>1. job' = Cancelled /\ main' # "planning" /\ file' = file /\ calls' = calls
      BY <1>6 DEF MainRaised, RaiseInWaiting, store, bounds
  <2>2. \A k \in Slot : Kept(k)
    <3> TAKE k \in Slot
    <3>1. CASE job[k].phase = "queued"
        BY <1>2, <2>1, <3>1 DEF Cancelled, Pending
    <3>2. CASE job[k].phase # "queued"
        BY <1>1, <2>1, <3>2 DEF Cancelled
    <3> QED BY <3>1, <3>2
  <2> QED BY <2>1, <2>2
<1>7. CASE \/ MainNext \/ MainDone \/ MainLogs \/ ShutdownEnds \/ Unwound \/ Interrupt
           \/ RaiseInShutdown \/ RaiseInUnwinding \/ RaiseInLogging \/ UNCHANGED vars
  <2>1. Same /\ Frame
      BY <1>7
         DEF MainNext, MainDone, MainLogs, ShutdownEnds, Unwound, Interrupt, RaiseInShutdown, RaiseInUnwinding,
             RaiseInLogging, vars, store, plan, mainVar, bounds
  <2> QED BY <1>1, <2>1
<1>8. CASE SignalGroups
  <2>1. \A k \in Slot : Kept(k)
      BY <1>0, <1>8 DEF SignalGroups, Kept, Own, Job, Pending
  <2> QED BY <1>8, <2>1 DEF SignalGroups, store, plan, mainVar, bounds
<1>9. ASSUME NEW j \in Slot, Take(j) \/ Work(j)
      PROVE  Frame /\ \A k \in Slot : Kept(k)
  <2>1. \A k \in Slot \ {j} : job'[k] = job[k]
      BY <1>0, <1>9
         DEF Take, TakeReused, TakeAfterInterrupt, TakeUp, Work, BetweenInterrupted, Begin, CacheHit, Spawn,
             PointStageEnds, ChildEnds, Retry, CommandRaises, JudgeInterrupted, Judge, AppendRow, MarkRecorded, Retain,
             RetainRaises, To
  <2>2. job[j].phase \in Busy \cup {"queued"}
      BY <1>9
         DEF Take, TakeReused, TakeAfterInterrupt, TakeUp, NextInQueue, Work, BetweenInterrupted, Begin, CacheHit,
             Spawn, PointStageEnds, ChildEnds, Retry, CommandRaises, JudgeInterrupted, Judge, AppendRow, MarkRecorded, Retain,
             RetainRaises, Busy
  <2>3. main # "planning"
      BY <2>2 DEF Shape, ShapeOf, Busy
  <2>4. Frame
      BY <1>9, <2>3
         DEF Take, TakeReused, TakeAfterInterrupt, TakeUp, Work, BetweenInterrupted, Begin, CacheHit, Spawn,
             PointStageEnds, ChildEnds, Retry, CommandRaises, JudgeInterrupted, Judge, AppendRow, MarkRecorded, Retain,
             RetainRaises, store, mainVar, bounds
  <2>5. job'[j].id = job[j].id /\ job'[j].point = job[j].point /\ job'[j].reused = job[j].reused
    <3>1. CASE \/ BetweenInterrupted(j) \/ Begin(j) \/ Retry(j) \/ CommandRaises(j) \/ JudgeInterrupted(j) \/ Judge(j)
               \/ AppendRow(j) \/ Retain(j) \/ RetainRaises(j)
        BY <1>0, <3>1
           DEF BetweenInterrupted, Begin, Retry, CommandRaises, JudgeInterrupted, Judge, AppendRow, Retain, RetainRaises,
               To, Job
    <3>2. CASE Take(j) \/ CacheHit(j) \/ Spawn(j) \/ MarkRecorded(j)
        BY <1>0, <3>2 DEF Take, TakeReused, TakeAfterInterrupt, TakeUp, CacheHit, Spawn, MarkRecorded, To, Job
    <3>3. CASE \E outcome \in Outcome : PointStageEnds(j, outcome) \/ ChildEnds(j, outcome)
        BY <1>0, <3>3 DEF PointStageEnds, ChildEnds, Job
    <3> QED BY <1>9, <3>1, <3>2, <3>3 DEF Work
  <2>6. job'[j].phase \in Pending => job[j].phase \in Pending
    <3>1. CASE Retain(j) \/ RetainRaises(j) \/ MarkRecorded(j)
        BY <1>0, <3>1 DEF Retain, RetainRaises, MarkRecorded, To, Job, Pending
    <3>2. CASE job[j].phase \notin {"appended", "retaining"}
        BY <2>2, <3>2 DEF Busy, Pending
    <3> QED
        BY <1>9, <2>2, <3>1, <3>2
           DEF Take, TakeReused, TakeAfterInterrupt, TakeUp, NextInQueue, Work, BetweenInterrupted, Begin, CacheHit,
               Spawn, PointStageEnds, ChildEnds, Retry, CommandRaises, JudgeInterrupted, Judge, AppendRow, Busy
  <2>7. Kept(j)
      BY <2>2, <2>5, <2>6 DEF Kept, Own, Busy
  <2> QED BY <1>1, <2>1, <2>4, <2>7
<1> QED
    BY <1>3, <1>4, <1>5, <1>6, <1>7, <1>8, <1>9 DEF Next, MainStep, HandlerStep

\* What appending a row does.
LEMMA Appended ==
    ASSUME TypeOK, Shape, NEW j \in Slot, AppendRow(j)
    PROVE  /\ j \in Reserved /\ main # "planning" /\ main' = main /\ Reserved' = Reserved \ {j}
           /\ RowOf(j) \in Row /\ RowOf(j).id = job[j].id
           /\ DOMAIN file' = 1..(Len(file) + 1) /\ DOMAIN file = 1..Len(file) /\ Len(file) \in Nat
           /\ file'[Len(file) + 1] = RowOf(j) /\ \A i \in 1..Len(file) : file'[i] = file[i]
<1>1. job \in [Slot -> Job] /\ file \in Seq(Row)
    BY DEF TypeOK
<1>2. /\ job[j].phase = "passed" /\ ~job[j].reused
      /\ file' = Append(file, RowOf(j)) /\ main' = main
      /\ job' = [job EXCEPT ![j].phase = "appended"]
    BY DEF AppendRow, To, mainVar, Shape, ShapeOf
<1>3. j \in Reserved /\ main # "planning"
    BY <1>2 DEF Reserved, Pending, Shape, ShapeOf
<1>4. Reserved' = Reserved \ {j}
    BY <1>1, <1>2 DEF Reserved, Pending, Job
<1>5. RowOf(j) \in Row /\ RowOf(j).id = job[j].id
    BY RowType DEF RowOf
<1>6. /\ DOMAIN file' = 1..(Len(file) + 1) /\ DOMAIN file = 1..Len(file) /\ Len(file) \in Nat
      /\ file'[Len(file) + 1] = RowOf(j) /\ \A i \in 1..Len(file) : file'[i] = file[i]
    BY <1>1, <1>2, <1>5, AppendProperties, LenProperties
<1> QED
    BY <1>2, <1>3, <1>4, <1>5, <1>6

\* Every step keeps the numbering: the numbers ahead, those of the jobs and those of the rows never meet.
LEMMA NumberingNext ==
    ASSUME TypeOK, Shape, Numbering, [Next]_vars
    PROVE  Numbering'
<1>0. job \in [Slot -> Job] /\ job' \in [Slot -> Job] /\ nextIndex \in Nat
    BY TypeNext DEF TypeOK
<1>1. CASE \E request \in Requests : Call(request)
  <2>1. /\ file' = file /\ dirs' = dirs /\ nextIndex' = NextIndex
        /\ \A j \in Slot : job'[j].phase = "none"
      BY <1>1 DEF Call, NoJob, store
  <2>2. \A n \in Ids(file) \cup dirs : n < NextIndex
      BY NextIndexFresh DEF TypeOK
  <2> QED BY <2>1, <2>2 DEF Numbering, Own, Reserved, Pending, Ids, Table!Ids
<1>2. CASE PlanNew
  <2>1. planned + 1 \in Slot
      BY <1>2, PlannedSlot DEF PlanNew
  <2>2. /\ file' = file /\ dirs' = dirs /\ nextIndex' = nextIndex + 1
        /\ job'[planned + 1].id = nextIndex
        /\ \A j \in Slot \ {planned + 1} : job'[j] = job[j]
        /\ main = "planning"
      BY <1>0, <1>2, <2>1 DEF PlanNew, Planning, NoJob, store
  <2>3. /\ \A n \in Ids(file) \cup dirs : n < nextIndex /\ n \in Nat
        /\ \A j \in Slot : Own(j) => job[j].id < nextIndex
        /\ \A j \in Slot : job[j].id \in Nat /\ job'[j].id \in Nat
      BY <1>0, <2>2, IdsFinite DEF Numbering, TypeOK, Job
  <2>4. \A j, k \in Slot : Own(j)' /\ Own(k)' /\ job'[j].id = job'[k].id => j = k
      BY <2>2, <2>3 DEF Numbering, Own
  <2>5. \A j \in Reserved' : job'[j].id \notin Ids(file)
      BY <2>2, <2>3 DEF Numbering, Reserved
  <2>6. \A j \in Slot : Own(j)' => job'[j].id < nextIndex'
      BY <1>0, <2>2, <2>3 DEF Own
  <2>7. \A n \in Ids(file) \cup dirs : n < nextIndex'
      BY <1>0, <2>2, <2>3
  <2> QED BY <2>2, <2>4, <2>5, <2>6, <2>7 DEF Numbering, Ids, Table!Ids
<1>3. ASSUME NEW j \in Slot, AppendRow(j)
      PROVE  Numbering'
  <2>1. /\ j \in Reserved /\ main # "planning" /\ main' = main /\ Reserved' = Reserved \ {j}
        /\ RowOf(j) \in Row /\ RowOf(j).id = job[j].id
        /\ DOMAIN file' = 1..(Len(file) + 1) /\ DOMAIN file = 1..Len(file) /\ Len(file) \in Nat
        /\ file'[Len(file) + 1] = RowOf(j) /\ \A i \in 1..Len(file) : file'[i] = file[i]
      BY <1>3, Appended
  <2>2. \A k \in Slot : job'[k].id = job[k].id /\ (Own(k)' => Own(k))
      BY <1>0, <1>3 DEF AppendRow, To, Own, Job
  <2>3. Ids(file)' = Ids(file) \cup {job[j].id}
      BY <2>1 DEF Ids, Table!Ids
  <2>4. \A i, k \in DOMAIN file' : file'[i].id = file'[k].id => i = k
    <3>1. \A i \in 1..Len(file) : file[i].id # job[j].id
        BY <2>1 DEF Numbering, Ids, Table!Ids
    <3> QED BY <2>1, <3>1 DEF Numbering
  <2>5. \A k \in Reserved' : job'[k].id \notin Ids(file)'
    <3>1. \A k \in Reserved' : job[k].id # job[j].id
        BY <2>1 DEF Numbering, Reserved, Own, Pending
    <3> QED BY <2>1, <2>2, <2>3, <3>1 DEF Numbering, Reserved
  <2> QED BY <2>1, <2>2, <2>4, <2>5 DEF Numbering
<1>4. ASSUME \A request \in Requests : ~Call(request), ~PlanNew, \A j \in Slot : ~AppendRow(j)
      PROVE  Numbering'
  <2>1. /\ file' = file /\ \A k \in Slot : Kept(k)
        /\ main' = "planning" => main = "planning" /\ dirs' = dirs /\ nextIndex' = nextIndex
      BY <1>4, Quiet
  <2>2. \A k \in Slot : Own(k)' => Own(k) /\ job'[k].id = job[k].id
      BY <2>1 DEF Own, Kept
  <2>3. \A k \in Reserved' : k \in Reserved /\ job'[k].id = job[k].id
      BY <2>1 DEF Reserved, Kept, Own, Pending
  <2> QED BY <2>1, <2>2, <2>3 DEF Numbering, Ids, Table!Ids
<1> QED
    BY <1>1, <1>2, <1>3, <1>4

----------------------------------------------------------------------------
(* What is already ok is reused *)

\* Every step keeps reuse: a point a job will simulate has no ok row of an earlier call.
LEMMA ReuseNext ==
    ASSUME TypeOK, Shape, Reuse, [Next]_vars
    PROVE  Reuse'
<1>0. job \in [Slot -> Job]
    BY DEF TypeOK
<1>1. CASE \E request \in Requests : Call(request)
  <2>1. file' = file /\ Reserved' = {}
      BY <1>1 DEF Call, NoJob, store, Reserved, Pending
  <2> QED BY <2>1 DEF Reuse, OkPointsReused
<1>2. CASE PlanNew
  <2>1. planned + 1 \in Slot
      BY <1>2, PlannedSlot DEF PlanNew
  <2>2. /\ file' = file /\ calls' = calls
        /\ job'[planned + 1].point = points[planned + 1]
        /\ \A j \in Slot \ {planned + 1} : job'[j] = job[j]
        /\ \A i \in DOMAIN file : ~(file[i].ok /\ file[i].point = points[planned + 1])
      BY <1>0, <1>2, <2>1 DEF PlanNew, Reusable, NoJob, store, bounds
  <2> QED BY <2>2 DEF Reuse, OkPointsReused, Reserved
<1>3. ASSUME NEW j \in Slot, AppendRow(j)
      PROVE  Reuse'
  <2>1. /\ j \in Reserved /\ Reserved' = Reserved \ {j}
        /\ DOMAIN file' = 1..(Len(file) + 1) /\ DOMAIN file = 1..Len(file) /\ Len(file) \in Nat
        /\ file'[Len(file) + 1] = RowOf(j) /\ \A i \in 1..Len(file) : file'[i] = file[i]
      BY <1>3, Appended
  <2>2. RowOf(j).point = job[j].point /\ RowOf(j).call = calls
      BY DEF RowOf
  <2>3. calls' = calls /\ \A k \in Slot : job'[k].point = job[k].point
      BY <1>0, <1>3 DEF AppendRow, To, Job, bounds
  <2>4. \A k \in Reserved' : \A i \in DOMAIN file' :
            file'[i].ok /\ file'[i].point = job'[k].point => file'[i].call = calls'
      BY <2>1, <2>2, <2>3 DEF Reuse, Reserved
  <2>5. ASSUME NEW i \in DOMAIN file', NEW k \in DOMAIN file',
               i < k, file'[i].ok, file'[k].ok, file'[i].point = file'[k].point
        PROVE  file'[i].call = file'[k].call
    <3>1. i \in 1..Len(file)
        BY <2>1, <2>5
    <3>2. CASE k = Len(file) + 1
        BY <2>1, <2>2, <2>5, <3>1, <3>2 DEF Reuse
    <3>3. CASE k \in 1..Len(file)
        BY <2>1, <2>5, <3>1, <3>3 DEF Reuse, OkPointsReused
    <3> QED BY <2>1, <3>2, <3>3
  <2> QED BY <2>4, <2>5 DEF Reuse, OkPointsReused
<1>4. ASSUME \A request \in Requests : ~Call(request), ~PlanNew, \A j \in Slot : ~AppendRow(j)
      PROVE  Reuse'
  <2>1. file' = file /\ calls' = calls /\ \A k \in Slot : Kept(k)
      BY <1>4, Quiet
  <2>2. \A k \in Reserved' : k \in Reserved /\ job'[k].point = job[k].point
      BY <2>1 DEF Reserved, Kept, Own, Pending
  <2> QED BY <2>1, <2>2 DEF Reuse, OkPointsReused
<1> QED
    BY <1>1, <1>2, <1>3, <1>4

----------------------------------------------------------------------------
(* Interrupts *)

\* A job's step changes neither the interrupts nor what the calling thread knows of them.
LEMMA JobStepFrame ==
    ASSUME NEW j \in Slot, Take(j) \/ Work(j)
    PROVE  UNCHANGED <<mainVar, signal>>
BY DEF Take, TakeReused, TakeAfterInterrupt, TakeUp, Work, BetweenInterrupted, Begin, CacheHit, Spawn, PointStageEnds,
       ChildEnds, Retry, CommandRaises, JudgeInterrupted, Judge, AppendRow, MarkRecorded, Retain, RetainRaises

\* A job that is not the one stepping stays as it is.
LEMMA OtherJobs ==
    ASSUME TypeOK, NEW j \in Slot, Take(j) \/ Work(j)
    PROVE  \A k \in Slot \ {j} : job'[k] = job[k]
BY DEF TypeOK, Take, TakeReused, TakeAfterInterrupt, TakeUp, Work, BetweenInterrupted, Begin, CacheHit, Spawn,
       PointStageEnds, ChildEnds, Retry, CommandRaises, JudgeInterrupted, Judge, AppendRow, MarkRecorded, Retain,
       RetainRaises, To

\* A job that holds a result an interrupt caused is one whose batch knows of the interrupt.
LEMMA InterruptedOfNext ==
    ASSUME TypeOK, Shape, Interruption, [Next]_vars, NEW k \in Slot
    PROVE  InterruptedOf(k)'
<1>0. /\ job \in [Slot -> Job] /\ job[k] \in Job /\ ShapeOf(k) /\ InterruptedOf(k)
      /\ interrupts \in Nat /\ seen \in Nat /\ seen <= interrupts /\ stop \in BOOLEAN
    BY DEF TypeOK, Shape, Interruption
<1>1. ASSUME job'[k].phase \notin Busy
      PROVE  InterruptedOf(k)'
    BY <1>1 DEF InterruptedOf, Busy
<1>2. ASSUME job'[k] = job[k], UNCHANGED <<stop, interrupts, seen>>
      PROVE  InterruptedOf(k)'
    BY <1>0, <1>2 DEF InterruptedOf, Stopping
<1>3. ASSUME job'[k].results = job[k].results, job'[k].phase = job[k].phase, Stopping'
      PROVE  InterruptedOf(k)'
    BY <1>0, <1>3 DEF InterruptedOf
<1>4. CASE (\E request \in Requests : Call(request)) \/ PlanRefused \/ RaiseInPlanning \/ Crash
    BY <1>1, <1>4 DEF Call, PlanRefused, RaiseInPlanning, Crash, NoJob, Busy
<1>5. CASE PlanReuse \/ PlanNew \/ Submit
  <2>1. main = "planning" /\ job[k].phase \in {"none", "planned"}
      BY <1>0, <1>5 DEF PlanReuse, PlanNew, Submit, Planning, ShapeOf
  <2>2. CASE Submit
      BY <1>0, <1>1, <2>1, <2>2 DEF Submit, Busy, Job
  <2>3. CASE PlanReuse \/ PlanNew
    <3>1. planned + 1 \in Slot
        BY <2>3, PlannedSlot DEF PlanReuse, PlanNew
    <3>2. job'[k].phase \in {"none", "planned"}
      <4>1. CASE PlanReuse
          BY <1>0, <2>1, <3>1, <4>1 DEF PlanReuse, NoJob
      <4>2. CASE PlanNew
          BY <1>0, <2>1, <3>1, <4>2 DEF PlanNew, NoJob
      <4> QED BY <2>3, <4>1, <4>2
    <3> QED BY <1>1, <3>2 DEF Busy
  <2> QED BY <1>5, <2>2, <2>3
<1>6. CASE MainRaised \/ RaiseInWaiting
  <2>1. job' = Cancelled /\ UNCHANGED <<interrupts, seen>> /\ (UNCHANGED stop \/ Stopping')
      BY <1>6 DEF MainRaised, RaiseInWaiting, signal, Stopping
  <2>2. CASE job[k].phase = "queued"
      BY <1>0, <1>1, <2>1, <2>2 DEF Cancelled, Busy, Job
  <2>3. CASE job[k].phase # "queued"
      BY <1>2, <1>3, <2>1, <2>3 DEF Cancelled
  <2> QED BY <2>2, <2>3
<1>7. CASE \/ MainNext \/ MainDone \/ MainLogs \/ ShutdownEnds \/ Unwound
           \/ RaiseInShutdown \/ RaiseInUnwinding \/ RaiseInLogging \/ UNCHANGED vars
    BY <1>2, <1>7
       DEF MainNext, MainDone, MainLogs, ShutdownEnds, Unwound, RaiseInShutdown, RaiseInUnwinding, RaiseInLogging,
           vars, mainVar, signal
<1>8. CASE Interrupt
  <2>1. interrupts' = interrupts + 1 /\ seen' = seen /\ job' = job
      BY <1>8 DEF Interrupt, mainVar
  <2>2. Stopping'
      BY <1>0, <2>1 DEF Stopping
  <2> QED BY <1>3, <2>1, <2>2
<1>9. CASE SignalGroups
  <2>1. job'[k].results = job[k].results /\ job'[k].phase = job[k].phase /\ UNCHANGED <<stop, interrupts, seen>>
      BY <1>0, <1>9 DEF SignalGroups, mainVar, Job
  <2>2. CASE main = "planning"
      BY <1>0, <1>1, <2>1, <2>2 DEF ShapeOf, Busy
  <2>3. CASE main # "planning"
    <3>1. interrupts # seen
        BY <1>9, <2>3 DEF SignalGroups, Interruption
    <3>2. Stopping'
        BY <2>1, <3>1 DEF Stopping
    <3> QED BY <1>3, <2>1, <3>2
  <2> QED BY <2>2, <2>3
<1>10. ASSUME NEW j \in Slot, Take(j) \/ Work(j)
       PROVE  InterruptedOf(k)'
  <2>1. UNCHANGED <<stop, interrupts, seen>>
      BY <1>10, JobStepFrame DEF mainVar, signal
  <2>2. CASE k # j
      BY <1>2, <1>10, <2>1, <2>2, OtherJobs
  <2>3. CASE k = j /\ Take(j)
    <3>1. job[k].phase = "queued" /\ ~job[k].signalled /\ job[k].results = <<>>
        BY <1>0, <2>3 DEF Take, TakeReused, TakeAfterInterrupt, TakeUp, NextInQueue, ShapeOf
    <3>2. job'[k].phase # "passed" /\ job'[k].signalled = job[k].signalled /\ job'[k].results = <<>>
        BY <1>0, <2>3, <3>1 DEF Take, TakeReused, TakeAfterInterrupt, TakeUp, To, Job
    <3> QED BY <3>1, <3>2 DEF InterruptedOf, HasKilled
  <2>4. ASSUME k = j, job'[k].results = job[k].results, ~job'[k].signalled \/ job'[k].signalled = job[k].signalled,
               job[k].phase \in Busy, job'[k].phase # "passed"
        PROVE  InterruptedOf(k)'
      BY <1>0, <2>1, <2>4 DEF InterruptedOf, Stopping
  <2>5. CASE /\ k = j
             /\ \/ BetweenInterrupted(j) \/ Begin(j) \/ Retry(j) \/ CommandRaises(j) \/ JudgeInterrupted(j)
                \/ AppendRow(j) \/ Retain(j) \/ RetainRaises(j)
      BY <1>0, <2>4, <2>5
         DEF BetweenInterrupted, Begin, Retry, CommandRaises, JudgeInterrupted, AppendRow, Retain, RetainRaises, To, Job, Busy
  <2>6. CASE k = j /\ (CacheHit(j) \/ Spawn(j) \/ MarkRecorded(j))
      BY <1>0, <2>4, <2>6 DEF CacheHit, Spawn, MarkRecorded, Job, Busy
  <2>7. CASE k = j /\ Judge(j)
    <3>1. job[k].phase = "judging" /\ ~(Stopping /\ HasFailure(job[k].results))
        BY <2>7 DEF Judge
    <3>2. ~HasKilled(job[k].results)
        BY <1>0, <3>1 DEF InterruptedOf, Busy, HasKilled, HasFailure, Failure
    <3>3. job'[k].results = job[k].results /\ job'[k].signalled = job[k].signalled
        BY <1>0, <2>7 DEF Judge, To, Job
    <3> QED BY <1>0, <2>1, <3>1, <3>2, <3>3 DEF InterruptedOf, Stopping, Busy
  <2>8. ASSUME k = j, NEW outcome \in Outcome, PointStageEnds(j, outcome) \/ ChildEnds(j, outcome)
        PROVE  InterruptedOf(k)'
    <3>1. job[k].phase = "running" /\ (outcome = "killed" => job[k].signalled)
        BY <2>8 DEF PointStageEnds, ChildEnds, Ending
    <3>2. job'[k].phase # "passed" /\ job'[k].signalled = job[k].signalled
        BY <1>0, <2>8 DEF PointStageEnds, ChildEnds, Job
    <3>3. HasKilled(job'[k].results) => HasKilled(job[k].results) \/ outcome = "killed"
      <4>1. CASE PointStageEnds(j, outcome)
          BY <1>0, <2>8, <4>1 DEF PointStageEnds, HasKilled, Job
      <4>2. CASE ChildEnds(j, outcome)
        <5>1. job'[k].results = Append(job[k].results, outcome) /\ job[k].results \in Seq(Outcome)
            BY <1>0, <2>8, <4>2 DEF ChildEnds, Job
        <5> QED BY <5>1, AppendProperties, LenProperties DEF HasKilled
      <4> QED BY <2>8, <4>1, <4>2
    <3> QED BY <1>0, <2>1, <3>1, <3>2, <3>3 DEF InterruptedOf, Stopping, Busy
  <2> QED BY <1>10, <2>2, <2>3, <2>5, <2>6, <2>7, <2>8 DEF Work
<1> QED
    BY <1>4, <1>5, <1>6, <1>7, <1>8, <1>9, <1>10 DEF Next, MainStep, HandlerStep

\* Every step keeps the interruption invariant: the count goes up before any command is signalled.
LEMMA InterruptionNext ==
    ASSUME TypeOK, Shape, Interruption, [Next]_vars
    PROVE  Interruption'
<1>1. \A j \in Slot : InterruptedOf(j)'
    BY InterruptedOfNext
<1>2. \A i \in DOMAIN file' : Table!Honest(file'[i])
  <2>1. ASSUME NEW j \in Slot, AppendRow(j)
        PROVE  \A i \in DOMAIN file' : Table!Honest(file'[i])
    <3>1. /\ DOMAIN file' = 1..(Len(file) + 1) /\ DOMAIN file = 1..Len(file) /\ Len(file) \in Nat
          /\ file'[Len(file) + 1] = RowOf(j) /\ \A i \in 1..Len(file) : file'[i] = file[i]
        BY <2>1, Appended
    <3>2. ~HasKilled(job[j].results)
        BY <2>1 DEF AppendRow, Interruption, InterruptedOf
    <3>3. Table!Honest(RowOf(j))
        BY <3>2 DEF Table!Honest, HasKilled, RowOf
    <3> QED BY <3>1, <3>3 DEF Interruption
  <2>2. CASE file' = file
      BY <2>2 DEF Interruption
  <2>3. (\E request \in Requests : Call(request)) \/ PlanNew => file' = file
      BY DEF Call, PlanNew, store
  <2> QED BY <2>1, <2>2, <2>3, Quiet
<1>3. /\ seen' <= interrupts'
      /\ main' = "idle" => handler' = "none"
      /\ handler' # "none" /\ main' # "planning" => interrupts' # seen'
  <2>0. /\ interrupts \in Nat /\ seen \in Nat /\ seen <= interrupts
        /\ main = "idle" => handler = "none"
        /\ handler # "none" /\ main # "planning" => interrupts # seen
      BY DEF TypeOK, Interruption
  <2>1. CASE \E j \in Slot : Take(j) \/ Work(j)
      BY <2>0, <2>1, JobStepFrame DEF mainVar, signal
  <2>2. CASE \/ \E request \in Requests : Call(request)
             \/ PlanReuse \/ PlanNew \/ PlanRefused \/ Submit
    <3>1. handler' = handler /\ handler = "none" /\ interrupts' = interrupts /\ (seen' = seen \/ seen' = interrupts)
        BY <2>0, <2>2 DEF Call, PlanReuse, PlanNew, PlanRefused, Submit, Planning, mainVar, signal
    <3> QED BY <2>0, <3>1
  <2>3. CASE \/ MainNext \/ MainDone \/ MainLogs \/ MainRaised \/ ShutdownEnds \/ Unwound \/ UNCHANGED vars
      BY <2>0, <2>3 DEF MainNext, MainDone, MainLogs, MainRaised, ShutdownEnds, Unwound, vars, mainVar, signal
  <2>4. CASE Interrupt \/ SignalGroups
      BY <2>0, <2>4 DEF Interrupt, SignalGroups, mainVar
  <2>5. CASE \/ RaiseInPlanning \/ RaiseInWaiting \/ RaiseInShutdown \/ RaiseInUnwinding \/ RaiseInLogging \/ Crash
      BY <2>0, <2>5 DEF RaiseInPlanning, RaiseInWaiting, RaiseInShutdown, RaiseInUnwinding, RaiseInLogging, Crash
  <2> QED BY <2>1, <2>2, <2>3, <2>4, <2>5 DEF Next, MainStep, HandlerStep
<1> QED
    BY <1>1, <1>2, <1>3 DEF Interruption

----------------------------------------------------------------------------
(* The budget *)

\* Planning reserves no more than the budget leaves, and every other step keeps the sum.
LEMMA CostOfNext ==
    ASSUME TypeOK, Shape, Budget, [Next]_vars, NEW k \in Slot
    PROVE  CostOf(k)'
<1>0. /\ job \in [Slot -> Job] /\ job[k] \in Job /\ ShapeOf(k) /\ CostOf(k) /\ NChildren \in Nat \ {0}
      /\ job[k].results \in Seq(Outcome) /\ Len(job[k].results) \in Nat
    BY BatchAssumption, LenProperties DEF TypeOK, Shape, Budget, Job
<1>1. ASSUME job'[k].results = job[k].results, job'[k].cache = job[k].cache,
             job'[k].phase \in {"between", "starting", "running"} =>
                 job[k].phase \in {"queued", "between", "starting", "running"}
      PROVE  CostOf(k)'
    BY <1>0, <1>1, EmptySeq DEF CostOf, ShapeOf, Complete
<1>2. ASSUME job'[k].results = <<>>, job'[k].cache = "none"
      PROVE  CostOf(k)'
    BY <1>0, <1>2, EmptySeq DEF CostOf, Complete
<1>3. CASE (\E request \in Requests : Call(request)) \/ PlanRefused \/ RaiseInPlanning \/ Crash
    BY <1>2, <1>3 DEF Call, PlanRefused, RaiseInPlanning, Crash, NoJob
<1>4. CASE PlanReuse \/ PlanNew
  <2>1. planned + 1 \in Slot
      BY <1>4, PlannedSlot DEF PlanReuse, PlanNew
  <2>2. job'[k] = job[k] \/ (job'[k].results = <<>> /\ job'[k].cache = "none")
    <3>1. CASE PlanReuse
        BY <1>0, <2>1, <3>1 DEF PlanReuse, NoJob
    <3>2. CASE PlanNew
        BY <1>0, <2>1, <3>2 DEF PlanNew, NoJob
    <3> QED BY <1>4, <3>1, <3>2
  <2> QED BY <1>1, <1>2, <2>2
<1>5. CASE Submit
    BY <1>0, <1>1, <1>5 DEF Submit, Job
<1>6. CASE MainRaised \/ RaiseInWaiting
  <2>1. job' = Cancelled
      BY <1>6 DEF MainRaised, RaiseInWaiting
  <2> QED BY <1>0, <1>1, <2>1 DEF Cancelled, Job
<1>7. CASE \/ MainNext \/ MainDone \/ MainLogs \/ ShutdownEnds \/ Unwound \/ Interrupt
           \/ RaiseInShutdown \/ RaiseInUnwinding \/ RaiseInLogging \/ UNCHANGED vars
    BY <1>1, <1>7
       DEF MainNext, MainDone, MainLogs, ShutdownEnds, Unwound, Interrupt, RaiseInShutdown, RaiseInUnwinding,
           RaiseInLogging, vars
<1>8. CASE SignalGroups
    BY <1>0, <1>1, <1>8 DEF SignalGroups, Job
<1>9. ASSUME NEW j \in Slot, Take(j) \/ Work(j)
      PROVE  CostOf(k)'
  <2>1. CASE k # j
      BY <1>1, <1>9, <2>1, OtherJobs
  <2>2. CASE k = j /\ Take(j)
      BY <1>0, <1>1, <2>2 DEF Take, TakeReused, TakeAfterInterrupt, TakeUp, NextInQueue, To, Job
  <2>3. CASE /\ k = j
             /\ \/ BetweenInterrupted(j) \/ Begin(j) \/ Retry(j) \/ CommandRaises(j) \/ JudgeInterrupted(j) \/ Judge(j)
                \/ AppendRow(j) \/ Retain(j) \/ RetainRaises(j)
      BY <1>0, <1>1, <2>3
         DEF BetweenInterrupted, Begin, Retry, CommandRaises, JudgeInterrupted, Judge, AppendRow, Retain, RetainRaises, To, Job
  <2>4. CASE k = j /\ (Spawn(j) \/ MarkRecorded(j))
      BY <1>0, <1>1, <2>4 DEF Spawn, MarkRecorded, Job
  <2>5. CASE k = j /\ CacheHit(j)
    <3>1. job'[k].results = job[k].results /\ job'[k].cache = "hit" /\ job[k].phase = "between"
        BY <1>0, <2>5 DEF CacheHit, Job
    <3> QED BY <1>0, <3>1 DEF CostOf, Complete
  <2>6. ASSUME k = j, NEW outcome \in Outcome, PointStageEnds(j, outcome)
        PROVE  CostOf(k)'
    <3>1. job[k].phase = "running" /\ PointRuns = 1
        BY <2>6 DEF PointStageEnds, AtPointStage
    <3>2. CASE outcome = "ok"
      <4>1. job'[k].results = job[k].results
          BY <1>0, <2>6, <3>2 DEF PointStageEnds, Job
      <4> QED BY <1>0, <3>1, <4>1 DEF CostOf, Complete
    <3>3. CASE outcome # "ok"
      <4>1. /\ job'[k].results = [i \in 1..NChildren |-> outcome] /\ job'[k].phase = "judging"
            /\ job'[k].cache = job[k].cache
          BY <1>0, <2>6, <3>3 DEF PointStageEnds, Job
      <4>2. Len(job'[k].results) = NChildren
          BY <1>0, <4>1
      <4> QED BY <1>0, <3>1, <4>1, <4>2 DEF CostOf
    <3> QED BY <3>2, <3>3
  <2>7. ASSUME k = j, NEW outcome \in Outcome, ChildEnds(j, outcome)
        PROVE  CostOf(k)'
    <3>1. job[k].phase = "running" /\ Len(job[k].results) < NChildren
        BY <1>0, <2>7 DEF ChildEnds, CostOf, Complete
    <3>2. /\ job'[k].results = Append(job[k].results, outcome) /\ job'[k].cache = job[k].cache
          /\ job'[k].phase = IF Complete(Append(job[k].results, outcome)) THEN "judging" ELSE "between"
        BY <1>0, <2>7 DEF ChildEnds, Job
    <3>3. Len(job'[k].results) = Len(job[k].results) + 1
        BY <1>0, <3>2, AppendProperties
    <3> QED BY <1>0, <3>1, <3>2, <3>3 DEF CostOf, Complete
  <2> QED BY <1>9, <2>1, <2>2, <2>3, <2>4, <2>5, <2>6, <2>7 DEF Work
<1> QED
    BY <1>3, <1>4, <1>5, <1>6, <1>7, <1>8, <1>9 DEF Next, MainStep, HandlerStep

\* Appending a row adds its simulations.
LEMMA SimulationsAppend ==
    ASSUME NEW rows \in Seq(Row), NEW row \in Row
    PROVE  SimulationsOf(Append(rows, row)) = SimulationsOf(rows) + row.simulations
BY RowsOfTable, SimulationSetAppend, SimulationsCounted

\* A row costs no more than what was reserved for its point.
LEMMA RowCost ==
    ASSUME TypeOK, Budget, NEW j \in Slot
    PROVE  RowOf(j).simulations \in Nat /\ RowOf(j).simulations <= PerPoint
<1> DEFINE miss == IF job[j].cache = "miss" THEN 1 ELSE 0
<1>1. Len(job[j].results) \in Nat /\ Len(job[j].results) <= NChildren
    BY LenProperties DEF TypeOK, Job, Budget, CostOf
<1>2. miss \in {0, 1} /\ miss <= PointRuns
    BY BatchAssumption DEF Budget, CostOf
<1>3. RowOf(j).simulations = Len(job[j].results) + miss
    BY DEF RowOf
<1> HIDE DEF miss
<1>4. NChildren \in Nat /\ PointRuns \in Nat
    BY BatchAssumption
<1> QED
    BY <1>1, <1>2, <1>3, <1>4 DEF PerPoint

\* The jobs that may still append a row are finitely many.
LEMMA ReservedFinite == IsFiniteSet(Reserved) /\ Cardinality(Reserved) \in Nat
<1>1. IsFiniteSet(Slot)
    BY FS_Interval, BatchAssumption DEF Slot
<1> QED
    BY <1>1, FS_Subset, FS_CardinalityType DEF Reserved

\* Every step keeps the budget: rows and reservations together stay within it.
LEMMA BudgetNext ==
    ASSUME TypeOK, Shape, Budget, [Next]_vars
    PROVE  Budget'
<1> DEFINE R == Cardinality(Reserved)
           S == SimulationsOf(file)
<1>0. /\ job \in [Slot -> Job] /\ file \in Seq(Row) /\ used \in Nat
      /\ PerPoint \in Nat /\ MaxSimulations \in Nat /\ S \in Nat /\ R \in Nat /\ IsFiniteSet(Reserved)
      /\ S + PerPoint * R <= MaxSimulations /\ (main = "planning" => S + PerPoint * R <= used)
    BY BatchAssumption, SimulationsFinite, ReservedFinite DEF TypeOK, Budget, BudgetKept, PerPoint
<1>1. \A j \in Slot : CostOf(j)'
    BY CostOfNext
<1>2. CASE \E request \in Requests : Call(request)
  <2>1. file' = file /\ used' = S /\ Reserved' = {}
      BY <1>2 DEF Call, NoJob, store, Reserved, Pending
  <2>2. Cardinality(Reserved)' = 0 /\ SimulationsOf(file)' = S
    <3>1. Cardinality(Reserved)' = 0
        BY <2>1, FS_EmptySet
    <3> QED BY <2>1, <3>1 DEF SimulationsOf, Table!SimulationsOf, Table!Simulations
  <2>3. S <= MaxSimulations
    <3>1. PerPoint * R >= 0
        BY <1>0
    <3> QED BY <1>0, <3>1
  <2>4. PerPoint * 0 = 0
      BY <1>0
  <2> QED BY <1>0, <1>1, <2>1, <2>2, <2>3, <2>4 DEF Budget, BudgetKept
<1>3. CASE PlanNew
  <2>1. planned + 1 \in Slot
      BY <1>3, PlannedSlot DEF PlanNew
  <2>2. /\ file' = file /\ used' = used + PerPoint /\ used + PerPoint <= MaxSimulations /\ main = "planning"
        /\ \A j \in Slot \ {planned + 1} : job'[j] = job[j]
      BY <1>0, <1>3, <2>1 DEF PlanNew, Planning, store
  <2>3. Reserved' \subseteq Reserved \cup {planned + 1}
      BY <2>2 DEF Reserved
  <2> DEFINE C == Cardinality(Reserved')
  <2>4. C \in Nat /\ C <= R + 1
    <3>1. IsFiniteSet(Reserved \cup {planned + 1}) /\ Cardinality(Reserved \cup {planned + 1}) <= R + 1
      <4>1. /\ IsFiniteSet(Reserved \cup {planned + 1})
            /\ Cardinality(Reserved \cup {planned + 1}) = IF planned + 1 \in Reserved THEN R ELSE R + 1
          BY <1>0, FS_AddElement
      <4> HIDE DEF R
      <4> QED BY <1>0, <4>1
    <3>2. IsFiniteSet(Reserved') /\ C <= Cardinality(Reserved \cup {planned + 1})
        BY <2>3, <3>1, FS_Subset
    <3>3. C \in Nat /\ Cardinality(Reserved \cup {planned + 1}) \in Nat
        BY <3>1, <3>2, FS_CardinalityType
    <3> HIDE DEF C, R
    <3> QED BY <1>0, <3>1, <3>2, <3>3
  <2>5. SimulationsOf(file)' = S
      BY <2>2 DEF SimulationsOf, Table!SimulationsOf, Table!Simulations
  <2> HIDE DEF C, R, S
  <2>6. PerPoint * C <= PerPoint * R + PerPoint
    <3>1. PerPoint * C <= PerPoint * (R + 1)
        BY <1>0, <2>4
    <3>2. PerPoint * (R + 1) = PerPoint * R + PerPoint
        BY <1>0
    <3> QED BY <1>0, <2>4, <3>1, <3>2
  <2>7. PerPoint * C \in Nat /\ PerPoint * R \in Nat
      BY <1>0, <2>4
  <2>8. S + PerPoint * C <= used + PerPoint
      BY <1>0, <2>2, <2>6, <2>7
  <2>9. S + PerPoint * C <= MaxSimulations
      BY <1>0, <2>2, <2>7, <2>8
  <2> QED BY <1>1, <2>2, <2>5, <2>8, <2>9 DEF Budget, BudgetKept, C
<1>4. ASSUME NEW j \in Slot, AppendRow(j)
      PROVE  Budget'
  <2>1. /\ j \in Reserved /\ main # "planning" /\ main' = main /\ Reserved' = Reserved \ {j}
        /\ RowOf(j) \in Row /\ file' = Append(file, RowOf(j))
      BY <1>4, Appended DEF AppendRow
  <2> DEFINE C == Cardinality(Reserved')
             cost == RowOf(j).simulations
  <2>2. cost \in Nat /\ cost <= PerPoint
      BY RowCost
  <2>3. SimulationsOf(file)' = S + cost
    <3>1. SimulationsOf(Append(file, RowOf(j))) = S + cost
        BY <1>0, <2>1, SimulationsAppend
    <3> QED BY <2>1, <3>1 DEF SimulationsOf, Table!SimulationsOf, Table!Simulations
  <2>4. C = R - 1 /\ C \in Nat
    <3>1. C = R - 1 /\ IsFiniteSet(Reserved')
        BY <1>0, <2>1, FS_RemoveElement
    <3> QED BY <3>1, FS_CardinalityType
  <2> HIDE DEF C, R, S, cost
  <2>5. PerPoint * R = PerPoint * C + PerPoint
    <3>1. R = C + 1
        BY <1>0, <2>4
    <3> QED BY <1>0, <2>4, <3>1
  <2>6. PerPoint * C \in Nat
      BY <1>0, <2>4
  <2>7. S + cost + PerPoint * C <= MaxSimulations
      BY <1>0, <2>2, <2>5, <2>6
  <2> QED BY <1>1, <2>1, <2>3, <2>7 DEF Budget, BudgetKept, C
<1>5. ASSUME \A request \in Requests : ~Call(request), ~PlanNew, \A j \in Slot : ~AppendRow(j)
      PROVE  Budget'
  <2>1. /\ file' = file /\ \A k \in Slot : Kept(k)
        /\ main' = "planning" => main = "planning" /\ used' = used
      BY <1>5, Quiet
  <2>2. Reserved' \subseteq Reserved
      BY <2>1 DEF Reserved, Kept, Own, Pending
  <2> DEFINE C == Cardinality(Reserved')
  <2>3. C \in Nat /\ C <= R
    <3>1. IsFiniteSet(Reserved') /\ C <= R
        BY <1>0, <2>2, FS_Subset
    <3> QED BY <3>1, FS_CardinalityType
  <2>4. SimulationsOf(file)' = S
      BY <2>1 DEF SimulationsOf, Table!SimulationsOf, Table!Simulations
  <2> HIDE DEF C, R, S
  <2>5. PerPoint * C <= PerPoint * R /\ PerPoint * C \in Nat /\ PerPoint * R \in Nat
      BY <1>0, <2>3
  <2>6. S + PerPoint * C <= MaxSimulations /\ (main = "planning" => S + PerPoint * C <= used)
      BY <1>0, <2>5
  <2> QED BY <1>1, <2>1, <2>4, <2>6 DEF Budget, BudgetKept, C
<1> QED
    BY <1>2, <1>3, <1>4, <1>5

----------------------------------------------------------------------------
(* The invariant, and what it gives *)

\* The invariant holds at the start.
LEMMA IInvInit == Init => IInv
<1> SUFFICES ASSUME Init PROVE IInv
    OBVIOUS
<1>1. TypeOK
    BY TypeInit
<1>2. /\ file = <<>> /\ DOMAIN file = {} /\ Reserved = {} /\ main = "idle" /\ handler = "none"
      /\ interrupts = 0 /\ seen = 0 /\ dirs = {}
      /\ \A j \in Slot : job[j] = NoJob
    BY DEF Init, Reserved, Pending, NoJob
<1>3. \A j \in Slot : /\ job[j].phase = "none" /\ job[j].results = <<>> /\ job[j].cache = "none"
                      /\ ~job[j].signalled /\ ~job[j].reused
  <2>1. NoJob.phase = "none" /\ NoJob.results = <<>> /\ NoJob.cache = "none" /\ ~NoJob.signalled /\ ~NoJob.reused
      BY DEF NoJob
  <2> QED BY <1>2, <2>1
<1>4. Numbering /\ Shape /\ Reuse
    BY <1>2, <1>3 DEF Numbering, Own, Shape, ShapeOf, Reuse, OkPointsReused
<1>5. Interruption
    BY <1>2, <1>3 DEF Interruption, InterruptedOf, Busy
<1>6. Budget
  <2>1. SimulationsOf(file) = 0
    <3>1. SimulationSet(file) = {}
        BY <1>2 DEF SimulationSet
    <3> QED BY <3>1, SimulationsCounted, FS_EmptySet
  <2>2. Cardinality(Reserved) = 0
      BY <1>2, FS_EmptySet
  <2>3. PerPoint * 0 = 0 /\ MaxSimulations \in Nat /\ NChildren \in Nat \ {0}
      BY BatchAssumption DEF PerPoint
  <2>4. \A j \in Slot : CostOf(j)
      BY <1>3, <2>3, EmptySeq DEF CostOf
  <2> QED BY <1>2, <2>1, <2>2, <2>3, <2>4 DEF Budget, BudgetKept
<1> QED
    BY <1>1, <1>4, <1>5, <1>6 DEF IInv

\* The invariant is inductive.
LEMMA IInvNext ==
    ASSUME IInv, [Next]_vars
    PROVE  IInv'
BY TypeNext, NumberingNext, ShapeNext, InterruptionNext, ReuseNext, BudgetNext DEF IInv

\* The inductive invariant holds in every reachable state.
LEMMA IInvCorrect == Spec => []IInv
<1>1. IInv /\ [Next]_vars => IInv'
    BY IInvNext
<1> QED
    BY IInvInit, <1>1, PTL DEF Spec

\* The inductive invariant gives the safety properties the runs check.
LEMMA IInvImplies == IInv => UniqueIds /\ NoInterruptFailureRecorded /\ OkPointsReused /\ BudgetKept
<1> SUFFICES ASSUME IInv PROVE UniqueIds /\ NoInterruptFailureRecorded /\ OkPointsReused /\ BudgetKept
    OBVIOUS
<1>1. UniqueIds
  <2>1. \A j \in Live : Own(j) /\ (j \in Reserved \/ job[j].phase \in {"appended", "retaining"})
      BY DEF IInv, Shape, ShapeOf, Live, Busy, Own, Reserved, Pending
  <2>2. \A j, k \in Live : job[j].id = job[k].id => j = k
      BY <2>1 DEF IInv, Numbering, Live
  <2>3. \A j \in Live : \A i \in DOMAIN file :
            file[i].id = job[j].id => job[j].phase \in {"appended", "retaining"}
      BY <2>1 DEF IInv, Numbering, Ids, Table!Ids
  <2> QED BY <2>2, <2>3 DEF IInv, Numbering, UniqueIds
<1>2. NoInterruptFailureRecorded
    BY DEF IInv, Interruption, Table!Honest, NoInterruptFailureRecorded
<1> QED
    BY <1>1, <1>2 DEF IInv, Reuse, Budget

\* Numbers are handed out once: whatever was interrupted, killed or left unfinished before, no two rows of the table share
\* a number and no job at work holds the number of another's row (store.py, next_obs_index).
THEOREM UniqueIdsCorrect == Spec => []UniqueIds
BY IInvCorrect, IInvImplies, PTL

\* However many interrupts come, and whenever they come, no row of the table tells a failure they caused (engine.py, the
\* check after _run_point; process_group.py, the count before the signal).
THEOREM NoInterruptFailureCorrect == Spec => []NoInterruptFailureRecorded
BY IInvCorrect, IInvImplies, PTL

\* A point that has an ok row is simulated again by no later call (engine.py, reusable).
THEOREM OkPointsReusedCorrect == Spec => []OkPointsReused
BY IInvCorrect, IInvImplies, PTL

\* The rows together never cost more than the budget, nor will they when every job at work is recorded (engine.py, the
\* reservation of sims_per_point).
THEOREM BudgetKeptCorrect == Spec => []BudgetKept
BY IInvCorrect, IInvImplies, PTL

\* A step of the batch records one row the abstract table accepts, or leaves the table alone.
LEMMA RecordsOrStutters ==
    ASSUME IInv, IInv', [Next]_vars
    PROVE  [Table!RecordWithin]_file
<1>1. ASSUME NEW j \in Slot, AppendRow(j)
      PROVE  Table!RecordWithin
  <2>1. j \in Reserved /\ RowOf(j) \in Row /\ RowOf(j).id = job[j].id
      BY <1>1, Appended DEF IInv
  <2>2. file \in Seq(Row) /\ file' \in Seq(Row)
      BY DEF IInv, TypeOK
  <2>3. file' = Append(file, RowOf(j))
      BY <1>1 DEF AppendRow
  <2>4. /\ Len(file') = Len(file) + 1 /\ SubSeq(file', 1, Len(file)) = file
        /\ file'[Len(file')] = RowOf(j)
      BY <2>1, <2>2, <2>3, AppendExtends
  <2>5. job[j].id \notin Table!Ids(file)
      BY <2>1 DEF IInv, Numbering, Ids
  <2>6. Table!Honest(RowOf(j))
    <3>1. Len(file') \in DOMAIN file'
        BY <2>1, <2>3, <2>4, Appended, <1>1 DEF IInv
    <3>2. Table!Honest(file'[Len(file')])
        BY <3>1 DEF IInv, Interruption
    <3> QED BY <2>4, <3>2
  <2>7. Table!SimulationsOf(file') <= MaxSimulations
    <3>1. SimulationsOf(file') + PerPoint * Cardinality(Reserved') <= MaxSimulations
        BY DEF IInv, Budget, BudgetKept, SimulationsOf, Table!SimulationsOf, Table!Simulations
    <3>2. Cardinality(Reserved') \in Nat /\ PerPoint \in Nat /\ MaxSimulations \in Nat
      <4>1. IsFiniteSet(Slot)
          BY FS_Interval, BatchAssumption DEF Slot
      <4> QED BY <4>1, FS_Subset, FS_CardinalityType, BatchAssumption DEF Reserved, PerPoint
    <3>3. PerPoint * Cardinality(Reserved') \in Nat
        BY <3>2
    <3>4. SimulationsOf(file') \in Nat
        BY <2>2, SimulationsFinite
    <3> QED BY <3>1, <3>2, <3>3, <3>4 DEF SimulationsOf
  <2> QED BY <2>1, <2>3, <2>4, <2>5, <2>6, <2>7 DEF Table!Record, Table!RecordWithin
<1>2. ASSUME \A request \in Requests : ~Call(request), ~PlanNew, \A j \in Slot : ~AppendRow(j)
      PROVE  file' = file
    BY <1>2, Quiet DEF IInv
<1>3. (\E request \in Requests : Call(request)) \/ PlanNew => file' = file
    BY DEF Call, PlanNew, store
<1> QED
    BY <1>1, <1>2, <1>3

\* The batch implements the append-only table its readers rely on: each step adds one honest row under a fresh number
\* within the budget, or leaves the table alone (store.py, append).
THEOREM Refinement == Spec => ImplementsFactTable
<1>1. Init => Table!Init
    BY DEF Init, Table!Init
<1>2. IInv /\ IInv' /\ [Next]_vars => [Table!RecordWithin]_file
    BY RecordsOrStutters
<1> QED
    BY <1>1, <1>2, IInvCorrect, PTL DEF Spec, ImplementsFactTable, Table!BudgetedSpec

----------------------------------------------------------------------------
(* Commands after an interrupt *)

\* The jobs that started a command late.
Lated == {j \in Slot : late[j] # {}}

\* What a job started late is of one stage, the one it is at while its command starts or runs.
LatenessOf(j) ==
    \E s \in 0..NChildren :
        /\ late[j] \subseteq {s, Removal}
        /\ job[j].phase \in {"starting", "running"} => s = StageOf(j)

\* The jobs at work and those that were when the interrupt came are no more than the threads, for none is taken up or goes
\* on to a stage after it; before it, no command is late.
Lateness ==
    /\ Cardinality(Live \cup Lated) <= Workers
    /\ ~Stopping \/ main = "planning" => Lated = {}
    /\ \A j \in Slot : LatenessOf(j)

\* Sets of slots are finite.
LEMMA SlotSets ==
    ASSUME NEW S \in SUBSET Slot
    PROVE  /\ IsFiniteSet(S) /\ Cardinality(S) \in Nat
           /\ \A T \in SUBSET S : Cardinality(T) <= Cardinality(S)
<1>1. IsFiniteSet(Slot)
    BY FS_Interval, BatchAssumption DEF Slot
<1>2. IsFiniteSet(S)
    BY <1>1, FS_Subset
<1> QED
    BY <1>2, FS_Subset, FS_CardinalityType

\* A job that is let into a stage is at one of the stages there are.
LEMMA StageInRange ==
    ASSUME TypeOK, NEW j \in Slot, CostOf(j), job[j].phase \in {"between", "starting", "running"}
    PROVE  StageOf(j) \in 0..NChildren
<1>1. Len(job[j].results) \in Nat /\ NChildren \in Nat
    BY LenProperties, BatchAssumption DEF TypeOK, Job
<1>2. Len(job[j].results) # NChildren /\ Len(job[j].results) <= NChildren
    BY DEF CostOf, Complete
<1> QED
    BY <1>1, <1>2 DEF StageOf

\* What a step of a job does to its phase and its stage.
LEMMA JobStepStages ==
    ASSUME TypeOK, NEW j \in Slot, Take(j) \/ Work(j)
    PROVE  /\ job'[j].phase \in Busy => job[j].phase \in Busy \/ TakeUp(j)
           /\ job'[j].phase \in {"starting", "running"} =>
                  Begin(j) \/ (job[j].phase \in {"starting", "running"} /\ StageOf(j)' = StageOf(j))
<1>1. job \in [Slot -> Job]
    BY DEF TypeOK
<1>2. CASE \/ TakeReused(j) \/ TakeAfterInterrupt(j) \/ BetweenInterrupted(j) \/ CommandRaises(j)
           \/ JudgeInterrupted(j) \/ Judge(j) \/ AppendRow(j) \/ Retain(j) \/ RetainRaises(j)
    BY <1>1, <1>2
       DEF TakeReused, TakeAfterInterrupt, BetweenInterrupted, CommandRaises, JudgeInterrupted, Judge, AppendRow,
           Retain, RetainRaises, To, Busy, Job
<1>3. CASE CacheHit(j) \/ MarkRecorded(j)
    BY <1>1, <1>3 DEF CacheHit, MarkRecorded, Busy, Job
<1>4. CASE TakeUp(j)
  <2>1. job'[j].phase = "between"
      BY <1>1, <1>4 DEF TakeUp, Job
  <2> QED BY <1>4, <2>1
<1>5. CASE Begin(j)
  <2>1. job[j].phase \in Busy
      BY <1>5 DEF Begin, Busy
  <2> QED BY <1>5, <2>1
<1>6. CASE \E outcome \in Outcome : PointStageEnds(j, outcome) \/ ChildEnds(j, outcome)
    BY <1>1, <1>6 DEF PointStageEnds, ChildEnds, Busy, Job
<1>7. CASE Spawn(j)
    BY <1>1, <1>7 DEF Spawn, Busy, StageOf, AtPointStage, Job
<1>8. CASE Retry(j)
    BY <1>1, <1>8 DEF Retry, Busy, StageOf, AtPointStage, Job
<1> QED
    BY <1>2, <1>3, <1>4, <1>5, <1>6, <1>7, <1>8 DEF Take, Work

\* What a step of a job does to the commands started late.
LEMMA JobStepLate ==
    ASSUME TypeOK, NEW j \in Slot, Take(j) \/ Work(j)
    PROVE  /\ \A k \in Slot \ {j} : late'[k] = late[k]
           /\ ~Stopping => late' = late
           /\ Spawn(j) => late'[j] \subseteq late[j] \cup {StageOf(j)}
           /\ ~Spawn(j) => late'[j] \subseteq late[j] \cup {Removal}
           /\ late'[j] # late[j] => job[j].phase \in Busy
<1>1. late \in [Slot -> SUBSET Nat]
    BY DEF TypeOK
<1>2. CASE Spawn(j)
    BY <1>1, <1>2 DEF Spawn, Starts, Busy
<1>3. CASE Retain(j) \/ RetainRaises(j)
  <2>1. ~Spawn(j) /\ job[j].phase \in Busy
      BY <1>3 DEF Retain, RetainRaises, Spawn, Busy
  <2> QED BY <1>1, <1>3, <2>1 DEF Retain, RetainRaises, Starts
<1>4. CASE ~Spawn(j) /\ ~Retain(j) /\ ~RetainRaises(j)
  <2>1. late' = late
      BY <1>4
         DEF Take, TakeReused, TakeAfterInterrupt, TakeUp, Work, BetweenInterrupted, Begin, CacheHit, PointStageEnds,
             ChildEnds, Retry, CommandRaises, JudgeInterrupted, Judge, AppendRow, MarkRecorded
  <2> QED BY <1>4, <2>1
<1> QED
    BY <1>2, <1>3, <1>4

\* A job's step: only one let into its stage before the interrupt starts commands after it.
LEMMA LatenessOfJob ==
    ASSUME IInv, Lateness, NEW j \in Slot, Take(j) \/ Work(j)
    PROVE  Lateness'
<1>1. TypeOK /\ job \in [Slot -> Job] /\ Workers \in Nat \ {0} /\ NChildren \in Nat
    BY BatchAssumption DEF IInv, TypeOK
<1>2. UNCHANGED <<main, stop, seen, interrupts>> /\ \A k \in Slot \ {j} : job'[k] = job[k]
    BY JobStepFrame, OtherJobs DEF IInv, mainVar, signal
<1>3. Stopping' = Stopping
    BY <1>2 DEF Stopping
<1>4. main # "planning"
    BY DEF IInv, Shape, ShapeOf, Take, TakeReused, TakeAfterInterrupt, TakeUp, NextInQueue, Work, BetweenInterrupted,
           Begin, CacheHit, Spawn, PointStageEnds, ChildEnds, Retry, CommandRaises, JudgeInterrupted, Judge, AppendRow,
           MarkRecorded, Retain, RetainRaises
<1>5. /\ Live \cup Lated \in SUBSET Slot /\ Live' \cup Lated' \in SUBSET Slot
      /\ IsFiniteSet(Live \cup Lated)
      /\ Cardinality(Live \cup Lated) \in Nat /\ Cardinality(Live' \cup Lated') \in Nat
  <2>1. Live \cup Lated \in SUBSET Slot /\ Live' \cup Lated' \in SUBSET Slot
      BY DEF Live, Lated
  <2> QED BY <2>1, SlotSets
<1>6. Cardinality(Live' \cup Lated') <= Workers
  <2>1. CASE TakeUp(j)
    <3>1. ~Stopping /\ Lated = {} /\ late' = late
        BY <1>1, <2>1, JobStepLate DEF TakeUp, Lateness
    <3>2. Live' \cup Lated' \subseteq Live \cup {j}
        BY <1>1, <1>2, <3>1 DEF Live, Lated
    <3>3. Cardinality(Live) <= Workers - 1
        BY <1>1, <2>1 DEF TakeUp, NextInQueue
    <3>4. IsFiniteSet(Live) /\ Cardinality(Live) \in Nat
        BY SlotSets DEF Live
    <3>5. Cardinality(Live \cup {j}) <= Cardinality(Live) + 1
      <4> DEFINE n == Cardinality(Live)
                 m == Cardinality(Live \cup {j})
      <4>1. m = IF j \in Live THEN n ELSE n + 1
          BY <3>4, FS_AddElement, Zenon
      <4>2. n \in Nat
          BY <3>4
      <4> HIDE DEF n, m
      <4>3. m <= n + 1
          BY <4>1, <4>2
      <4> QED BY <4>3 DEF n, m
    <3>6. Cardinality(Live' \cup Lated') <= Cardinality(Live \cup {j}) /\ Cardinality(Live \cup {j}) \in Nat
      <4>1. Live \cup {j} \in SUBSET Slot
          BY DEF Live
      <4> QED BY <3>2, <4>1, SlotSets
    <3> QED BY <1>1, <1>5, <3>3, <3>4, <3>5, <3>6
  <2>2. CASE ~TakeUp(j)
    <3>1. Live' \cup Lated' \subseteq Live \cup Lated
      <4>1. \A k \in Slot \ {j} : k \in Live' \cup Lated' => k \in Live \cup Lated
          BY <1>1, <1>2, JobStepLate DEF Live, Lated
      <4>2. j \in Live' \cup Lated' => j \in Live \cup Lated
          BY <1>1, <2>2, JobStepLate, JobStepStages DEF Live, Lated
      <4> QED BY <1>5, <4>1, <4>2
    <3> QED BY <1>1, <1>5, <3>1, SlotSets DEF Lateness
  <2> QED BY <2>1, <2>2
<1>7. ~Stopping' \/ main' = "planning" => Lated' = {}
  <2>1. CASE Stopping
      BY <1>2, <1>3, <1>4, <2>1
  <2>2. CASE ~Stopping
      BY <1>1, <2>2, JobStepLate DEF Lateness, Lated
  <2> QED BY <2>1, <2>2
<1>8. ASSUME NEW k \in Slot
      PROVE  LatenessOf(k)'
  <2>1. CASE k # j
    <3>1. job'[k] = job[k] /\ late'[k] = late[k]
        BY <1>1, <1>2, <2>1, JobStepLate
    <3> QED BY <3>1 DEF Lateness, LatenessOf, StageOf, AtPointStage
  <2>2. CASE k = j /\ Begin(j)
    <3>1. late'[j] = {}
        BY <1>1, <2>2, JobStepLate DEF Begin, Lateness, Lated
    <3>2. StageOf(j)' = StageOf(j)
        BY <1>1, <2>2 DEF Begin, To, StageOf, AtPointStage, Job
    <3>3. StageOf(j) \in 0..NChildren
        BY <1>1, <2>2, StageInRange DEF Begin, IInv, Budget
    <3> QED BY <2>2, <3>1, <3>2, <3>3 DEF LatenessOf
  <2>3. CASE k = j /\ ~Begin(j)
    <3>1. PICK s \in 0..NChildren : /\ late[j] \subseteq {s, Removal}
                                    /\ job[j].phase \in {"starting", "running"} => s = StageOf(j)
        BY DEF Lateness, LatenessOf
    <3>2. late'[j] \subseteq {s, Removal}
      <4>1. CASE Spawn(j)
        <5>1. s = StageOf(j)
            BY <3>1, <4>1 DEF Spawn
        <5> QED BY <1>1, <3>1, <4>1, <5>1, JobStepLate
      <4>2. CASE ~Spawn(j)
          BY <1>1, <3>1, <4>2, JobStepLate
      <4> QED BY <4>1, <4>2
    <3>3. job'[j].phase \in {"starting", "running"} => s = StageOf(j)'
        BY <1>1, <2>3, <3>1, JobStepStages
    <3> QED BY <2>3, <3>2, <3>3 DEF LatenessOf
  <2> QED BY <2>1, <2>2, <2>3
<1> QED
    BY <1>6, <1>7, <1>8 DEF Lateness

\* Every step keeps what is late within the threads and their stages.
LEMMA LatenessNext ==
    ASSUME IInv, Lateness, [Next]_vars
    PROVE  Lateness'
<1>1. /\ job \in [Slot -> Job] /\ late \in [Slot -> SUBSET Nat] /\ Workers \in Nat \ {0} /\ NChildren \in Nat
      /\ seen \in Nat /\ interrupts \in Nat /\ seen <= interrupts
    BY BatchAssumption DEF IInv, TypeOK, Interruption
<1>2. CASE \E j \in Slot : Take(j) \/ Work(j)
    BY <1>2, LatenessOfJob
<1>3. ASSUME late' = late \/ late' = [j \in Slot |-> {}],
             ~Stopping' \/ main' = "planning" => Lated' = {},
             \A k \in Slot : \/ job'[k].phase \notin Busy
                             \/ /\ job'[k].phase = job[k].phase
                                /\ job'[k].results = job[k].results /\ job'[k].cache = job[k].cache
      PROVE  Lateness'
  <2>1. Live \cup Lated \in SUBSET Slot /\ Live' \cup Lated' \subseteq Live \cup Lated
      BY <1>1, <1>3 DEF Live, Lated
  <2>2. Cardinality(Live' \cup Lated') <= Cardinality(Live \cup Lated)
        /\ Cardinality(Live' \cup Lated') \in Nat /\ Cardinality(Live \cup Lated) \in Nat
    <3>1. Live' \cup Lated' \in SUBSET Slot
        BY <2>1
    <3> QED BY <2>1, <3>1, SlotSets
  <2>3. ASSUME NEW k \in Slot
        PROVE  LatenessOf(k)'
    <3>1. PICK s \in 0..NChildren : /\ late[k] \subseteq {s, Removal}
                                    /\ job[k].phase \in {"starting", "running"} => s = StageOf(k)
        BY DEF Lateness, LatenessOf
    <3>2. late'[k] \subseteq {s, Removal}
        BY <1>1, <1>3, <3>1
    <3>3. job'[k].phase \in {"starting", "running"} => s = StageOf(k)'
        BY <1>3, <3>1 DEF StageOf, AtPointStage, Busy
    <3> QED BY <3>2, <3>3 DEF LatenessOf
  <2> QED BY <1>1, <1>3, <2>2, <2>3 DEF Lateness
<1>4. CASE (\E request \in Requests : Call(request)) \/ PlanRefused \/ RaiseInPlanning \/ Crash
  <2>1. \A k \in Slot : job'[k].phase \notin Busy
      BY <1>4 DEF Call, PlanRefused, RaiseInPlanning, Crash, NoJob, Busy
  <2>2. (late' = late /\ main' = "idle" /\ Stopping' = Stopping) \/ late' = [j \in Slot |-> {}]
    <3>1. CASE \E request \in Requests : Call(request)
        BY <3>1 DEF Call
    <3>2. CASE PlanRefused \/ RaiseInPlanning \/ Crash
        BY <3>2 DEF PlanRefused, RaiseInPlanning, Crash, signal, Stopping
    <3> QED BY <1>4, <3>1, <3>2
  <2> QED BY <1>3, <2>1, <2>2 DEF Lateness, Lated
<1>5. CASE PlanReuse \/ PlanNew
  <2>1. TypeOK
      BY DEF IInv
  <2>2. planned + 1 \in Slot
    <3>1. CASE PlanReuse
        BY <2>1, <3>1, PlannedSlot DEF PlanReuse
    <3>2. CASE PlanNew
        BY <2>1, <3>2, PlannedSlot DEF PlanNew
    <3> QED BY <1>5, <3>1, <3>2
  <2>3. \A k \in Slot : job'[k] = job[k] \/ job'[k].phase \notin Busy
    <3>1. CASE PlanReuse
        BY <1>1, <2>2, <3>1 DEF PlanReuse, NoJob, Busy
    <3>2. CASE PlanNew
        BY <1>1, <2>2, <3>2 DEF PlanNew, NoJob, Busy
    <3> QED BY <1>5, <3>1, <3>2
  <2>4. late' = late /\ Lated = {}
    <3>1. CASE PlanReuse
        BY <3>1 DEF PlanReuse, Planning, Lateness
    <3>2. CASE PlanNew
        BY <3>2 DEF PlanNew, Planning, Lateness
    <3> QED BY <1>5, <3>1, <3>2
  <2> QED BY <1>3, <2>3, <2>4 DEF Lated
<1>6. CASE Submit
  <2>1. \A k \in Slot : job'[k] = job[k] \/ job'[k].phase \notin Busy
      BY <1>1, <1>6 DEF Submit, Busy
  <2>2. late' = late /\ Lated = {}
      BY <1>6 DEF Submit, Planning, Lateness
  <2> QED BY <1>3, <2>1, <2>2 DEF Lated
<1>7. CASE MainRaised \/ RaiseInWaiting
  <2>1. job' = Cancelled /\ late' = late /\ main' # "planning" /\ (Stopping => Stopping')
    <3>1. CASE MainRaised
        BY <3>1 DEF MainRaised, signal, Stopping
    <3>2. CASE RaiseInWaiting
        BY <3>2 DEF RaiseInWaiting, Stopping
    <3> QED BY <1>7, <3>1, <3>2
  <2>2. \A k \in Slot : job'[k] = job[k] \/ job'[k].phase \notin Busy
      BY <1>1, <2>1 DEF Cancelled, Busy
  <2> QED BY <1>3, <2>1, <2>2 DEF Lateness, Lated
<1>8. CASE SignalGroups
  <2>1. \A k \in Slot : /\ job'[k].phase = job[k].phase
                        /\ job'[k].results = job[k].results /\ job'[k].cache = job[k].cache
      BY <1>1, <1>8 DEF SignalGroups, Job
  <2>2. late' = late /\ main' = main /\ Stopping' = Stopping
      BY <1>8 DEF SignalGroups, mainVar, Stopping
  <2> QED BY <1>3, <2>1, <2>2 DEF Lateness, Lated
<1>9. CASE Interrupt
  <2>1. job' = job /\ late' = late /\ main' = main /\ Stopping'
      BY <1>1, <1>9 DEF Interrupt, mainVar, Stopping
  <2> QED BY <1>3, <2>1 DEF Lateness, Lated
<1>10. CASE \/ MainNext \/ MainDone \/ MainLogs \/ ShutdownEnds \/ Unwound
           \/ RaiseInShutdown \/ RaiseInUnwinding \/ RaiseInLogging \/ UNCHANGED vars
  <2>1. /\ job' = job /\ late' = late /\ Stopping' = Stopping
        /\ main' = "planning" => main = "planning"
      BY <1>10
         DEF MainNext, MainDone, MainLogs, ShutdownEnds, Unwound, RaiseInShutdown, RaiseInUnwinding,
             RaiseInLogging, vars, mainVar, signal, Stopping
  <2> QED BY <1>3, <2>1 DEF Lateness, Lated
<1> QED
    BY <1>2, <1>4, <1>5, <1>6, <1>7, <1>8, <1>9, <1>10 DEF Next, MainStep, HandlerStep

\* However many points, threads, interrupts and attempts: a batch that is interrupted lets no job into a point, a stage or
\* a child any more; what its threads still start belongs to the one stage each was in (engine.py, _unless_stopping).
THEOREM LateInOneStageCorrect == Spec => []LateInOneStage
<1>1. Init => Lateness
  <2> SUFFICES ASSUME Init PROVE Lateness
      OBVIOUS
  <2>1. \A j \in Slot : job[j].phase = "none" /\ late[j] = {}
      BY DEF Init, NoJob
  <2>2. Live \cup Lated = {} /\ Lated = {}
      BY <2>1 DEF Live, Lated, Busy
  <2>3. 0 \in 0..NChildren
      BY BatchAssumption
  <2>4. \A j \in Slot : LatenessOf(j)
      BY <2>1, <2>3 DEF LatenessOf
  <2>5. Cardinality(Live \cup Lated) = 0
      BY <2>2, FS_EmptySet
  <2> QED BY <2>2, <2>4, <2>5, BatchAssumption DEF Lateness
<1>2. IInv /\ Lateness /\ [Next]_vars => Lateness'
    BY LatenessNext
<1>3. Lateness => LateInOneStage
  <2> SUFFICES ASSUME Lateness PROVE LateInOneStage
      OBVIOUS
  <2>1. Live \cup Lated \in SUBSET Slot /\ Lated \in SUBSET (Live \cup Lated)
      BY DEF Live, Lated
  <2>2. Cardinality(Lated) <= Cardinality(Live \cup Lated) /\ Cardinality(Lated) \in Nat
        /\ Cardinality(Live \cup Lated) \in Nat
    <3>1. Lated \in SUBSET Slot
        BY DEF Lated
    <3> QED BY <2>1, <3>1, SlotSets
  <2>3. Cardinality(Lated) <= Workers
      BY <2>2, BatchAssumption DEF Lateness
  <2> QED BY <2>3 DEF Lateness, LatenessOf, LateInOneStage, Lated
<1> QED
    BY <1>1, <1>2, <1>3, IInvCorrect, PTL DEF Spec

----------------------------------------------------------------------------
(***************************************************************************)
(* What a batch leaves of itself: the lock it holds while it may write,    *)
(* and its row in the step log.  Both fail once an interrupt breaks a wait *)
(* for the workers; nothing else makes them fail.                          *)
(***************************************************************************)

\* Where the calling thread is, and what it has let run by then.
CourseOf(j) ==
    /\ job[j].phase # "none" => j <= Len(points)
    /\ main # "planning" => job[j].phase # "planned"
    /\ main \notin {"planning", "waiting"} => job[j].phase # "queued"
    /\ main = "waiting" /\ j < wait => job[j].phase = "returned"
    /\ main = "logging" => job[j].phase \in {"none", "returned"}

Course ==
    /\ main \in {"planning", "waiting", "shutdown", "unwinding"} => lock
    /\ main = "planning" => wait = 1
    /\ \A j \in Slot : CourseOf(j)

\* A step of a job is a step of one that is queued or at work, and leaves it neither unplanned nor queued.
LEMMA JobStepPhases ==
    ASSUME TypeOK, Shape, NEW j \in Slot, Take(j) \/ Work(j)
    PROVE  /\ job[j].phase \in Busy \cup {"queued"} /\ job'[j].phase \notin {"none", "planned", "queued"}
           /\ main # "planning" /\ UNCHANGED points
<1> DEFINE Phases == job[j].phase \in Busy \cup {"queued"} /\ job'[j].phase \notin {"none", "planned", "queued"}
<1>1. job \in [Slot -> Job]
    BY DEF TypeOK
<1>2. CASE Take(j)
  <2>1. Phases
      BY <1>1, <1>2 DEF Take, TakeReused, TakeAfterInterrupt, TakeUp, NextInQueue, To, Job
  <2> QED BY <1>2, <2>1 DEF Take, TakeReused, TakeAfterInterrupt, TakeUp, plan, Shape, ShapeOf, Busy
<1>3. CASE \/ BetweenInterrupted(j) \/ Begin(j) \/ Retry(j) \/ CommandRaises(j) \/ JudgeInterrupted(j) \/ Judge(j)
           \/ AppendRow(j) \/ Retain(j) \/ RetainRaises(j)
  <2>1. Phases
      BY <1>1, <1>3
         DEF BetweenInterrupted, Begin, Retry, CommandRaises, JudgeInterrupted, Judge, AppendRow, Retain, RetainRaises, To, Busy,
             Job
  <2> QED
      BY <1>3, <2>1
         DEF BetweenInterrupted, Begin, Retry, CommandRaises, JudgeInterrupted, Judge, AppendRow, Retain, RetainRaises, plan,
             Shape, ShapeOf, Busy
<1>4. CASE CacheHit(j) \/ Spawn(j) \/ MarkRecorded(j)
  <2>1. Phases
      BY <1>1, <1>4 DEF CacheHit, Spawn, MarkRecorded, Busy, Job
  <2> QED BY <1>4, <2>1 DEF CacheHit, Spawn, MarkRecorded, plan, Shape, ShapeOf, Busy
<1>5. CASE \E outcome \in Outcome : PointStageEnds(j, outcome) \/ ChildEnds(j, outcome)
  <2>1. Phases
      BY <1>1, <1>5 DEF PointStageEnds, ChildEnds, Busy, Job
  <2> QED BY <1>5, <2>1 DEF PointStageEnds, ChildEnds, plan, Shape, ShapeOf, Busy
<1> QED
    BY <1>2, <1>3, <1>4, <1>5 DEF Work

\* The course holds at the start.
LEMMA CourseInit == Init => Course
<1> SUFFICES ASSUME Init PROVE Course
    OBVIOUS
<1>1. \A j \in Slot : job[j].phase = "none"
    BY DEF Init, NoJob
<1> QED
    BY <1>1 DEF Init, Course, CourseOf

\* Every step keeps it.
LEMMA CourseNext ==
    ASSUME IInv, Course, [Next]_vars
    PROVE  Course'
<1>0. /\ TypeOK /\ Shape /\ job \in [Slot -> Job] /\ wait \in Nat
      /\ Len(points) \in Nat /\ planned \in 0..Len(points)
    BY LenProperties DEF IInv, TypeOK
<1>1. ASSUME NEW j \in Slot, Take(j) \/ Work(j)
      PROVE  Course'
  <2>1. UNCHANGED <<main, wait, lock, points>> /\ \A k \in Slot \ {j} : job'[k] = job[k]
      BY <1>0, <1>1, JobStepFrame, OtherJobs, JobStepPhases DEF mainVar
  <2>2. /\ job[j].phase \in Busy \cup {"queued"} /\ job'[j].phase \notin {"none", "planned", "queued"}
      BY <1>0, <1>1, JobStepPhases
  <2>3. CourseOf(j)'
      BY <2>1, <2>2 DEF Course, CourseOf, Busy
  <2>4. \A k \in Slot \ {j} : CourseOf(k)'
      BY <2>1 DEF Course, CourseOf
  <2> QED BY <2>1, <2>3, <2>4 DEF Course
<1>2. CASE (\E request \in Requests : Call(request)) \/ PlanRefused \/ RaiseInPlanning \/ Crash
  <2>1. \A k \in Slot : job'[k].phase = "none"
      BY <1>2 DEF Call, PlanRefused, RaiseInPlanning, Crash, NoJob
  <2>2. (main' = "planning" /\ lock' /\ wait' = 1) \/ main' = "idle"
      BY <1>2 DEF Call, PlanRefused, RaiseInPlanning, Crash
  <2> QED BY <2>1, <2>2 DEF Course, CourseOf
<1>3. CASE PlanReuse \/ PlanNew
  <2>1. /\ main = "planning" /\ UNCHANGED <<main, wait, lock, points>> /\ planned < Len(points)
        /\ \E x : job' = [job EXCEPT ![planned + 1] = x]
    <3>1. CASE PlanReuse
        BY <3>1 DEF PlanReuse, Planning, mainVar
    <3>2. CASE PlanNew
        BY <3>2 DEF PlanNew, Planning, mainVar
    <3> QED BY <1>3, <3>1, <3>2
  <2>2. planned + 1 \in Slot
      BY <1>0, <2>1, PlannedSlot
  <2>3. \A k \in Slot \ {planned + 1} : job'[k] = job[k]
      BY <1>0, <2>1
  <2> QED BY <1>0, <2>1, <2>2, <2>3 DEF Course, CourseOf
<1>4. CASE Submit
  <2>1. main = "planning" /\ main' = "waiting" /\ UNCHANGED <<lock, points, wait>>
      BY <1>4 DEF Submit, Planning, plan
  <2>2. lock /\ wait = 1
      BY <2>1 DEF Course
  <2>3. \A k \in Slot : job'[k].phase # "planned" /\ (job'[k].phase # "none" => job[k].phase # "none")
      BY <1>0, <1>4 DEF Submit, Job
  <2>4. \A k \in Slot : ~(k < wait)
      BY <2>2 DEF Slot
  <2> QED BY <2>1, <2>2, <2>3, <2>4 DEF Course, CourseOf
<1>5. CASE MainNext
  <2>1. /\ main = "waiting" /\ job[wait].phase = "returned" /\ wait' = wait + 1
        /\ UNCHANGED <<main, lock, points, job>>
      BY <1>5 DEF MainNext, plan
  <2>2. \A k \in Slot : k < wait + 1 => k < wait \/ k = wait
      BY <1>0 DEF Slot
  <2> QED BY <2>1, <2>2 DEF Course, CourseOf
<1>6. CASE MainDone
  <2>1. main = "waiting" /\ wait > Len(points) /\ main' = "logging" /\ UNCHANGED <<job, points>>
      BY <1>6 DEF MainDone, plan
  <2>2. \A k \in Slot : job[k].phase \in {"none", "returned"}
    <3> TAKE k \in Slot
    <3>1. job[k].phase # "none" => k <= Len(points)
        BY DEF Course, CourseOf
    <3>2. k <= Len(points) => k < wait
        BY <1>0, <2>1 DEF Slot
    <3> QED BY <2>1, <3>1, <3>2 DEF Course, CourseOf
  <2> QED BY <2>1, <2>2 DEF Course, CourseOf
<1>7. CASE \/ MainLogs \/ ShutdownEnds \/ Unwound \/ RaiseInShutdown \/ RaiseInUnwinding \/ RaiseInLogging
  <2>1. /\ main \notin {"planning", "waiting"} /\ UNCHANGED <<job, points>>
        /\ main' = "idle" \/ (main' = "unwinding" /\ main = "shutdown" /\ lock' = lock)
      BY <1>7 DEF MainLogs, ShutdownEnds, Unwound, RaiseInShutdown, RaiseInUnwinding, RaiseInLogging, plan
  <2> QED BY <2>1 DEF Course, CourseOf
<1>8. CASE MainRaised \/ RaiseInWaiting
  <2>1. main = "waiting" /\ main' \in {"unwinding", "shutdown"} /\ job' = Cancelled /\ UNCHANGED <<lock, points>>
      BY <1>8 DEF MainRaised, RaiseInWaiting, plan
  <2>2. \A k \in Slot : job'[k].phase \notin {"planned", "queued"} /\ (job'[k].phase # "none" => job[k].phase # "none")
    <3> TAKE k \in Slot
    <3>1. job[k].phase # "planned"
        BY <2>1 DEF Course, CourseOf
    <3> QED BY <1>0, <2>1, <3>1 DEF Cancelled, Job
  <2> QED BY <2>1, <2>2 DEF Course, CourseOf
<1>9. CASE Interrupt \/ SignalGroups \/ UNCHANGED vars
  <2>1. UNCHANGED <<main, wait, lock, points>>
      BY <1>9 DEF Interrupt, SignalGroups, vars, plan, mainVar
  <2>2. \A k \in Slot : job'[k].phase = job[k].phase
    <3>1. CASE Interrupt \/ UNCHANGED vars
        BY <3>1 DEF Interrupt, vars
    <3>2. CASE SignalGroups
        BY <1>0, <3>2 DEF SignalGroups, Job
    <3> QED BY <1>9, <3>1, <3>2
  <2> QED BY <2>1, <2>2 DEF Course, CourseOf
<1> QED
    BY <1>1, <1>2, <1>3, <1>4, <1>5, <1>6, <1>7, <1>8, <1>9 DEF Next, MainStep, HandlerStep

\* The course holds in every reachable state.
LEMMA CourseCorrect == Spec => []Course
<1>1. IInv /\ Course /\ [Next]_vars => Course'
    BY CourseNext
<1> QED
    BY CourseInit, <1>1, IInvCorrect, PTL DEF Spec

----------------------------------------------------------------------------
(* The lock *)

\* Without a call, nothing works.
Rested == main = "idle" => Live = {}

\* Only an interrupt that breaks the wait of the pool's exit leaves a call with workers at work.
LEMMA RestedNext ==
    ASSUME IInv, Course, Rested, [Next]_vars, [~RaiseInUnwinding]_vars
    PROVE  Rested'
<1>0. TypeOK /\ Shape /\ job \in [Slot -> Job]
    BY DEF IInv, TypeOK
<1> SUFFICES ASSUME main' = "idle" PROVE Live' = {}
    BY DEF Rested
<1>1. CASE main = "idle"
  <2>1. Live = {} /\ \A j \in Slot : job[j].phase # "queued"
      BY <1>1 DEF Rested, Course, CourseOf
  <2>2. \A j \in Slot : ~(Take(j) \/ Work(j))
      BY <1>0, <2>1, JobStepPhases DEF Live
  <2>3. \A k \in Slot : job'[k].phase = job[k].phase
      BY <1>0, <1>1, <2>2
         DEF Next, MainStep, HandlerStep, Call, PlanReuse, PlanNew, PlanRefused, Submit, Planning, MainNext, MainDone,
             MainLogs, MainRaised, ShutdownEnds, Unwound, Interrupt, SignalGroups, RaiseInPlanning, RaiseInWaiting,
             RaiseInShutdown, RaiseInUnwinding, RaiseInLogging, Crash, vars, IInv, Interruption
  <2> QED BY <2>1, <2>3 DEF Live
<1>2. CASE main # "idle"
  <2>1. CASE PlanRefused \/ RaiseInPlanning \/ Crash
    <3>1. \A k \in Slot : job'[k].phase = "none"
        BY <2>1 DEF PlanRefused, RaiseInPlanning, Crash, NoJob
    <3> QED BY <3>1 DEF Live, Busy
  <2>2. CASE MainLogs \/ RaiseInLogging
    <3>1. main = "logging" /\ job' = job
        BY <2>2 DEF MainLogs, RaiseInLogging
    <3> QED BY <3>1 DEF Live, Busy, Course, CourseOf
  <2>3. CASE Unwound
      BY <2>3 DEF Unwound, Live
  <2>4. ~RaiseInUnwinding
      BY <1>2 DEF vars, mainVar
  <2>5. \A j \in Slot : ~(Take(j) \/ Work(j))
      BY <1>2, JobStepFrame DEF mainVar
  <2> QED
      BY <1>2, <2>1, <2>2, <2>3, <2>4, <2>5
         DEF Next, MainStep, HandlerStep, Call, PlanReuse, PlanNew, Submit, MainNext, MainDone, MainRaised,
             ShutdownEnds, Interrupt, SignalGroups, RaiseInWaiting, RaiseInShutdown, vars, mainVar
<1> QED
    BY <1>1, <1>2

\* Whatever raises, crashes and interrupts there are, a worker that may still append does so under the store's lock, as long
\* as no interrupt breaks the wait of the pool's exit: the one way to lose the lock (engine.py, the pool inside
\* "with store.lock()").
THEOREM WritesUnderLockCorrect == Spec /\ [][~RaiseInUnwinding]_vars => []WritesUnderLock
<1>1. Init => Rested
  <2> SUFFICES ASSUME Init PROVE Live = {}
      BY DEF Rested
  <2>1. \A j \in Slot : job[j].phase = "none"
      BY DEF Init, NoJob
  <2> QED BY <2>1 DEF Live, Busy
<1>2. IInv /\ Course /\ Rested /\ [Next]_vars /\ [~RaiseInUnwinding]_vars => Rested'
    BY RestedNext
<1>3. IInv /\ Course /\ Rested => WritesUnderLock
  <2> SUFFICES ASSUME IInv, Course, Rested PROVE WritesUnderLock
      OBVIOUS
  <2>1. main = "logging" => Live = {}
      BY DEF Course, CourseOf, Live, Busy
  <2>2. main \in Main
      BY DEF IInv, TypeOK
  <2> QED BY <2>1, <2>2 DEF Main, Course, Rested, WritesUnderLock
<1> QED
    BY <1>1, <1>2, <1>3, IInvCorrect, CourseCorrect, PTL DEF Spec
----------------------------------------------------------------------------
(* The step log *)

\* The jobs whose row is in the table.
Written == {j \in Slot : job[j].recorded \/ job[j].phase = "appended"}

\* What a job's flags say.
FlagsOf(j) ==
    /\ job[j].recorded => job[j].phase \in {"retaining", "returned", "raised"}
    /\ job[j].phase = "retaining" => job[j].recorded
    /\ job[j].phase = "returned" /\ ~job[j].reused => job[j].recorded
    /\ job[j].recorded => job[j].started
    /\ job[j].phase \in Busy => job[j].started
    /\ job[j].started => Own(j) /\ job[j].id \in dirs

\* The numbers a step row gives up.
GivenUp == UNION {steps[i].interrupted : i \in DOMAIN steps}

\* The rows of the call under way are those of its written jobs, and the others' numbers are free.
Rowed ==
    /\ \A i \in DOMAIN file : file[i].call <= calls
    /\ main # "idle" => Recorded(calls) = IdsOf(Written)
    /\ \A j \in Slot : Own(j) /\ j \notin Written => job[j].id \notin Ids(file)

\* A call's step row comes when nothing of it works any more, and no later job gets a number it gave up.
Logged ==
    /\ \A i \in DOMAIN steps : steps[i].call <= calls
    /\ (\E i \in DOMAIN steps : steps[i].call = calls) => main \in {"unwinding", "idle"} /\ Live = {}
    /\ \A n \in GivenUp : n \in dirs /\ \A j \in Reserved : job[j].id # n

Books == (\A j \in Slot : FlagsOf(j)) /\ Rowed /\ Logged

\* A job's step but the appending one keeps its flags true, its number, and what is written.
LEMMA FlagsNext ==
    ASSUME IInv, NEW j \in Slot, FlagsOf(j), Take(j) \/ Work(j)
    PROVE  /\ FlagsOf(j)' /\ job'[j].id = job[j].id /\ (Own(j)' <=> Own(j))
           /\ job'[j].reused = job[j].reused /\ (job'[j].phase \in Pending => job[j].phase \in Pending)
           /\ ~AppendRow(j) => (j \in Written' <=> j \in Written) /\ file' = file
           /\ dirs \subseteq dirs' /\ steps' = steps /\ calls' = calls
<1>0. TypeOK /\ Shape /\ job \in [Slot -> Job]
    BY DEF IInv, TypeOK
<1> DEFINE Kin == job'[j].id = job[j].id /\ job'[j].reused = job[j].reused
<1>1. job[j].phase \in Busy \cup {"queued"} /\ job'[j].phase \notin {"none", "planned", "queued"}
    BY <1>0, JobStepPhases
<1>2. CASE TakeUp(j)
  <2>1. /\ Kin /\ job'[j].phase = "between" /\ job'[j].started /\ job'[j].recorded = job[j].recorded
        /\ dirs' = dirs \cup {job[j].id} /\ ~job[j].reused /\ job[j].phase = "queued"
      BY <1>0, <1>2 DEF TakeUp, NextInQueue, Job
  <2>2. UNCHANGED <<file, steps, calls>>
      BY <1>2 DEF TakeUp, bounds
  <2> QED BY <2>1, <2>2 DEF FlagsOf, Own, Written, Busy, Pending
<1>3. CASE MarkRecorded(j)
  <2>1. /\ Kin /\ job'[j].phase = "retaining" /\ job[j].phase = "appended" /\ job'[j].recorded
        /\ job'[j].started = job[j].started
      BY <1>0, <1>3 DEF MarkRecorded, Job
  <2>2. UNCHANGED <<file, steps, dirs, calls>>
      BY <1>3 DEF MarkRecorded, store, bounds
  <2> QED BY <2>1, <2>2 DEF FlagsOf, Own, Written, Busy, Pending
<1>4. CASE AppendRow(j)
  <2>1. /\ Kin /\ job'[j].phase = "appended" /\ job[j].phase = "passed"
        /\ job'[j].recorded = job[j].recorded /\ job'[j].started = job[j].started
      BY <1>0, <1>4 DEF AppendRow, To, Job
  <2>2. UNCHANGED <<steps, dirs, calls>>
      BY <1>4 DEF AppendRow, bounds
  <2> QED BY <1>4, <2>1, <2>2 DEF FlagsOf, Own, Busy, Pending
<1>5. CASE ~TakeUp(j) /\ ~MarkRecorded(j) /\ ~AppendRow(j)
  <2>1. UNCHANGED <<file, steps, dirs, calls>>
      BY <1>5
         DEF Take, TakeReused, TakeAfterInterrupt, Work, BetweenInterrupted, Begin, CacheHit, Spawn, PointStageEnds,
             ChildEnds, Retry, CommandRaises, JudgeInterrupted, Judge, Retain, RetainRaises, store, bounds
  <2>2. /\ Kin /\ job'[j].recorded = job[j].recorded /\ job'[j].started = job[j].started
        /\ \/ TakeReused(j) /\ job[j].reused /\ job[j].phase = "queued" /\ job'[j].phase = "returned"
           \/ Retain(j) /\ job[j].phase = "retaining" /\ job'[j].phase = "returned"
           \/ RetainRaises(j) /\ job[j].phase = "retaining" /\ job'[j].phase = "raised"
           \/ /\ job[j].phase \notin {"appended", "retaining"}
              /\ job'[j].phase \in (Busy \ {"appended", "retaining"}) \cup {"interrupted", "raised"}
              /\ job'[j].phase \in Busy => job[j].phase \in Busy
    <3>1. CASE \/ TakeAfterInterrupt(j) \/ BetweenInterrupted(j) \/ Begin(j) \/ Retry(j) \/ CommandRaises(j)
               \/ JudgeInterrupted(j) \/ Judge(j)
        BY <1>0, <3>1
           DEF TakeAfterInterrupt, NextInQueue, BetweenInterrupted, Begin, Retry, CommandRaises, JudgeInterrupted, Judge, To,
               Job, Busy
    <3>2. CASE TakeReused(j) \/ Retain(j) \/ RetainRaises(j)
        BY <1>0, <3>2 DEF TakeReused, NextInQueue, Retain, RetainRaises, To, Job
    <3>3. CASE CacheHit(j) \/ Spawn(j)
        BY <1>0, <3>3 DEF CacheHit, Spawn, Job, Busy
    <3>4. CASE \E outcome \in Outcome : PointStageEnds(j, outcome) \/ ChildEnds(j, outcome)
        BY <1>0, <3>4 DEF PointStageEnds, ChildEnds, Job, Busy
    <3> QED BY <1>5, <3>1, <3>2, <3>3, <3>4 DEF Take, Work
  <2> QED BY <1>1, <1>5, <2>1, <2>2 DEF FlagsOf, Own, Written, Busy, Pending
<1> QED
    BY <1>2, <1>3, <1>4, <1>5

\* While a job of the call works or waits for a thread, the log has no row of the call.
LEMMA NoRowYet ==
    ASSUME IInv, Course, Books, NEW j \in Slot, job[j].phase \in Busy \cup {"queued"}
    PROVE  \A i \in DOMAIN steps : steps[i].call # calls
<1>1. CASE job[j].phase \in Busy
    BY <1>1 DEF Books, Logged, Live
<1>2. CASE job[j].phase = "queued"
    BY <1>2 DEF Books, Logged, Course, CourseOf
<1> QED
    BY <1>1, <1>2

\* What a row adds.
LEMMA RowAdded ==
    ASSUME IInv, NEW j \in Slot, AppendRow(j)
    PROVE  /\ \A c : Recorded(c)' = Recorded(c) \cup (IF c = calls THEN {job[j].id} ELSE {})
           /\ Ids(file)' = Ids(file) \cup {job[j].id}
           /\ \A i \in DOMAIN file' : (i \in DOMAIN file /\ file'[i] = file[i]) \/ file'[i].call = calls
<1> DEFINE n == Len(file) + 1
<1>1. /\ DOMAIN file' = 1..n /\ DOMAIN file = 1..Len(file) /\ Len(file) \in Nat
      /\ file'[n] = RowOf(j) /\ RowOf(j).id = job[j].id /\ \A i \in 1..Len(file) : file'[i] = file[i]
    BY Appended DEF IInv
<1>2. RowOf(j).call = calls
    BY DEF RowOf
<1>3. DOMAIN file' = DOMAIN file \cup {n} /\ n \notin DOMAIN file
    BY <1>1
<1>4. ASSUME NEW c
      PROVE  Recorded(c)' = Recorded(c) \cup (IF c = calls THEN {job[j].id} ELSE {})
  <2>1. CASE c = calls
      BY <1>1, <1>2, <1>3, <2>1 DEF Recorded
  <2>2. CASE c # calls
      BY <1>1, <1>2, <1>3, <2>2 DEF Recorded
  <2> QED BY <2>1, <2>2
<1>5. Ids(file)' = Ids(file) \cup {job[j].id}
    BY <1>1, <1>3 DEF Ids, Table!Ids
<1> QED
    BY <1>1, <1>2, <1>3, <1>4, <1>5

\* A job's step keeps the books.
LEMMA BooksOfJob ==
    ASSUME IInv, Course, Books, NEW j \in Slot, Take(j) \/ Work(j)
    PROVE  Books'
<1>0. TypeOK /\ Shape /\ job \in [Slot -> Job] /\ FlagsOf(j) /\ calls \in Nat
    BY DEF IInv, TypeOK, Books
<1>1. /\ job[j].phase \in Busy \cup {"queued"} /\ main' = main
      /\ \A k \in Slot \ {j} : job'[k] = job[k]
    BY <1>0, JobStepPhases, JobStepFrame, OtherJobs DEF mainVar
<1>2. /\ FlagsOf(j)' /\ job'[j].id = job[j].id /\ (Own(j)' <=> Own(j)) /\ job'[j].reused = job[j].reused
      /\ job'[j].phase \in Pending => job[j].phase \in Pending
      /\ dirs \subseteq dirs' /\ steps' = steps /\ calls' = calls
    BY <1>0, FlagsNext
<1>3. \A k \in Slot : job'[k].id = job[k].id /\ (Own(k)' <=> Own(k))
    BY <1>1, <1>2 DEF Own
<1>4. \A k \in Slot : FlagsOf(k)'
    BY <1>1, <1>2 DEF Books, FlagsOf, Own
<1>5. Logged'
  <2>1. \A i \in DOMAIN steps : steps[i].call # calls
      BY <1>1, NoRowYet
  <2>2. GivenUp' = GivenUp
      BY <1>2 DEF GivenUp
  <2>3. Reserved' \subseteq Reserved
      BY <1>1, <1>2 DEF Reserved
  <2>4. \A n \in GivenUp : n \in dirs' /\ \A k \in Reserved' : job'[k].id # n
      BY <1>2, <1>3, <2>3 DEF Books, Logged, Reserved
  <2> QED BY <1>2, <2>1, <2>2, <2>4 DEF Books, Logged
<1>6. CASE AppendRow(j)
  <2>1. job'[j].phase = "appended" /\ Own(j)
      BY <1>0, <1>6 DEF AppendRow, To, Job, Shape, ShapeOf, Own
  <2>2. Written' = Written \cup {j}
      BY <1>1, <2>1 DEF Written
  <2>3. IdsOf(Written)' = IdsOf(Written) \cup {job[j].id}
      BY <1>3, <2>2 DEF IdsOf, Written
  <2>4. main # "idle" => Recorded(calls)' = IdsOf(Written)'
    <3>1. Recorded(calls)' = Recorded(calls) \cup {job[j].id}
        BY <1>2, <1>6, RowAdded
    <3> QED BY <2>3, <3>1 DEF Books, Rowed
  <2>5. \A k \in Slot : Own(k)' /\ k \notin Written' => job'[k].id \notin Ids(file)'
    <3>1. Ids(file)' = Ids(file) \cup {job[j].id}
        BY <1>6, RowAdded
    <3>2. \A k \in Slot \ {j} : Own(k) => job[k].id # job[j].id
        BY <2>1 DEF IInv, Numbering
    <3> QED BY <1>3, <2>2, <3>1, <3>2 DEF Books, Rowed
  <2>6. \A i \in DOMAIN file' : file'[i].call <= calls
    <3>1. \A i \in DOMAIN file' : (i \in DOMAIN file /\ file'[i] = file[i]) \/ file'[i].call = calls
        BY <1>6, RowAdded
    <3> QED BY <1>0, <3>1 DEF Books, Rowed
  <2>7. Rowed'
      BY <1>1, <1>2, <2>4, <2>5, <2>6 DEF Rowed
  <2> QED BY <1>4, <1>5, <2>7 DEF Books
<1>7. CASE ~AppendRow(j)
  <2>1. Written' = Written /\ file' = file
      BY <1>0, <1>1, <1>7, FlagsNext DEF Written
  <2>2. IdsOf(Written)' = IdsOf(Written) /\ Recorded(calls)' = Recorded(calls) /\ Ids(file)' = Ids(file)
      BY <1>2, <1>3, <2>1 DEF IdsOf, Written, Recorded, Ids, Table!Ids
  <2>3. Rowed'
      BY <1>1, <1>2, <1>3, <2>1, <2>2 DEF Books, Rowed
  <2> QED BY <1>4, <1>5, <2>3 DEF Books
<1> QED
    BY <1>6, <1>7

\* The books when every slot is cleared: a call begins, or its jobs are gone.
LEMMA BooksCleared ==
    ASSUME IInv, Books, (\E request \in Requests : Call(request)) \/ PlanRefused \/ RaiseInPlanning \/ Crash
    PROVE  Books'
<1>0. calls \in Nat
    BY DEF IInv, TypeOK
<1>1. \A k \in Slot : job'[k] = NoJob
    BY DEF Call, PlanRefused, RaiseInPlanning, Crash
<1>2. UNCHANGED <<file, steps, dirs>>
  <2>1. CASE \E request \in Requests : Call(request)
      BY <2>1 DEF Call, store
  <2>2. CASE PlanRefused \/ RaiseInPlanning \/ Crash
      BY <2>2 DEF PlanRefused, RaiseInPlanning, Crash, store
  <2> QED BY <2>1, <2>2
<1>3. (main' = "planning" /\ calls' = calls + 1) \/ (main' = "idle" /\ calls' = calls)
  <2>1. CASE \E request \in Requests : Call(request)
      BY <2>1 DEF Call
  <2>2. CASE PlanRefused \/ RaiseInPlanning \/ Crash
      BY <2>2 DEF PlanRefused, RaiseInPlanning, Crash, bounds
  <2> QED BY <2>1, <2>2
<1>4. NoJob.phase = "none" /\ ~NoJob.recorded /\ ~NoJob.started
    BY DEF NoJob
<1>5. Written' = {} /\ Live' = {} /\ Reserved' = {} /\ IdsOf(Written)' = {}
    BY <1>1, <1>4 DEF Written, Live, Busy, Reserved, Pending, IdsOf
<1>6. \A k \in Slot : FlagsOf(k)' /\ ~Own(k)'
    BY <1>1, <1>4 DEF FlagsOf, Own, Busy
<1>7. Rowed'
  <2>1. \A i \in DOMAIN file : file[i].call <= calls /\ file[i].call \in Nat
    <3>1. file \in Seq(Row)
        BY DEF IInv, TypeOK
    <3>2. \A i \in DOMAIN file : file[i] \in Row
        BY <3>1, ElementOfSeq, LenProperties
    <3> QED BY <3>2 DEF Books, Rowed, Row
  <2>2. main' # "idle" => Recorded(calls)' = {}
      BY <1>0, <1>2, <1>3, <2>1 DEF Recorded
  <2> QED BY <1>0, <1>2, <1>3, <1>5, <1>6, <2>1, <2>2 DEF Rowed
<1>8. Logged'
  <2>1. \A i \in DOMAIN steps : steps[i].call <= calls /\ steps[i].call \in Nat
    <3>1. steps \in Seq(StepRow)
        BY DEF IInv, TypeOK
    <3>2. \A i \in DOMAIN steps : steps[i] \in StepRow
        BY <3>1, ElementOfSeq, LenProperties
    <3> QED BY <3>2 DEF Books, Logged, StepRow
  <2>2. GivenUp' = GivenUp
      BY <1>2 DEF GivenUp
  <2> QED BY <1>0, <1>2, <1>3, <1>5, <2>1, <2>2 DEF Books, Logged
<1> QED
    BY <1>6, <1>7, <1>8 DEF Books

\* Planning a point: none of the call is written yet, and a new number is past every number given up.
LEMMA BooksPlanned ==
    ASSUME IInv, Course, Books, PlanReuse \/ PlanNew
    PROVE  Books'
<1>0. TypeOK /\ job \in [Slot -> Job]
    BY DEF IInv, TypeOK
<1>1. PICK p \in Slot :
          /\ main = "planning" /\ main' = main /\ UNCHANGED <<file, steps, dirs, calls>>
          /\ \A k \in Slot \ {p} : job'[k] = job[k]
          /\ job'[p].phase = "planned" /\ ~job'[p].recorded /\ ~job'[p].started
          /\ job'[p].reused \/ job'[p].id = nextIndex
  <2>1. CASE PlanReuse
    <3>1. main = "planning" /\ planned < Len(points) /\ UNCHANGED <<file, steps, dirs, calls, main>>
        BY <2>1 DEF PlanReuse, Planning, store, mainVar, bounds
    <3>2. planned + 1 \in Slot
        BY <1>0, <3>1, PlannedSlot
    <3>3. \A k \in Slot \ {planned + 1} : job'[k] = job[k]
        BY <1>0, <2>1, <3>2 DEF PlanReuse
    <3>4. /\ job'[planned + 1].phase = "planned" /\ job'[planned + 1].reused
          /\ ~job'[planned + 1].recorded /\ ~job'[planned + 1].started
        BY <1>0, <2>1, <3>2 DEF PlanReuse, NoJob
    <3> QED BY <3>1, <3>2, <3>3, <3>4
  <2>2. CASE PlanNew
    <3>1. main = "planning" /\ planned < Len(points) /\ UNCHANGED <<file, steps, dirs, calls, main>>
        BY <2>2 DEF PlanNew, Planning, store, mainVar, bounds
    <3>2. planned + 1 \in Slot
        BY <1>0, <3>1, PlannedSlot
    <3>3. \A k \in Slot \ {planned + 1} : job'[k] = job[k]
        BY <1>0, <2>2, <3>2 DEF PlanNew
    <3>4. /\ job'[planned + 1].phase = "planned" /\ job'[planned + 1].id = nextIndex
          /\ ~job'[planned + 1].recorded /\ ~job'[planned + 1].started
        BY <1>0, <2>2, <3>2 DEF PlanNew, NoJob
    <3> QED BY <3>1, <3>2, <3>3, <3>4
  <2> QED BY <2>1, <2>2
<1>2. Written = {} /\ Written' = {}
  <2>1. \A k \in Slot : job[k].phase \in {"none", "planned"} /\ ~job[k].recorded
      BY <1>1 DEF IInv, Shape, ShapeOf, Books, FlagsOf
  <2> QED BY <1>1, <2>1 DEF Written
<1>3. \A k \in Slot : FlagsOf(k)'
    BY <1>1 DEF Books, FlagsOf, Own, Busy
<1>4. \A n \in Ids(file) \cup GivenUp : n < nextIndex /\ n \in Nat
  <2>1. \A n \in Ids(file) \cup dirs : n < nextIndex
      BY <1>1 DEF IInv, Numbering
  <2>2. \A n \in Ids(file) \cup dirs : n \in Nat
      BY IdsFinite DEF IInv, TypeOK
  <2> QED BY <2>1, <2>2 DEF Books, Logged
<1>5. nextIndex \in Nat
    BY <1>0 DEF TypeOK
<1>6. Rowed'
  <2>1. IdsOf(Written)' = {} /\ IdsOf(Written) = {} /\ Recorded(calls)' = Recorded(calls) /\ Ids(file)' = Ids(file)
      BY <1>1, <1>2 DEF IdsOf, Recorded, Ids, Table!Ids
  <2>2. \A k \in Slot : Own(k)' => job'[k].id \notin Ids(file)
    <3>1. \A k \in Slot \ {p} : Own(k)' => Own(k) /\ job'[k].id = job[k].id
        BY <1>1 DEF Own
    <3>2. Own(p)' => job'[p].id \notin Ids(file)
        BY <1>1, <1>4, <1>5 DEF Own
    <3> QED BY <1>2, <3>1, <3>2 DEF Books, Rowed
  <2> QED BY <1>1, <2>1, <2>2 DEF Books, Rowed
<1>7. Logged'
  <2>1. GivenUp' = GivenUp
      BY <1>1 DEF GivenUp
  <2>2. \A n \in GivenUp : \A k \in Reserved' : job'[k].id # n
    <3>1. \A k \in Reserved' : k # p => k \in Reserved /\ job'[k].id = job[k].id
        BY <1>1 DEF Reserved
    <3>2. p \in Reserved' => job'[p].id = nextIndex
        BY <1>1 DEF Reserved
    <3> QED BY <1>4, <1>5, <3>1, <3>2 DEF Books, Logged
  <2> QED BY <1>1, <2>1, <2>2 DEF Books, Logged
<1> QED
    BY <1>3, <1>6, <1>7 DEF Books

\* A step that only gives jobs other places: they write nothing, and none comes back to the pending ones.
Relabels(k) ==
    /\ job'[k].id = job[k].id /\ job'[k].reused = job[k].reused
    /\ job'[k].recorded = job[k].recorded /\ job'[k].started = job[k].started
    /\ \/ job'[k].phase = job[k].phase
       \/ job[k].phase = "planned" /\ job'[k].phase = "queued"
       \/ job[k].phase = "queued" /\ job'[k].phase = "cancelled"

LEMMA BooksRelabelled ==
    ASSUME IInv, Books, UNCHANGED <<file, steps, dirs, calls>>, \A k \in Slot : Relabels(k),
           main' # "idle" => main # "idle",
           main \in {"unwinding", "idle"} => main' \in {"unwinding", "idle"}
    PROVE  Books'
<1>1. \A k \in Slot : FlagsOf(k)' /\ (Own(k)' <=> Own(k)) /\ job'[k].id = job[k].id
    BY DEF Relabels, Books, FlagsOf, Own, Busy
<1>2. Written' = Written /\ Live' = Live /\ Reserved' \subseteq Reserved
    BY DEF Relabels, Written, Live, Busy, Reserved, Pending
<1>3. IdsOf(Written)' = IdsOf(Written) /\ Recorded(calls)' = Recorded(calls) /\ Ids(file)' = Ids(file)
    BY <1>1, <1>2 DEF IdsOf, Written, Recorded, Ids, Table!Ids
<1>4. Rowed'
    BY <1>1, <1>2, <1>3 DEF Books, Rowed
<1>5. Logged'
  <2>1. GivenUp' = GivenUp
      BY DEF GivenUp
  <2>2. \A n \in GivenUp : \A k \in Reserved' : job'[k].id # n
      BY <1>1, <1>2 DEF Books, Logged, Reserved
  <2> QED BY <1>2, <2>1, <2>2 DEF Books, Logged
<1> QED
    BY <1>1, <1>4, <1>5 DEF Books

\* The jobs of a call that have a number of their own.
LEMMA NewOwn ==
    ASSUME IInv, Course
    PROVE  New = {j \in Slot : Own(j)}
<1>1. Len(points) \in Nat /\ Len(points) <= MaxBatch /\ MaxBatch \in Nat
    BY LenProperties, BatchAssumption DEF IInv, TypeOK
<1>2. \A j \in Slot : Own(j) => j <= Len(points) /\ j >= 1 /\ j \in Nat
    BY DEF Course, CourseOf, Own, Slot
<1>3. 1..Len(points) \subseteq Slot
    BY <1>1 DEF Slot
<1> QED
    BY <1>1, <1>2, <1>3 DEF New, Own

\* They are as many as their numbers.
LEMMA OwnCounted ==
    ASSUME IInv, NEW S \in SUBSET {j \in Slot : Own(j)}
    PROVE  Cardinality(IdsOf(S)) = Cardinality(S)
<1> DEFINE f == [j \in S |-> job[j].id]
<1>1. IsFiniteSet(S)
    BY SlotSets
<1>2. \A j, k \in S : job[j].id = job[k].id => j = k
    BY DEF IInv, Numbering
<1>3. f \in Bijection(S, IdsOf(S))
    BY <1>2 DEF Bijection, Injection, Surjection, IsInjective, IdsOf
<1>4. ExistsBijection(S, IdsOf(S))
    BY <1>3 DEF ExistsBijection
<1> QED
    BY <1>1, <1>4, FS_Bijection

\* The thread that writes a step row: every job has ended, and the table holds the rows of those that recorded one.
LEMMA Settled ==
    ASSUME IInv, Course, Books, main \in {"logging", "shutdown"}, Live = {}
    PROVE  /\ Reserved = {}
           /\ Written = {j \in Slot : job[j].recorded} /\ Written \subseteq New
           /\ Recorded(calls) = IdsOf(Written) /\ Cardinality(Recorded(calls)) = Cardinality(Written)
<1>1. \A j \in Slot : job[j].phase \notin Busy \cup {"planned", "queued"}
    BY DEF Live, Course, CourseOf
<1>2. Reserved = {} /\ Written = {j \in Slot : job[j].recorded}
    BY <1>1 DEF Reserved, Pending, Busy, Written
<1>3. Written \subseteq {j \in Slot : Own(j)}
    BY <1>2 DEF Books, FlagsOf
<1>4. Recorded(calls) = IdsOf(Written)
    BY DEF Books, Rowed
<1> QED
    BY <1>2, <1>3, <1>4, NewOwn, OwnCounted

\* A step row written when every job has ended keeps the books.
LEMMA BooksLogged ==
    ASSUME IInv, Course, Books, main \in {"logging", "shutdown"}, Live = {},
           UNCHANGED <<file, dirs, job, calls>>, main' \in {"unwinding", "idle"},
           NEW row, row.call = calls, steps' = Append(steps, row),
           row.interrupted \subseteq IdsOf({j \in Slot : job[j].started})
    PROVE  Books'
<1> DEFINE n == Len(steps) + 1
<1>0. calls \in Nat /\ steps \in Seq(StepRow)
    BY DEF IInv, TypeOK
<1>1. /\ DOMAIN steps = 1..Len(steps) /\ Len(steps) \in Nat /\ DOMAIN steps' = 1..n
      /\ steps'[n] = row /\ \A i \in 1..Len(steps) : steps'[i] = steps[i]
    BY <1>0
<1>2. DOMAIN steps' = DOMAIN steps \cup {n}
    BY <1>1
<1>3. GivenUp' \subseteq GivenUp \cup row.interrupted
    BY <1>1, <1>2 DEF GivenUp
<1>4. row.interrupted \subseteq dirs
    BY DEF IdsOf, Books, FlagsOf
<1>5. Reserved' = {} /\ Live' = {}
    BY Settled DEF Reserved, Live
<1>6. Logged'
  <2>1. \A i \in DOMAIN steps' : steps'[i].call <= calls
      BY <1>0, <1>1, <1>2 DEF Books, Logged
  <2> QED BY <1>3, <1>4, <1>5, <2>1 DEF Books, Logged
<1>7. Written' = Written /\ \A j \in Slot : FlagsOf(j)' /\ (Own(j)' <=> Own(j))
    BY DEF Written, Books, FlagsOf, Own, Busy
<1>8. Rowed'
  <2>1. IdsOf(Written)' = IdsOf(Written) /\ Recorded(calls)' = Recorded(calls) /\ Ids(file)' = Ids(file)
      BY <1>7 DEF IdsOf, Recorded, Ids, Table!Ids
  <2> QED BY <1>7, <2>1 DEF Books, Rowed
<1> QED
    BY <1>6, <1>7, <1>8 DEF Books

\* The two rows a batch may write, and what they say.
LEMMA RowsSay ==
    ASSUME IInv, Course, Books, MainLogs \/ ShutdownEnds
    PROVE  /\ main \in {"logging", "shutdown"} /\ Live = {}
           /\ UNCHANGED <<file, dirs, job, calls>> /\ main' \in {"unwinding", "idle"}
           /\ \E row : /\ row.call = calls /\ steps' = Append(steps, row)
                       /\ row.interrupted \subseteq IdsOf({j \in Slot : job[j].started})
                       /\ row.new = Cardinality(Recorded(calls))
                       /\ row.status = "interrupted" =>
                             /\ row.recorded = Recorded(calls)
                             /\ row.interrupted \cap Ids(file) = {}
                             /\ row.notStarted \cap Recorded(calls) = {}
<1>1. CASE MainLogs
  <2>1. /\ main = "logging" /\ main' = "idle" /\ steps' = Append(steps, OkRow)
        /\ UNCHANGED <<file, dirs, job, calls>>
      BY <1>1 DEF MainLogs, bounds
  <2>2. Live = {} /\ \A j \in Slot : job[j].phase \in {"none", "returned"}
      BY <2>1 DEF Course, CourseOf, Live, Busy
  <2>3. New = Written
    <3>1. \A j \in Slot : Own(j) => job[j].recorded
        BY <2>2 DEF Own, Books, FlagsOf
    <3> QED BY <2>1, <2>2, <3>1, NewOwn, Settled
  <2>4. OkRow.new = Cardinality(Recorded(calls))
      BY <2>1, <2>2, <2>3, Settled DEF OkRow
  <2>5. OkRow.call = calls /\ OkRow.status = "ok" /\ OkRow.interrupted = {}
      BY DEF OkRow
  <2> QED BY <2>1, <2>2, <2>4, <2>5
<1>2. CASE ShutdownEnds
  <2>1. /\ main = "shutdown" /\ main' = "unwinding" /\ steps' = Append(steps, InterruptedRow) /\ Live = {}
        /\ UNCHANGED <<file, dirs, job, calls>>
      BY <1>2 DEF ShutdownEnds, bounds
  <2>2. /\ Written = {j \in New : job[j].recorded} /\ New = {j \in Slot : Own(j)}
        /\ Recorded(calls) = IdsOf(Written) /\ Cardinality(Recorded(calls)) = Cardinality(Written)
      BY <2>1, Settled, NewOwn
  <2>3. /\ InterruptedRow.call = calls /\ InterruptedRow.new = Cardinality(Recorded(calls))
        /\ InterruptedRow.recorded = Recorded(calls)
        /\ InterruptedRow.interrupted = IdsOf({j \in New : job[j].started /\ ~job[j].recorded})
        /\ InterruptedRow.notStarted = IdsOf({j \in New : ~job[j].started})
      BY <2>2 DEF InterruptedRow
  <2>4. InterruptedRow.interrupted \subseteq IdsOf({j \in Slot : job[j].started})
      BY <2>2, <2>3 DEF IdsOf
  <2>5. InterruptedRow.interrupted \cap Ids(file) = {}
    <3>1. \A j \in New : ~job[j].recorded => job[j].id \notin Ids(file)
        BY <2>2 DEF Books, Rowed
    <3> QED BY <2>3, <3>1 DEF IdsOf
  <2>6. InterruptedRow.notStarted \cap Recorded(calls) = {}
    <3>1. \A j \in New : ~job[j].started => \A k \in Written : job[j].id # job[k].id
      <4>1. \A k \in Written : job[k].started
          BY <2>2 DEF Books, FlagsOf
      <4> QED BY <2>2, <4>1 DEF IInv, Numbering
    <3> QED BY <2>2, <2>3, <3>1 DEF IdsOf
  <2> QED BY <2>1, <2>3, <2>4, <2>5, <2>6
<1> QED
    BY <1>1, <1>2

\* The calling thread's and the handler's other steps only give jobs other places.
LEMMA OtherStepsRelabel ==
    ASSUME IInv, Course,
           \/ Submit \/ MainNext \/ MainDone \/ MainRaised \/ Unwound \/ Interrupt \/ SignalGroups
           \/ RaiseInWaiting \/ RaiseInUnwinding \/ RaiseInLogging \/ UNCHANGED vars
    PROVE  /\ UNCHANGED <<file, steps, dirs, calls>> /\ \A k \in Slot : Relabels(k)
           /\ main' # "idle" => main # "idle"
           /\ main \in {"unwinding", "idle"} => main' \in {"unwinding", "idle"}
<1>0. job \in [Slot -> Job]
    BY DEF IInv, TypeOK
<1>1. CASE MainNext \/ MainDone \/ Unwound \/ Interrupt \/ RaiseInUnwinding \/ RaiseInLogging \/ UNCHANGED vars
    BY <1>1
       DEF MainNext, MainDone, Unwound, Interrupt, RaiseInUnwinding, RaiseInLogging, vars, store, mainVar, bounds,
           Relabels
<1>2. CASE Submit
  <2>1. \A k \in Slot : Relabels(k)
      BY <1>0, <1>2 DEF Submit, Relabels, Job
  <2> QED BY <1>2, <2>1 DEF Submit, Planning, store, bounds
<1>3. CASE MainRaised \/ RaiseInWaiting
  <2>1. /\ job' = Cancelled /\ UNCHANGED <<file, steps, dirs, calls>>
        /\ main = "waiting" /\ main' \in {"unwinding", "shutdown"}
      BY <1>3 DEF MainRaised, RaiseInWaiting, store, bounds
  <2>2. \A k \in Slot : Relabels(k)
      BY <1>0, <2>1 DEF Cancelled, Relabels, Job
  <2> QED BY <2>1, <2>2
<1>4. CASE SignalGroups
  <2>1. \A k \in Slot : Relabels(k)
      BY <1>0, <1>4 DEF SignalGroups, Relabels, Job
  <2> QED BY <1>4, <2>1 DEF SignalGroups, store, mainVar, bounds
<1> QED
    BY <1>1, <1>2, <1>3, <1>4

\* The books hold at the start.
LEMMA BooksInit == Init => Books
<1> SUFFICES ASSUME Init PROVE Books
    OBVIOUS
<1>1. \A j \in Slot : job[j].phase = "none" /\ ~job[j].recorded /\ ~job[j].started
    BY DEF Init, NoJob
<1>2. DOMAIN file = {} /\ DOMAIN steps = {} /\ main = "idle"
    BY DEF Init
<1>3. Written = {} /\ GivenUp = {} /\ Ids(file) = {}
    BY <1>1, <1>2 DEF Written, GivenUp, Ids, Table!Ids
<1> QED
    BY <1>1, <1>2, <1>3 DEF Books, FlagsOf, Own, Rowed, Logged, Busy

\* Every step keeps them, unless it breaks the shutdown's wait.
LEMMA BooksNext ==
    ASSUME IInv, Course, Books, [Next]_vars, [~RaiseInShutdown]_vars
    PROVE  Books'
<1>1. CASE \E j \in Slot : Take(j) \/ Work(j)
    BY <1>1, BooksOfJob
<1>2. CASE (\E request \in Requests : Call(request)) \/ PlanRefused \/ RaiseInPlanning \/ Crash
    BY <1>2, BooksCleared
<1>3. CASE PlanReuse \/ PlanNew
    BY <1>3, BooksPlanned
<1>4. CASE MainLogs \/ ShutdownEnds
    BY <1>4, RowsSay, BooksLogged
<1>5. CASE \/ Submit \/ MainNext \/ MainDone \/ MainRaised \/ Unwound \/ Interrupt \/ SignalGroups
           \/ RaiseInWaiting \/ RaiseInUnwinding \/ RaiseInLogging \/ UNCHANGED vars
    BY <1>5, OtherStepsRelabel, BooksRelabelled
<1>6. RaiseInShutdown => FALSE
  <2> SUFFICES ASSUME RaiseInShutdown PROVE FALSE
      OBVIOUS
  <2>1. main = "shutdown" /\ main' = "unwinding"
      BY DEF RaiseInShutdown
  <2> QED BY <2>1 DEF vars, mainVar
<1> QED
    BY <1>1, <1>2, <1>3, <1>4, <1>5, <1>6 DEF Next, MainStep, HandlerStep

\* A step row once written stays true of the table.
LEMMA StepRowsNext ==
    ASSUME IInv, Course, Books, StepRowsTrue, [Next]_vars, [~RaiseInShutdown]_vars
    PROVE  StepRowsTrue'
<1> DEFINE TrueRow(row) == /\ row.new = Cardinality(Recorded(row.call))
                           /\ row.status = "interrupted" =>
                                 /\ row.recorded = Recorded(row.call)
                                 /\ row.interrupted \cap Ids(file) = {}
                                 /\ row.notStarted \cap Recorded(row.call) = {}
<1>1. ASSUME NEW j \in Slot, AppendRow(j)
      PROVE  StepRowsTrue'
  <2>1. steps' = steps /\ j \in Reserved /\ job[j].phase = "passed"
      BY <1>1, Appended DEF AppendRow, IInv
  <2>2. \A i \in DOMAIN steps : steps[i].call # calls
      BY <2>1, NoRowYet DEF Busy
  <2>3. \A c : c # calls => Recorded(c)' = Recorded(c)
    <3>1. \A c : Recorded(c)' = Recorded(c) \cup (IF c = calls THEN {job[j].id} ELSE {})
        BY <1>1, RowAdded
    <3> QED BY <3>1
  <2>4. \A i \in DOMAIN steps : job[j].id \notin steps[i].interrupted
      BY <2>1 DEF Books, Logged, GivenUp
  <2>5. Ids(file)' = Ids(file) \cup {job[j].id}
      BY <1>1, RowAdded
  <2>6. ASSUME NEW i \in DOMAIN steps
        PROVE  /\ Recorded(steps[i].call)' = Recorded(steps[i].call)
               /\ steps[i].interrupted \cap Ids(file)' = steps[i].interrupted \cap Ids(file)
    <3>1. \A c : c = steps[i].call => Recorded(c)' = Recorded(c)
        BY <2>2, <2>3
    <3>2. Recorded(steps[i].call)' = Recorded(steps[i].call)
        BY <2>1, <3>1 DEF Recorded
    <3> QED BY <2>4, <2>5, <3>2
  <2> QED BY <2>1, <2>6 DEF StepRowsTrue
<1>2. CASE MainLogs \/ ShutdownEnds
  <2>1. PICK row : /\ row.call = calls /\ steps' = Append(steps, row) /\ TrueRow(row)
      BY <1>2, RowsSay
  <2>2. file' = file
      BY <1>2, RowsSay
  <2>3. Ids(file)' = Ids(file) /\ \A c : Recorded(c)' = Recorded(c)
      BY <2>2 DEF Ids, Table!Ids, Recorded
  <2>4. steps \in Seq(StepRow)
      BY DEF IInv, TypeOK
  <2>5. \A i \in DOMAIN steps' : steps'[i] = row \/ (i \in DOMAIN steps /\ steps'[i] = steps[i])
      BY <2>1, <2>4
  <2>6. \A i \in DOMAIN steps' : TrueRow(steps'[i])
      BY <2>1, <2>5 DEF StepRowsTrue
  <2> QED BY <2>3, <2>6 DEF StepRowsTrue
<1>3. CASE UNCHANGED <<file, steps>>
    BY <1>3 DEF StepRowsTrue, Recorded, Ids, Table!Ids
<1>4. ASSUME NEW j \in Slot, ~AppendRow(j), Take(j) \/ Work(j)
      PROVE  UNCHANGED <<file, steps>>
    BY <1>4, FlagsNext DEF Books
<1>5. CASE (\E request \in Requests : Call(request)) \/ PlanRefused \/ RaiseInPlanning \/ Crash \/ PlanReuse \/ PlanNew
  <2>1. CASE \E request \in Requests : Call(request)
      BY <1>3, <2>1 DEF Call, store
  <2>2. CASE PlanRefused \/ RaiseInPlanning \/ Crash
      BY <1>3, <2>2 DEF PlanRefused, RaiseInPlanning, Crash, store
  <2>3. CASE PlanReuse \/ PlanNew
      BY <1>3, <2>3 DEF PlanReuse, PlanNew, store
  <2> QED BY <1>5, <2>1, <2>2, <2>3
<1>6. CASE \/ Submit \/ MainNext \/ MainDone \/ MainRaised \/ Unwound \/ Interrupt \/ SignalGroups
           \/ RaiseInWaiting \/ RaiseInUnwinding \/ RaiseInLogging \/ UNCHANGED vars
    BY <1>3, <1>6, OtherStepsRelabel
<1>7. RaiseInShutdown => FALSE
  <2> SUFFICES ASSUME RaiseInShutdown PROVE FALSE
      OBVIOUS
  <2>1. main = "shutdown" /\ main' = "unwinding"
      BY DEF RaiseInShutdown
  <2> QED BY <2>1 DEF vars, mainVar
<1> QED
    BY <1>1, <1>2, <1>3, <1>4, <1>5, <1>6, <1>7 DEF Next, MainStep, HandlerStep

\* However many calls, points, interrupts, errors and crashes there are, a row of the step log is true and stays true of the
\* table, as long as no interrupt breaks the wait of an interrupted batch's shutdown: the one way to a wrong row (engine.py,
\* _log_interrupted in the finally of pool.shutdown).
THEOREM StepRowsTrueCorrect == Spec /\ [][~RaiseInShutdown]_vars => []StepRowsTrue
<1>1. Init => StepRowsTrue
    BY DEF Init, StepRowsTrue
<1>2. IInv /\ Course /\ Books /\ [Next]_vars /\ [~RaiseInShutdown]_vars => Books'
    BY BooksNext
<1>3. IInv /\ Course /\ Books /\ StepRowsTrue /\ [Next]_vars /\ [~RaiseInShutdown]_vars => StepRowsTrue'
    BY StepRowsNext
<1> QED
    BY <1>1, <1>2, <1>3, BooksInit, IInvCorrect, CourseCorrect, PTL DEF Spec
=============================================================================
