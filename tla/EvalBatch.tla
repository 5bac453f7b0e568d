------------------------------ MODULE EvalBatch ------------------------------
(***************************************************************************)
(* One process evaluating batches of points (eval/engine.py, run), with    *)
(* everything that runs at the same time in it: the calling thread, the    *)
(* pool's worker threads, the commands they start and the signal handler   *)
(* of executor/process_group.py, against the project's fact table          *)
(* (store.py) and step log.                                                *)
(*                                                                         *)
(* A call takes the store's lock, plans its points one by one (reuse, the  *)
(* budget, a fresh observation number), hands the jobs to the pool and     *)
(* waits for them in order.  A job runs the point-level stage (at most one *)
(* is cached) and then its children, each abstracted to one stage with an  *)
(* outcome: a command started again, up to Attempts times, while it fails. *)
(* The job is judged, appended to the table and marked recorded.  Ctrl-C   *)
(* and a crash may come at any moment; after either, the next call is the  *)
(* user running the same thing again (a program that outlives its Ctrl-C   *)
(* and calls again beside its old threads is left out: cli.py exits).      *)
(*                                                                         *)
(* Left out: what a child computes (its outcome is "ok", "violates" a      *)
(* constraint, or "failed"), the order of the children (PointSchedule),    *)
(* the cache entry's single flight (StageCache), other processes           *)
(* (ProjectStore).                                                         *)
(***************************************************************************)
EXTENDS Integers, Sequences, FiniteSets, FiniteSetsExt

CONSTANTS
    Point,          \* the points a caller may ask for
    Requests,       \* the batches a caller may ask for: sequences of points
    MaxBatch,       \* bound: the longest of them
    NChildren,      \* children (simulations) of one point
    PointRuns,      \* simulations its point-level stage costs when it runs: 0 (there is none) or 1
    Attempts,       \* how often a child's stage may start its command: Spectre's 2, OCEAN_ATTEMPTS
    Workers,        \* the pool's threads (workers_for)
    MaxSimulations, \* spec.budget.max_simulations
    StopAtFirst,    \* whether a schedule stops a point at the first child that fails it
    MayRaise,       \* whether the executor may raise an error no stage handles (TransportError)
    MaxInterrupts,  \* bound: Ctrl-C's
    MaxCrashes,     \* bound: deaths of the process
    MaxCalls        \* bound: calls of sim.evaluate

ASSUME BatchAssumption ==
    /\ MaxBatch \in Nat \ {0} /\ NChildren \in Nat \ {0} /\ Workers \in Nat \ {0}
    /\ PointRuns \in {0, 1} /\ Attempts \in Nat \ {0}
    /\ MaxSimulations \in Nat /\ Point # {}
    /\ StopAtFirst \in BOOLEAN /\ MayRaise \in BOOLEAN
    /\ MaxInterrupts \in Nat /\ MaxCrashes \in Nat /\ MaxCalls \in Nat
    /\ \A r \in Requests : r \in Seq(Point) /\ Len(r) \in 1..MaxBatch

VARIABLES
    file,       \* observations.jsonl, in the order the rows were appended
    steps,      \* steps.jsonl
    dirs,       \* the numbers n of the directories sims/obs_n
    lock,       \* whether this process holds .icopt/lock
    points,     \* the points of the call
    job,        \* the call's jobs, one per point
    planned,    \* how many of the points are planned
    used,       \* the planning loop's simulations used so far
    nextIndex,  \* the planning loop's next observation number
    main,       \* where the calling thread is
    wait,       \* the job whose result it waits for
    stop,       \* the batch's stop event
    interrupts, \* process_group's count of signals
    seen,       \* the count the batch started with
    handler,    \* where the signal handler is
    late,       \* history: the stages of which each job started a command after the batch was interrupted
    calls,      \* the calls so far (history: rows carry it)
    crashes

store   == <<file, steps, dirs>>
plan    == <<points, planned, used, nextIndex>>
signal  == <<interrupts, handler>>
mainVar == <<main, wait, stop, seen, lock>>
bounds  == <<calls, crashes>>
vars    == <<store, plan, job, mainVar, signal, late, bounds>>

Slot == 1..MaxBatch

\* "killed" is a failure whose command got the interrupt: the code sees "failed", the model keeps them apart.
Outcome == {"ok", "violates", "failed", "killed"}
Failure == {"failed", "killed"}

Phase == {"none", "planned", "queued", "between", "starting", "running", "judging", "passed", "appended",
          "retaining", "returned", "interrupted", "raised", "cancelled"}

Job == [id : Nat, point : Point, reused : BOOLEAN, started : BOOLEAN, recorded : BOOLEAN, phase : Phase,
        results : Seq(Outcome), cache : {"none", "hit", "miss"}, signalled : BOOLEAN, tries : Nat]

Row == [id : Nat, point : Point, ok : BOOLEAN, results : Seq(Outcome), simulations : Nat, call : Nat]

StepRow == [status : {"ok", "interrupted"}, call : Nat, new : Nat,
            recorded : SUBSET Nat, interrupted : SUBSET Nat, notStarted : SUBSET Nat]

NoJob == [id |-> 0, point |-> CHOOSE p \in Point : TRUE, reused |-> FALSE, started |-> FALSE, recorded |-> FALSE,
          phase |-> "none", results |-> <<>>, cache |-> "none", signalled |-> FALSE, tries |-> 0]

Main == {"idle", "planning", "waiting", "shutdown", "unwinding", "logging"}

----------------------------------------------------------------------------
(* The store *)

Table == INSTANCE FactTable WITH table <- file, Budget <- MaxSimulations

Ids(rows) == Table!Ids(rows)

\* The simulations the rows count, added up.
SimulationsOf(rows) == Table!SimulationsOf(rows)

\* Mutant: counting the rows instead of reading their numbers: what the docstring of next_obs_index warns of.
CountedIndex == Len(file) + 1

\* Mutant: the largest number itself.
LastIndex == Max({0} \cup Ids(file) \cup dirs)

NextIndex == 1 + Max({0} \cup Ids(file) \cup dirs)

----------------------------------------------------------------------------
(* Jobs *)

PerPoint == NChildren + PointRuns

\* The jobs a worker thread is busy with.
Busy == {"between", "starting", "running", "judging", "passed", "appended", "retaining"}
Live == {j \in Slot : job[j].phase \in Busy}

\* The jobs that may still append a row, each counted at its full cost.
Pending == {"planned", "queued", "between", "starting", "running", "judging", "passed"}
Reserved == {j \in Slot : ~job[j].reused /\ job[j].phase \in Pending}

New == {j \in 1..Len(points) : job[j].phase # "none" /\ ~job[j].reused}

Stopping == stop \/ interrupts # seen

\* The point-level stage is still to come.
AtPointStage(j) == PointRuns = 1 /\ job[j].cache = "none"

\* The stage a job is at: 0 the point-level one, k its k-th child; one more stands for the removal of its scratch files.
StageOf(j) == IF AtPointStage(j) THEN 0 ELSE Len(job[j].results) + 1
Removal == NChildren + 1

\* A job starts a command of a stage.
Starts(j, stage) == late' = IF Stopping THEN [late EXCEPT ![j] = @ \cup {stage}] ELSE late

\* Nothing more runs for a point with these results.
Complete(results) ==
    \/ Len(results) = NChildren
    \/ StopAtFirst /\ results # <<>> /\ results[Len(results)] # "ok"

HasFailure(results) == \E i \in DOMAIN results : results[i] \in Failure

AllOk(results) == Len(results) = NChildren /\ \A i \in DOMAIN results : results[i] = "ok"

RowOf(j) ==
    [id |-> job[j].id, point |-> job[j].point, ok |-> AllOk(job[j].results), results |-> job[j].results,
     simulations |-> Len(job[j].results) + (IF job[j].cache = "miss" THEN 1 ELSE 0), call |-> calls]

----------------------------------------------------------------------------
Init ==
    /\ file = <<>> /\ steps = <<>> /\ dirs = {}
    /\ points = <<>> /\ planned = 0 /\ used = 0 /\ nextIndex = 1
    /\ job = [j \in Slot |-> NoJob]
    /\ main = "idle" /\ wait = 1 /\ stop = FALSE /\ seen = 0 /\ lock = FALSE
    /\ interrupts = 0 /\ handler = "none"
    /\ late = [j \in Slot |-> {}] /\ calls = 0 /\ crashes = 0

(* Planning, in the calling thread *)

Call(request) ==
    /\ main = "idle" /\ Live = {}
    /\ calls < MaxCalls
    /\ lock' = TRUE /\ main' = "planning"
    /\ points' = request /\ planned' = 0
    /\ used' = SimulationsOf(file) /\ nextIndex' = NextIndex
    /\ job' = [j \in Slot |-> NoJob]
    /\ stop' = FALSE /\ wait' = 1 /\ late' = [j \in Slot |-> {}]
    /\ calls' = calls + 1
    /\ UNCHANGED <<store, seen, signal, crashes>>

Planning == main = "planning" /\ handler = "none"

Reusable(p) == {i \in DOMAIN file : file[i].ok /\ file[i].point = p}

PlanReuse ==
    /\ Planning /\ planned < Len(points)
    /\ LET j == planned + 1
           rows == Reusable(points[j])
       IN  /\ rows # {}
           /\ \E i \in rows :
                 /\ \A k \in rows : file[k].id <= file[i].id
                 /\ job' = [job EXCEPT ![j] = [NoJob EXCEPT !.id = file[i].id, !.point = points[j],
                                                            !.reused = TRUE, !.phase = "planned"]]
    /\ planned' = planned + 1
    /\ UNCHANGED <<store, points, used, nextIndex, mainVar, signal, late, bounds>>

\* Mutant: a reservation that forgets the points planned before it in the same batch.
PlanNewUnreserved ==
    /\ Planning /\ planned < Len(points)
    /\ Reusable(points[planned + 1]) = {}
    /\ used + PerPoint <= MaxSimulations
    /\ job' = [job EXCEPT ![planned + 1] = [NoJob EXCEPT !.id = nextIndex, !.point = points[planned + 1],
                                                         !.phase = "planned"]]
    /\ planned' = planned + 1 /\ nextIndex' = nextIndex + 1
    /\ UNCHANGED <<store, points, used, mainVar, signal, late, bounds>>

\* Mutant: planning without looking for a reusable observation.
PlanNewAlways ==
    /\ Planning /\ planned < Len(points)
    /\ used + PerPoint <= MaxSimulations
    /\ used' = used + PerPoint
    /\ job' = [job EXCEPT ![planned + 1] = [NoJob EXCEPT !.id = nextIndex, !.point = points[planned + 1],
                                                         !.phase = "planned"]]
    /\ planned' = planned + 1 /\ nextIndex' = nextIndex + 1
    /\ UNCHANGED <<store, points, mainVar, signal, late, bounds>>

PlanNew ==
    /\ Planning /\ planned < Len(points)
    /\ Reusable(points[planned + 1]) = {}
    /\ used + PerPoint <= MaxSimulations
    /\ used' = used + PerPoint
    /\ job' = [job EXCEPT ![planned + 1] = [NoJob EXCEPT !.id = nextIndex, !.point = points[planned + 1],
                                                         !.phase = "planned"]]
    /\ planned' = planned + 1 /\ nextIndex' = nextIndex + 1
    /\ UNCHANGED <<store, points, mainVar, signal, late, bounds>>

\* BudgetExceeded: the whole batch is refused, nothing of it has started.
PlanRefused ==
    /\ Planning /\ planned < Len(points)
    /\ Reusable(points[planned + 1]) = {}
    /\ used + PerPoint > MaxSimulations
    /\ main' = "idle" /\ lock' = FALSE
    /\ job' = [j \in Slot |-> NoJob]
    /\ UNCHANGED <<store, plan, wait, stop, seen, signal, late, bounds>>

\* Mutant: the lock kept for the planning only.
SubmitUnlocked ==
    /\ Planning /\ planned = Len(points)
    /\ seen' = interrupts
    /\ job' = [j \in Slot |-> IF job[j].phase = "planned" THEN [job[j] EXCEPT !.phase = "queued"] ELSE job[j]]
    /\ main' = "waiting" /\ lock' = FALSE
    /\ UNCHANGED <<store, plan, wait, stop, signal, late, bounds>>

\* The count is noted and every job submitted to the pool.
Submit ==
    /\ Planning /\ planned = Len(points)
    /\ seen' = interrupts
    /\ job' = [j \in Slot |-> IF job[j].phase = "planned" THEN [job[j] EXCEPT !.phase = "queued"] ELSE job[j]]
    /\ main' = "waiting"
    /\ UNCHANGED <<store, plan, wait, stop, lock, signal, late, bounds>>

----------------------------------------------------------------------------
(* Worker threads: evaluate_job.  Actions with a job j leave everything but the named variables alone. *)

To(j, phase) == job' = [job EXCEPT ![j].phase = phase]

\* The pool's queue is first in, first out, and a thread must be free.
NextInQueue(j) ==
    /\ job[j].phase = "queued"
    /\ \A k \in Slot : job[k].phase = "queued" => j <= k
    /\ \E n \in 0..(Workers - 1) : Cardinality(Live) = n

TakeReused(j) ==
    /\ NextInQueue(j) /\ job[j].reused
    /\ To(j, "returned")
    /\ UNCHANGED <<store, plan, mainVar, signal, late, bounds>>

TakeAfterInterrupt(j) ==
    /\ NextInQueue(j) /\ ~job[j].reused /\ Stopping
    /\ To(j, "interrupted")
    /\ UNCHANGED <<store, plan, mainVar, signal, late, bounds>>

TakeUp(j) ==
    /\ NextInQueue(j) /\ ~job[j].reused /\ ~Stopping
    /\ job' = [job EXCEPT ![j].phase = "between", ![j].started = TRUE]
    /\ dirs' = dirs \cup {job[j].id}
    /\ UNCHANGED <<file, steps, plan, mainVar, signal, late, bounds>>

\* _unless_stopping before a stage or a child.
BetweenInterrupted(j) ==
    /\ job[j].phase = "between" /\ Stopping
    /\ To(j, "interrupted")
    /\ UNCHANGED <<store, plan, mainVar, signal, late, bounds>>

\* Mutant: the check forgotten between a point's children.
BeginUnchecked(j) ==
    /\ job[j].phase = "between"
    /\ To(j, "starting")
    /\ UNCHANGED <<store, plan, mainVar, signal, late, bounds>>

Begin(j) ==
    /\ job[j].phase = "between" /\ ~Stopping
    /\ To(j, "starting")
    /\ UNCHANGED <<store, plan, mainVar, signal, late, bounds>>

\* The point-level stage's entry is in the cache: no command.
CacheHit(j) ==
    /\ job[j].phase = "between" /\ ~Stopping /\ AtPointStage(j)
    /\ job' = [job EXCEPT ![j].cache = "hit"]
    /\ UNCHANGED <<store, plan, mainVar, signal, late, bounds>>

\* The command exists and is registered: an interrupt reaches it from now on.
Spawn(j) ==
    /\ job[j].phase = "starting"
    /\ job' = [job EXCEPT ![j].phase = "running", ![j].signalled = FALSE]
    /\ Starts(j, StageOf(j))
    /\ UNCHANGED <<store, plan, mainVar, signal, bounds>>

\* A command ends by itself (or at its deadline: "failed"); one that got the interrupt may die of it.
Ending(j) == {"ok", "violates", "failed"} \cup (IF job[j].signalled THEN {"killed"} ELSE {})

PointStageEnds(j, outcome) ==
    /\ job[j].phase = "running" /\ AtPointStage(j)
    /\ outcome \in Ending(j) \ {"violates"}
    /\ job' = IF outcome = "ok"
              THEN [job EXCEPT ![j].phase = "between", ![j].cache = "miss"]
              ELSE [job EXCEPT ![j].phase = "judging", ![j].results = [i \in 1..NChildren |-> outcome]]
    /\ UNCHANGED <<store, plan, mainVar, signal, late, bounds>>

ChildEnds(j, outcome) ==
    /\ job[j].phase = "running" /\ ~AtPointStage(j)
    /\ outcome \in Ending(j)
    /\ LET results == Append(job[j].results, outcome)
       IN  job' = [job EXCEPT ![j].results = results, ![j].tries = 0,
                              ![j].phase = IF Complete(results) THEN "judging" ELSE "between"]
    /\ UNCHANGED <<store, plan, mainVar, signal, late, bounds>>

\* Spectre and OCEAN start a command that failed again, with no look at the interrupt that may have killed it.
Retry(j) ==
    /\ job[j].phase = "running" /\ ~AtPointStage(j)
    /\ job[j].tries + 1 < Attempts
    /\ job' = [job EXCEPT ![j].phase = "starting", ![j].tries = @ + 1]
    /\ UNCHANGED <<store, plan, mainVar, signal, late, bounds>>

\* An error no stage handles: a lost connection; over ssh also a client the interrupt cut off.
CommandRaises(j) ==
    /\ job[j].phase = "running" /\ (MayRaise \/ job[j].signalled)
    /\ To(j, "raised")
    /\ UNCHANGED <<store, plan, mainVar, signal, late, bounds>>

\* A failure seen after an interrupt is not the point's own.
JudgeInterrupted(j) ==
    /\ job[j].phase = "judging" /\ Stopping /\ HasFailure(job[j].results)
    /\ To(j, "interrupted")
    /\ UNCHANGED <<store, plan, mainVar, signal, late, bounds>>

\* Mutant: a failure recorded whatever interrupted the batch.
JudgeUnchecked(j) ==
    /\ job[j].phase = "judging"
    /\ To(j, "passed")
    /\ UNCHANGED <<store, plan, mainVar, signal, late, bounds>>

Judge(j) ==
    /\ job[j].phase = "judging" /\ ~(Stopping /\ HasFailure(job[j].results))
    /\ To(j, "passed")
    /\ UNCHANGED <<store, plan, mainVar, signal, late, bounds>>

\* Under append_lock: the row, then the job's recorded flag.
AppendRow(j) ==
    /\ job[j].phase = "passed"
    /\ \A k \in Slot : job[k].phase # "appended"
    /\ file' = Append(file, RowOf(j))
    /\ To(j, "appended")
    /\ UNCHANGED <<steps, dirs, plan, mainVar, signal, late, bounds>>

MarkRecorded(j) ==
    /\ job[j].phase = "appended"
    /\ job' = [job EXCEPT ![j].phase = "retaining", ![j].recorded = TRUE]
    /\ UNCHANGED <<store, plan, mainVar, signal, late, bounds>>

\* _retain keeps the scratch files or removes them through the executor, interrupted or not.
Retain(j) ==
    /\ job[j].phase = "retaining"
    /\ To(j, "returned")
    /\ Starts(j, Removal) \/ UNCHANGED late
    /\ UNCHANGED <<store, plan, mainVar, signal, bounds>>

RetainRaises(j) ==
    /\ job[j].phase = "retaining" /\ MayRaise
    /\ To(j, "raised")
    /\ Starts(j, Removal)
    /\ UNCHANGED <<store, plan, mainVar, signal, bounds>>

\* The steps that take a job from the queue, and those of a job a thread is at.
Take(j) == TakeReused(j) \/ TakeAfterInterrupt(j) \/ TakeUp(j)

Work(j) ==
    \/ BetweenInterrupted(j) \/ Begin(j) \/ CacheHit(j) \/ Spawn(j)
    \/ \E outcome \in Outcome : PointStageEnds(j, outcome) \/ ChildEnds(j, outcome)
    \/ Retry(j) \/ CommandRaises(j) \/ JudgeInterrupted(j) \/ Judge(j)
    \/ AppendRow(j) \/ MarkRecorded(j) \/ Retain(j) \/ RetainRaises(j)

----------------------------------------------------------------------------
(* The calling thread while the jobs run.  While the signal handler runs in it, it does nothing else. *)

\* What is still queued never starts.
Cancelled == [j \in Slot |-> IF job[j].phase = "queued" THEN [job[j] EXCEPT !.phase = "cancelled"] ELSE job[j]]

IdsOf(js) == {job[j].id : j \in js}

InterruptedRow ==
    [status |-> "interrupted", call |-> calls, new |-> Cardinality({j \in New : job[j].recorded}),
     recorded |-> IdsOf({j \in New : job[j].recorded}),
     interrupted |-> IdsOf({j \in New : job[j].started /\ ~job[j].recorded}),
     notStarted |-> IdsOf({j \in New : ~job[j].started})]

OkRow ==
    [status |-> "ok", call |-> calls, new |-> Cardinality(New), recorded |-> {}, interrupted |-> {}, notStarted |-> {}]

MainNext ==
    /\ main = "waiting" /\ handler = "none"
    /\ wait <= Len(points) /\ job[wait].phase = "returned"
    /\ wait' = wait + 1
    /\ UNCHANGED <<store, plan, job, main, stop, seen, lock, signal, late, bounds>>

\* Every result is in: the pool and the lock are left, the step row comes after.
MainDone ==
    /\ main = "waiting" /\ handler = "none"
    /\ wait > Len(points)
    /\ main' = "logging" /\ lock' = FALSE
    /\ UNCHANGED <<store, plan, job, wait, stop, seen, signal, late, bounds>>

MainLogs ==
    /\ main = "logging" /\ handler = "none"
    /\ steps' = Append(steps, OkRow)
    /\ main' = "idle"
    /\ UNCHANGED <<file, dirs, plan, job, wait, stop, seen, lock, signal, late, bounds>>

\* Mutant: only the last job's error is looked at.
MainRaisedLast ==
    /\ main = "waiting" /\ handler = "none"
    /\ wait = Len(points) /\ job[wait].phase = "raised"
    /\ job' = Cancelled
    /\ main' = "unwinding"
    /\ UNCHANGED <<store, plan, wait, stop, seen, lock, signal, late, bounds>>

\* An ordinary error of a job leaves the results' loop: what is queued is cancelled, no step row.
MainRaised ==
    /\ main = "waiting" /\ handler = "none"
    /\ wait <= Len(points) /\ job[wait].phase = "raised"
    /\ job' = Cancelled
    /\ main' = "unwinding"
    /\ UNCHANGED <<store, plan, wait, stop, seen, lock, signal, late, bounds>>

\* Mutant: the step row written before the workers have ended.
ShutdownEndsEarly ==
    /\ main = "shutdown" /\ handler = "none"
    /\ steps' = Append(steps, InterruptedRow)
    /\ main' = "unwinding"
    /\ UNCHANGED <<file, dirs, plan, job, wait, stop, seen, lock, signal, late, bounds>>

\* pool.shutdown(wait=True) returns, then the row of the interrupted batch.
ShutdownEnds ==
    /\ main = "shutdown" /\ handler = "none"
    /\ Live = {}
    /\ steps' = Append(steps, InterruptedRow)
    /\ main' = "unwinding"
    /\ UNCHANGED <<file, dirs, plan, job, wait, stop, seen, lock, signal, late, bounds>>

\* The pool's own exit waits for its threads; then the lock is left.
Unwound ==
    /\ main = "unwinding" /\ handler = "none"
    /\ Live = {}
    /\ main' = "idle" /\ lock' = FALSE
    /\ UNCHANGED <<store, plan, job, wait, stop, seen, signal, late, bounds>>

MainStep ==
    \/ PlanReuse \/ PlanNew \/ PlanRefused \/ Submit
    \/ MainNext \/ MainDone \/ MainLogs \/ MainRaised \/ ShutdownEnds \/ Unwound

----------------------------------------------------------------------------
(* Ctrl-C: process_group's handler in the calling thread -- count, signal the commands, raise -- and a crash *)

\* Mutant: the handler does not count the signal before it passes it on.
InterruptUncounted ==
    /\ main # "idle" /\ handler = "none"
    /\ interrupts < MaxInterrupts
    /\ handler' = "signalling"
    /\ UNCHANGED <<store, plan, job, mainVar, interrupts, late, bounds>>

Interrupt ==
    /\ main # "idle" /\ handler = "none"
    /\ interrupts < MaxInterrupts
    /\ interrupts' = interrupts + 1
    /\ handler' = "signalling"
    /\ UNCHANGED <<store, plan, job, mainVar, late, bounds>>

SignalGroups ==
    /\ handler = "signalling"
    /\ job' = [j \in Slot |-> IF job[j].phase = "running" THEN [job[j] EXCEPT !.signalled = TRUE] ELSE job[j]]
    /\ handler' = "raising"
    /\ UNCHANGED <<store, plan, mainVar, interrupts, late, bounds>>

\* KeyboardInterrupt while planning: the lock is left, nothing has started.
RaiseInPlanning ==
    /\ handler = "raising" /\ main = "planning"
    /\ handler' = "none" /\ main' = "idle" /\ lock' = FALSE
    /\ job' = [j \in Slot |-> NoJob]
    /\ UNCHANGED <<store, plan, wait, stop, seen, interrupts, late, bounds>>

RaiseInWaiting ==
    /\ handler = "raising" /\ main = "waiting"
    /\ handler' = "none" /\ main' = "shutdown" /\ stop' = TRUE
    /\ job' = Cancelled
    /\ UNCHANGED <<store, plan, wait, seen, lock, interrupts, late, bounds>>

\* A second Ctrl-C breaks the shutdown's wait; its finally clause writes the row.
RaiseInShutdown ==
    /\ handler = "raising" /\ main = "shutdown"
    /\ handler' = "none" /\ main' = "unwinding"
    /\ steps' = Append(steps, InterruptedRow)
    /\ UNCHANGED <<file, dirs, plan, job, wait, stop, seen, lock, interrupts, late, bounds>>

\* One that breaks the pool's exit leaves the lock, whatever the workers do.
RaiseInUnwinding ==
    /\ handler = "raising" /\ main = "unwinding"
    /\ handler' = "none" /\ main' = "idle" /\ lock' = FALSE
    /\ UNCHANGED <<store, plan, job, wait, stop, seen, interrupts, late, bounds>>

RaiseInLogging ==
    /\ handler = "raising" /\ main = "logging"
    /\ handler' = "none" /\ main' = "idle"
    /\ UNCHANGED <<store, plan, job, wait, stop, seen, lock, interrupts, late, bounds>>

HandlerStep ==
    \/ SignalGroups
    \/ RaiseInPlanning \/ RaiseInWaiting \/ RaiseInShutdown \/ RaiseInUnwinding \/ RaiseInLogging

\* SIGKILL, or the default action of a hangup: only the files stay.
Crash ==
    /\ main # "idle" /\ crashes < MaxCrashes
    /\ crashes' = crashes + 1
    /\ main' = "idle" /\ lock' = FALSE /\ handler' = "none"
    /\ job' = [j \in Slot |-> NoJob]
    /\ UNCHANGED <<store, plan, wait, stop, seen, interrupts, late, calls>>

----------------------------------------------------------------------------
Next ==
    \/ \E request \in Requests : Call(request)
    \/ \E j \in Slot : Take(j) \/ Work(j)
    \/ MainStep
    \/ Interrupt \/ HandlerStep \/ Crash

Spec == Init /\ [][Next]_vars

\* Threads are scheduled and every command ends: each has a deadline (timeout_s), after which its group is killed.
Fairness ==
    /\ \A j \in Slot : WF_vars(Take(j)) /\ WF_vars(Work(j))
    /\ WF_vars(MainStep) /\ WF_vars(HandlerStep)

FairSpec == Spec /\ Fairness
----------------------------------------------------------------------------
(* Properties *)

TypeOK ==
    /\ file \in Seq(Row) /\ steps \in Seq(StepRow)
    /\ dirs \subseteq Nat /\ IsFiniteSet(dirs)
    /\ lock \in BOOLEAN
    /\ points \in Seq(Point) /\ Len(points) <= MaxBatch /\ planned \in 0..Len(points)
    /\ used \in Nat /\ nextIndex \in Nat \ {0}
    /\ job \in [Slot -> Job]
    /\ main \in Main /\ wait \in 1..(MaxBatch + 1) /\ stop \in BOOLEAN
    /\ interrupts \in Nat /\ seen \in Nat
    /\ handler \in {"none", "signalling", "raising"}
    /\ late \in [Slot -> SUBSET Nat] /\ calls \in Nat /\ crashes \in Nat

\* A number names one observation for good: no two rows share one, and no new job holds a number a row already has
\* (but its own row).  Whatever was interrupted or crashed before (store.py, next_obs_index).
UniqueIds ==
    /\ \A i, k \in DOMAIN file : file[i].id = file[k].id => i = k
    /\ \A j \in Live : \A i \in DOMAIN file :
          file[i].id = job[j].id => job[j].phase \in {"appended", "retaining"}
    /\ \A j, k \in Live : job[j].id = job[k].id => j = k

\* No failure an interrupt caused is ever in the fact table: the point is simulated again instead (engine.py,
\* "Interrupts": a running point whose command got the interrupt is not recorded).
NoInterruptFailureRecorded ==
    \A i \in DOMAIN file : \A k \in DOMAIN file[i].results : file[i].results[k] # "killed"

\* The table never holds more simulations than the budget, and will not when every job still at work is recorded at its
\* full cost (spec.budget.max_simulations).
BudgetKept == SimulationsOf(file) + PerPoint * Cardinality(Reserved) <= MaxSimulations

\* A point that has an ok row is not simulated again by a later call: two ok rows of one point are of one call, which
\* then asked for it twice.
OkPointsReused ==
    \A i, k \in DOMAIN file :
        i < k /\ file[i].ok /\ file[k].ok /\ file[i].point = file[k].point => file[i].call = file[k].call

\* The rows of a call.
Recorded(c) == {file[i].id : i \in {k \in DOMAIN file : file[k].call = c}}

\* A batch's row in the step log stays true: it names as recorded exactly the points the table holds of the batch; the
\* number of an interrupted point never names a row, and a point not started has none of this batch (a later batch may
\* give its number to another point: its directory was never made) (engine.py, _log_interrupted).
StepRowsTrue ==
    \A i \in DOMAIN steps :
        LET row == steps[i]
        IN  /\ row.new = Cardinality(Recorded(row.call))
            /\ row.status = "interrupted" =>
                  /\ row.recorded = Recorded(row.call)
                  /\ row.interrupted \cap Ids(file) = {}
                  /\ row.notStarted \cap Recorded(row.call) = {}

\* After an interrupt no point, stage or child is begun: commands still start in at most as many jobs as there are workers,
\* in each job all of the one stage it was already let into -- its attempts: a command the interrupt kills is started again
\* -- or, for a point that finished, to remove its scratch files (engine.py, _unless_stopping).
LateInOneStage ==
    /\ Cardinality({j \in Slot : late[j] # {}}) <= Workers
    /\ \A j \in Slot : \E s \in 0..NChildren : late[j] \subseteq {s, Removal}

\* One writer at a time: while a job may still append its row, its process holds the store's lock (store.py, "lock").
WritesUnderLock == Live # {} => lock

\* A call ends and leaves the lock, however it is interrupted.
CallEnds == lock ~> ~lock

\* The table as its readers see it: rows are only ever added, each under a fresh number, none of them an interrupt's
\* failure, and within the budget.
ImplementsFactTable == Table!BudgetedSpec
=============================================================================
