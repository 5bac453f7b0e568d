----------------------------- MODULE ProjectStore -----------------------------
(***************************************************************************)
(* Several ic-opt processes on one project (cli.py, store.py, _lock.py,    *)
(* blocks/optimize.py, eval/engine.py): the project lock (run.lock), the   *)
(* store's lock (lock), and the observations each process read once and    *)
(* keeps (RunStore.observations).                                          *)
(*                                                                         *)
(* Three kinds of process: "run" (ic-opt run: the project lock, then the   *)
(* rows, then batches), "optimize" (ic-opt call opt.optimize: the rows     *)
(* first, then the project lock), "script" (code that calls sim.evaluate   *)
(* by itself: no project lock, the rows at the first batch).               *)
(*                                                                         *)
(* A batch is EvalBatch seen from outside: planned in one step under the   *)
(* store's lock from the rows the process keeps, then its points started   *)
(* and recorded in any order.  What happens inside one is EvalBatch's.     *)
(***************************************************************************)
EXTENDS Integers, Sequences, FiniteSets, FiniteSetsExt

CONSTANTS
    Process,
    Kinds,           \* what the processes may be: functions from Process to "run", "optimize", "script"
    Point,           \* the points batches are made of
    PerPoint,        \* simulations of one point
    MaxSimulations,  \* spec.budget.max_simulations
    MaxBatches,      \* bound: batches of one process
    MaxStarts        \* bound: times a process is started (again)

ASSUME StoreAssumption ==
    /\ Kinds \subseteq [Process -> {"run", "optimize", "script"}]
    /\ IsFiniteSet(Point) /\ PerPoint \in Nat \ {0} /\ MaxSimulations \in Nat
    /\ MaxBatches \in Nat /\ MaxStarts \in Nat
    /\ "nobody" \notin Process

VARIABLES
    kind,     \* what each process is
    file,     \* observations.jsonl
    dirs,     \* the numbers n of the directories sims/obs_n
    runLock,  \* the process that holds run.lock, or "nobody"
    lock,     \* the process that holds lock, or "nobody"
    pc,       \* where each process is
    kept,     \* the processes that have read the observations
    rows,     \* the observations each of them keeps
    todo,     \* the points of its batch not recorded yet, as <<number, point>>
    begun,    \* the numbers of those its workers have started
    batches,  \* the batches it has run
    starts    \* how often it was started

vars == <<kind, file, dirs, runLock, lock, pc, kept, rows, todo, begun, batches, starts>>

Row == [id : Nat, point : Point, ok : BOOLEAN, simulations : Nat, results : Seq({"ok", "failed"})]

Table == INSTANCE FactTable WITH table <- file, Budget <- MaxSimulations

\* What RunStore.observations returns: the rows read once, else the file.
Seen(p) == IF p \in kept THEN rows[p] ELSE file

\* Mutant: the directories not looked at.
NextIndexOfRows(p) == 1 + Max({0} \cup Table!Ids(Seen(p)))

\* next_obs_index: past the rows the process keeps and the directories on the disk.
NextIndex(p) == 1 + Max({0} \cup Table!Ids(Seen(p)) \cup dirs)

Init ==
    /\ kind \in Kinds
    /\ file = <<>> /\ dirs = {}
    /\ runLock = "nobody" /\ lock = "nobody"
    /\ pc = [p \in Process |-> "off"]
    /\ kept = {} /\ rows = [p \in Process |-> <<>>]
    /\ todo = [p \in Process |-> {}] /\ begun = [p \in Process |-> {}]
    /\ batches = [p \in Process |-> 0] /\ starts = [p \in Process |-> 0]

To(p, next) == pc' = [pc EXCEPT ![p] = next]

\* Mutant: a process that is refused unlocks the file it opened, whoever locked it.
FreeAnyway(l, p) == "nobody"

\* A lock belongs to its open handle.
Free(l, p) == IF l = p THEN "nobody" ELSE l

\* The process ends, whatever the reason: the system lets its locks go.
Gone(p) ==
    /\ To(p, "off")
    /\ runLock' = Free(runLock, p) /\ lock' = Free(lock, p)
    /\ kept' = kept \ {p} /\ rows' = [rows EXCEPT ![p] = <<>>]
    /\ todo' = [todo EXCEPT ![p] = {}] /\ begun' = [begun EXCEPT ![p] = {}]

----------------------------------------------------------------------------
(* Starting: cli.run, cli.call *)

Start(p) ==
    /\ pc[p] = "off" /\ starts[p] < MaxStarts
    /\ starts' = [starts EXCEPT ![p] = @ + 1]
    /\ batches' = [batches EXCEPT ![p] = 0]
    /\ To(p, CASE kind[p] = "run" -> "locking" [] kind[p] = "optimize" -> "reading" [] OTHER -> "ready")
    /\ UNCHANGED <<kind, file, dirs, runLock, lock, kept, rows, todo, begun>>

\* Mutant: ic-opt run without its lock.
TakeRunLockNever(p) ==
    /\ pc[p] = "locking"
    /\ To(p, IF kind[p] = "run" THEN "reading" ELSE "ready")
    /\ UNCHANGED <<kind, file, dirs, runLock, lock, kept, rows, todo, begun, batches, starts>>

\* exclusive_lock(run.lock) in ic-opt run, store.run_lock() in opt.optimize.
TakeRunLock(p) ==
    /\ pc[p] = "locking" /\ runLock = "nobody"
    /\ runLock' = p
    /\ To(p, IF kind[p] = "run" THEN "reading" ELSE "ready")
    /\ UNCHANGED <<kind, file, dirs, lock, kept, rows, todo, begun, batches, starts>>

\* LockHeld: refused at once.
RunLockRefused(p) ==
    /\ pc[p] = "locking" /\ runLock # "nobody"
    /\ Gone(p)
    /\ UNCHANGED <<kind, file, dirs, batches, starts>>

\* RunStore.observations: read once, whatever the file becomes.
Keep(p) ==
    /\ kept' = kept \cup {p}
    /\ rows' = [rows EXCEPT ![p] = Seen(p)]

\* ic-opt run and ic-opt call read the rows first, the call before any lock.
Read(p) ==
    /\ pc[p] = "reading"
    /\ Keep(p)
    /\ To(p, IF kind[p] = "optimize" THEN "locking" ELSE "ready")
    /\ UNCHANGED <<kind, file, dirs, runLock, lock, todo, begun, batches, starts>>

\* blocks/evaluate.py, _schedule: the rows read under the store's lock, which is let go before the batch takes it again.
Learn(p) ==
    /\ pc[p] = "ready" /\ p \notin kept /\ lock = "nobody"
    /\ Keep(p)
    /\ UNCHANGED <<kind, file, dirs, runLock, lock, pc, todo, begun, batches, starts>>

----------------------------------------------------------------------------
(* One batch: engine.run *)

Reusable(p, point) == \E i \in DOMAIN Seen(p) : Seen(p)[i].ok /\ Seen(p)[i].point = point

New(p, points) == {point \in points : ~Reusable(p, point)}

Affordable(p, points) ==
    Table!SimulationsOf(Seen(p)) + PerPoint * Cardinality(New(p, points)) <= MaxSimulations

\* The numbers a batch's new points get, one after the other; which gets which is the caller's order.
Numberings(p, points) ==
    LET n == Cardinality(New(p, points))
    IN  {f \in [New(p, points) -> NextIndex(p)..(NextIndex(p) + n - 1)] :
            \A a, b \in New(p, points) : f[a] = f[b] => a = b}

BeginBatch(p) ==
    /\ pc[p] = "ready" /\ batches[p] < MaxBatches
    /\ lock = "nobody"
    /\ \E points \in SUBSET Point \ {{}} :
          /\ Affordable(p, points)
          /\ \E f \in Numberings(p, points) : todo' = [todo EXCEPT ![p] = {<<f[q], q>> : q \in New(p, points)}]
    /\ Keep(p)
    /\ lock' = p /\ To(p, "batch")
    /\ batches' = [batches EXCEPT ![p] = @ + 1]
    /\ UNCHANGED <<kind, file, dirs, runLock, begun, starts>>

\* LockHeld, or BudgetExceeded for some batch: the process ends.
BatchRefused(p) ==
    /\ pc[p] = "ready" /\ batches[p] < MaxBatches
    /\ \/ lock # "nobody"
       \/ \E points \in SUBSET Point \ {{}} : ~Affordable(p, points)
    /\ Gone(p)
    /\ UNCHANGED <<kind, file, dirs, batches, starts>>

\* A worker takes the point up: its directory is made.
StartPoint(p, job) ==
    /\ pc[p] = "batch" /\ job \in todo[p] /\ job[1] \notin begun[p]
    /\ begun' = [begun EXCEPT ![p] = @ \cup {job[1]}]
    /\ dirs' = dirs \cup {job[1]}
    /\ UNCHANGED <<kind, file, runLock, lock, pc, kept, rows, todo, batches, starts>>

\* store.append: to the file and to the rows this process keeps.
Record(p, job, ok) ==
    /\ pc[p] = "batch" /\ job \in todo[p] /\ job[1] \in begun[p]
    /\ LET row == [id |-> job[1], point |-> job[2], ok |-> ok, simulations |-> PerPoint,
                   results |-> [i \in 1..PerPoint |-> IF ok THEN "ok" ELSE "failed"]]
       IN  /\ file' = Append(file, row)
           /\ rows' = [rows EXCEPT ![p] = Append(@, row)]
    /\ todo' = [todo EXCEPT ![p] = @ \ {job}]
    /\ UNCHANGED <<kind, dirs, runLock, lock, pc, kept, begun, batches, starts>>

\* The batch is done, and its lock let go.
EndBatch(p) ==
    /\ pc[p] = "batch" /\ todo[p] = {}
    /\ lock' = "nobody"
    /\ begun' = [begun EXCEPT ![p] = {}]
    /\ To(p, "ready")
    /\ UNCHANGED <<kind, file, dirs, runLock, kept, rows, todo, batches, starts>>

\* The process ends: done, interrupted or crashed, wherever it is; points begun or queued are not recorded.
End(p) ==
    /\ pc[p] # "off"
    /\ Gone(p)
    /\ UNCHANGED <<kind, file, dirs, batches, starts>>

Next ==
    \E p \in Process :
        \/ Start(p) \/ TakeRunLock(p) \/ RunLockRefused(p) \/ Read(p) \/ Learn(p)
        \/ BeginBatch(p) \/ BatchRefused(p) \/ EndBatch(p) \/ End(p)
        \/ \E job \in todo[p] : StartPoint(p, job) \/ \E ok \in BOOLEAN : Record(p, job, ok)

Spec == Init /\ [][Next]_vars

----------------------------------------------------------------------------
(* Properties *)

TypeOK ==
    /\ kind \in Kinds
    /\ file \in Seq(Row) /\ dirs \subseteq Nat
    /\ runLock \in Process \cup {"nobody"} /\ lock \in Process \cup {"nobody"}
    /\ pc \in [Process -> {"off", "locking", "reading", "ready", "batch"}]
    /\ kept \subseteq Process /\ rows \in [Process -> Seq(Row)]
    /\ todo \in [Process -> SUBSET (Nat \X Point)] /\ begun \in [Process -> SUBSET Nat]
    /\ batches \in [Process -> Nat] /\ starts \in [Process -> Nat]
    /\ \A p \in Process : pc[p] = "batch" => lock = p

\* Whoever plans from rows read however long ago, the table the processes share is the abstract one: rows are only added,
\* no two under one number.  Every recorded point made its directory first, and the directories are looked at (store.py,
\* next_obs_index).
ImplementsFactTable == Table!Spec

OnlyRuns == \A p \in Process : kind[p] = "run"

\* The rows a run plans and records from are the file's: nobody else has added to it since it read them (store.py,
\* run_lock: one run per project).
RowsFresh == OnlyRuns => \A p \in Process : pc[p] \in {"ready", "batch"} => rows[p] = file

\* The budget counts every simulation the project's store holds, whoever ran it (README.md, "budget.max_simulations").
BudgetKept == Table!SimulationsOf(file) <= MaxSimulations

\* It does when every process is a run, however runs end and begin again.
RunsKeepBudget == OnlyRuns => BudgetKept

\* When every process is a run, a point with an ok row is never simulated again (engine.py: "reuses an existing ok
\* observation").
RunsReuseOkPoints ==
    OnlyRuns =>
        \A i, k \in DOMAIN file : file[i].ok /\ file[k].ok /\ file[i].point = file[k].point => i = k
=============================================================================
