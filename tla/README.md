# TLA+ models of IC-Opt

IC-Opt optimises circuit designs with Spectre, OCEAN and EMX: a recipe composes
blocks, `opt.optimize` proposes points, `sim.evaluate` simulates them on a pool
of threads, and every result is a row of one append-only table that later
batches, later runs and other processes plan from. These modules model the part
of the program that decides *which* simulations run, are counted and are
remembered, what the recipes and the user's advice make of them from one run to
the next, and what is left on disk and on a remote host when something is
interrupted, fails or dies. Paths
below are relative to the repository; `ic_opt/` stands for `src/ic_opt/`.

## 1. Inventory

| Part | State | Operations | Hard behaviour |
|---|---|---|---|
| Evaluation engine, `ic_opt/eval/engine.py` | a batch's jobs, stop event, interrupt count at its start | `run`, `evaluate_job`, `_run_point`, `_retain` | thread pool, Ctrl-C, errors of one job, crash in between |
| Stage cache, `engine.py` `_run_cached`, `ic_opt/stages/em_chain.py` | `.icopt/cache/<stage>/<fingerprint>`, one lock per entry, EMX slots | hit, miss, save, rename | threads and processes after the same entry, a wait across Ctrl-C, crash while writing |
| Schedule, `ic_opt/eval/schedule.py`, `ic_opt/blocks/evaluate.py` | the order learned from the history, stop kinds | `order`, `stop_after` | a stop decided from part of a point |
| Verdict, `ic_opt/sim/corner.py`, `ic_opt/objective.py` | none | `aggregate`, `stopper` | must agree with the stop, for complete and incomplete points |
| Store, `ic_opt/store.py`, `ic_opt/observation.py` | `observations.jsonl`, `steps.jsonl`, `sims/obs_*`, the rows a process keeps | `observations`, `append`, `next_obs_index`, `log_step` | rows read once, holes after interrupts, crash |
| Locks, `ic_opt/_lock.py` | `.icopt/lock`, `.icopt/run.lock` | `exclusive_lock`, `reentrant_lock`, `waiting_lock` | refusal, death of the holder |
| Process groups, `ic_opt/executor/process_group.py`, `local.py` | commands running, interrupts passed on | `run`, `forward_signals` | the handler between any two steps of the threads |
| SSH executor, `ic_opt/executor/ssh.py` | remote process groups and their records | `run`, `_end_group`, the scripts `in_own_session` and `end_group_script`, `put`, `get` | deadline or interrupt with the remote side alive |
| Command line, `ic_opt/cli.py`, `recipe.py` | exit code, plan mode | `run`, `call`, `advise`, `digest`, ... | which lock is taken before which read |
| Optimize block, `ic_opt/blocks/optimize.py` | `steps.json` | `optimize`, `advise`, `revoke_advice` | continuing a step with another budget or after a crash |
| Advice, `ic_opt/advice.py` | `advice.jsonl` | `adoption`, `refusal`, `revocation`, `in_effect` | what is in effect at a past or present history size |
| signoff, `ic_opt/recipes/signoff.py` | rounds file | `_Rounds.go` | termination, which re-check is reported |
| Library caches, `ic_opt/library/cache.py`, `library/dataset.py` | dataset and anchor files and their locks | `computed`, `held`, `anchors_at` | several processes computing one file, or several files in different orders |
| Store migration, `ic_opt/migrate_store.py` | rows' stamps, EMX cache entries, the library manifest's pins | `migrate` | a failure between its steps, readers and other migrations meanwhile |
| Library queries, suggesters, pcells, netlists, parsing, digest, report, vendored code | none that outlives a call | | numerics, text, I/O |

The command line takes `run.lock` for a run; the recipe's blocks call
`sim.evaluate`, which builds the schedule (reading the store) and calls the
engine; the engine takes `lock`, plans from the store's rows, and its worker
threads call the stages, which start commands through an executor and share the
cache. The signal handler interrupts the main thread wherever it is, and the
threads see it only through a counter and the commands' deaths. What makes each
part correct: numbers unique for good; the budget never exceeded; no row a lie
(a failure an interrupt caused, a step row that names the wrong points); a good
point never paid for twice; cache entries whole and worked out once; a stopped
point one that would have failed; every batch ending with its locks let go. Of
the recipes: a batch runs under the advice its user gave, which the files give
back later; a step keeps its design whatever calls advance it; what is signed
off holds. Of a library: an anchor file is measured once, and a migrated part is
whole however often the migration died. Of a remote command: what the error says
became of it is so.

## 2. Modules

| Module | Models | Source |
|---|---|---|
| `FactTable` | the abstract table: rows only added, fresh numbers, honest rows; with `BudgetedSpec`, within the budget | `store.py`, `engine.py` |
| `EvalBatch` | one process's batches: calling thread, workers, commands, signal handler, crash and restart | `engine.py`, `process_group.py`, `store.py` |
| `EvalBatchProofs` | theorems about `EvalBatch` | |
| `StageCache` | a point's cached stages in threads of several processes, EMX slots | `engine.py`, `em_chain.py` |
| `PointSchedule` | one point: order, stop, verdict, the child it names | `schedule.py`, `evaluate.py`, `corner.py`, `objective.py`, `engine.py` |
| `ProjectStore` | several processes on one project: both locks, rows read once, batches seen from outside | `cli.py`, `store.py`, `_lock.py`, `optimize.py`, `engine.py` |
| `Campaign` | the search loop, its step record, and the advice given between runs | `optimize.py`, `advice.py`, `store.py` |
| `Signoff` | the recipes over it: plain steps, and signoff with its re-check and rounds (EXTENDS `Campaign`) | `recipes/signoff.py`, `recipes/optimize.py` |
| `LibraryStore` | a library's files: migrations of its parts, readers that build datasets and measure anchors | `migrate_store.py`, `library/dataset.py`, `library/cache.py`, `_lock.py` |
| `RemoteCommand` | one command on an SSH host: local client, wrapper and command, the script that ends its group | `executor/ssh.py`, `process_group.py` |
| `ProjectStoreProofs`, `StageCacheProofs`, `PointScheduleProofs`, `LibraryStoreProofs`, `RemoteCommandProofs`, `SignoffProofs` | theorems about the module each is named after | |
| `TableLemmas` | lemmas the proof modules share: the next number is new, an appended row adds its simulations, sets of one member more or less | |
| `MC*` | finite instances of these for TLC | |

How they fit: one job of `EvalBatch` is a thread of `StageCache` up to the end
of its point stages and then a point of `PointSchedule`; a whole batch of
`EvalBatch` is `BeginBatch`, `StartPoint`, `Record`, `EndBatch` of
`ProjectStore`. `EvalBatch` and `ProjectStore` are both shown to implement
`FactTable` (`Table == INSTANCE FactTable WITH table <- file`). `Campaign` is
above them: its `Propose` and `Land` are the batches of one run, whose lock
`ProjectStore` justifies. A command of `EvalBatch` that runs on an SSH host is
one `RemoteCommand`.

**EvalBatch.** `file`, `steps`, `dirs` are the files; `job` the `Job` records
with the place their thread is at (`phase`); `main`, `wait`, `stop`, `seen`,
`lock` the calling thread and what `run` holds; `interrupts`, `handler` the
signal handler. One action per step another thread, the handler or a crash could
come between: `PlanReuse`/`PlanNew`/`PlanRefused` are the planning loop's
branches; `Take*` the start of `evaluate_job`; `Begin` the check before a stage
or child and `Spawn` the command's start after it; `PointStageEnds`,
`ChildEnds`, `CommandRaises` its end; `Judge*`, `AppendRow`, `MarkRecorded`,
`Retain*` what follows. The handler counts, signals the groups and raises in
three steps (`Interrupt`, `SignalGroups`, `RaiseIn*`), and what the
KeyboardInterrupt does depends on where the calling thread is. A child is one
stage with the outcome ok, violates or failed; its command may be started again
while it fails (`Retry`: `Spectre.run` once after a socket failure, `Ocean.run` up
to `OCEAN_ATTEMPTS` times, neither with a look at the interrupt). "killed" is a
failure whose command got the interrupt, which the code cannot tell from another
failure and the properties must. `late` is a history variable: the stages of each
job that started a command after the interrupt, the removal of its scratch files
(`Retain`) among them. `Call` begins when no thread of an earlier batch is left:
`cli.py:130` ends the process at a KeyboardInterrupt, and a program of its own
that catches one and calls again beside its old threads is left out.

**StageCache.** `entry` and `staging` are the directories' files; a thread is at
one stage (`at`) in one `phase`; a flight is held from `TakeFlight` to the
stage's end, a slot during the command. `waitedFor` and `paid` are history
variables. **PointSchedule.** What each child would give is chosen at the start,
so the verdict of a stopped point can be compared with the one the whole point
would have had (`Complete`). **ProjectStore.** `rows[p]` and `kept` are the
rows a process read once; the order of the reads and the locks per kind of
process is `Start`, `Read`, `TakeRunLock`, `Learn`, `BeginBatch`.

**Campaign.** `rows`, `advice`, `design` are `observations.jsonl`,
`advice.jsonl` and `steps.json`; `torn` says which file's last line a crash cut
short. `run` is the `ic-opt run` under way: `BeginStep` is `optimize` up to its
loop (the rows read, the design's size looked up or recorded), `Propose` one turn
of the loop (`in_effect` at the history size, `suggest`, reuse), `Land` a row of
the batch, `EndStep` the loop's end. `Advise` and `AppendAdvice` are the two
steps of `ic-opt advise`, which holds `run.lock` over both. A problem is the pair
of limits on one metric; a smaller point has the better objective; the simulator
gives a corner of a point the value it gave before, unless it failed. `standing`
is a history variable: the advice its author would say applies.

**Signoff.** `round`, `checked`, `entries` are what `_Rounds` keeps, `file` is
`signoff_rounds.json`. `Recheck` and `LandCheck` are the evaluation of the best
points at every corner; `Outcome` is the chain of reasons for which the rounds
end (`EndRounds`), else `NextRound` tightens the limits by `_misses` and searches
again.

**LibraryStore.** `stamp`, `entries`, `pins` are a part's rows, its EMX cache and
the manifest; `migs[p]` the migration of part `p`: planned whole in
`BeginMigrate`, then `ReplaceRows`, `MoveEntry` for each entry, `ReadManifest`
and `WriteManifest`, with a death between any two, beside the migrations of the
other parts. An entry is the set of keys it is kept under: one whose current key
is taken stays, as does one whose point has no readable `geometry.json`
(`skipped`). `ended` and `raced` are history variables: the parts whose last
migration came to its end, and those whose last migration began, or wrote the
manifest, while another generation's held an older text of it. `readers[r]` reads the
manifest once and the parts one after another (`SelectPart`), then looks for its
anchor files, takes the lock file of each missing one in the order of their
names, reads again and measures (`ReadAnchors`, `TakeLock`, `ReRead`,
`WriteAnchors`: `anchors_at`).

**RemoteCommand.** `call` is `SshExecutor.run`; `wrapper`, `leader`, `children`,
`record` what `in_own_session` starts on the host; `ender` the script
`_end_group` runs there, one action per shell command. The handler counts
(`Interrupt`) before it signals; a worker's call learns of it by the client's
death, the main thread's gets the exception instead (`SignalGroupsAndRaise`).
The host's steps go on whatever becomes of the client.

## 3. Runs

| Run | Shows | Bounds |
|---|---|---|
| `EvalBatch_restart` | `UniqueIds`, `BudgetKept`, `OkPointsReused`, `StepRowsTrue`, `WritesUnderLock`, `ImplementsFactTable` over two calls of the same batch with an interrupt and a crash anywhere | 2 points, 2 threads, 1 child after 1 point stage, 2 attempts, budget 6 |
| `EvalBatch_storm` | `NoInterruptFailureRecorded`, `LateInOneStage` and, under fairness, `CallEnds`, with two interrupts, a crash and errors no stage handles | 1 call of 2 points, 2 attempts |
| `StageCache_shared` | `PaidOnce`, `SlotsKept`, `EntriesWhole`, `RenameSafe`, `FlightWaitersStartNothing` and, under fairness, `BatchesEnd` | 3 threads of 2 processes, 2 entries, 1 uncached stage, 1 slot, 1 crash, 2 batches |
| `PointSchedule_policies` | `StopIsSound`, `EveryPointJudged`, `NothingAfterFailure`, `StopperNamed` | 7 specs, up to 5 children, values below and above the limit, every order |
| `ProjectStore_processes` | `ImplementsFactTable` for any kinds; `RowsFresh`, `RunsKeepBudget`, `RunsReuseOkPoints` when both are runs | 2 processes, 2 starts, 2 batches each, 2 points, budget 2 |
| `Signoff_campaigns` | `AdviceApplied`, `DesignKept`, `SignedOffHolds`, `RoundsTraced`, `NothingAfterTorn` and, under fairness, `RunEnds` | 3 points, 2 corners, up to 3 runs, 3 advices, 2 edits, 3 rounds, 1 crash: five scenarios |
| `LibraryStore_library` | `MeasuredOnce`, `StoreMigrated` and, under fairness, `ReadersEnd` | 2 parts of 2 rows, 2 frequencies, 2 readers, up to 4 migrations, 3 readings, 2 deaths: five scenarios |
| `RemoteCommand_cut` | `TypeOK` (no record of a command that is over), `CutIsTold` | 1 command, 2 interrupts, 2 broken connections; 8 kinds of host and caller |
| `EvalBatch_error_interrupt` | violation, see section 5 | |
| `StageCache_slot_interrupt` | violation, see section 5 | |
| `PointSchedule_mixed_policy` | violation, see section 5 | |
| `ProjectStore_stale_rows` | violation, see section 5 | |

The `TypeOK` of each module is checked with its passing run. `CHECK_DEADLOCK
FALSE` is right everywhere: calls, starts and points are bounded, and a program
that has used them up stops.

Why the bounds are enough. Every conflict in the code is between two jobs, two
threads of a flight, or two processes: two of each, with a third thread for the
other process in `StageCache`, make each happen. The restart run's budget (6,
against 4 for one batch) is met only after rows of a first batch are counted, so
refusal, partial reuse and full reuse all occur; the processes' budget (2) is
used up by one batch. Two calls, or starts, are one before and one after an
interruption. `MaxInterrupts`, `MaxCrashes`, `MaxCalls`, `MaxBatch`,
`MaxBatches`, `MaxStarts` and `Values` are the named bounds; the theorems do not
depend on them. `Attempts` is 2, one retry, where OCEAN has 3: a third differs in
nothing from a second, and the theorems are for any number.

The last three modules take a set of scenarios: records that give the bounds
(what `left` counts down) together with the settings that would not change in a
project, so that each run covers several situations without the product of all.
Of the campaigns, `Advised` is a recipe of two steps in increments with an advice
between, cut off; `Edited` one step with the spec edited and edited back;
`Increments` signoff in increments, so that rows of re-checks lie in the history;
`Full` three rounds at every corner, cut off; `Stopped` two rounds stopped at the
first failing corner, with simulations that fail now and then. Three points are
one more than a batch holds, so a batch is a choice; two advices are one that is
superseded or revoked; three rounds are one tightening on top of another; the
strategy may leave a batch short of points in `Advised` and `Stopped` only
(`short`). `RoundsTraced` ties rows to the rounds file where the source says it
does: with every corner simulated and without transient failures. Of the
libraries, `Base` is two parts of two generations, one with an entry under both
keys, migrated in up to four attempts, beside each other or not, of which two die:
enough to lose a pin and to get it back; `Shared` has two parts of one generation
and a skipped point, with three attempts; in `Reading` a migration
changes what two readers select; `Crowded` has three readings of two files in
either order, one cut off; `Unlocked` the same where `flock` does nothing, and
only there may two readers measure one file. One remote command is enough: a
group shares nothing with another's.

What the bounds leave out: `StepRowsTrue` is checked with one interrupt (a second
one breaks it, section 5) and `WritesUnderLock` without errors no stage handles
(with them it fails, section 5).

**Fairness.** `EvalBatch` assumes weak fairness of each worker's steps (taking
a job up, and each step of one it is at), the calling thread's and the handler's;
`StageCache` of each thread's steps. Operating systems schedule runnable
threads, and a thread that waits for a command waits a bounded time: every
simulator and extraction command is started with a deadline (`timeout_s`) after
which its process group is killed. Nothing is assumed about interrupts, crashes
or new calls. Weak fairness is enough for locks and slots in `StageCache` because
the number of threads that can overtake a waiting one within a batch is finite.
`Signoff` assumes weak fairness of the run's own steps, which are one thread's
and wait for batches that end (`CallEnds`); `LibraryStore` of each reader's
steps: its lock is polled and not fair, but readings are finitely many.
`RemoteCommand` assumes none and claims nothing that must happen.

## 4. Proofs

`EvalBatchProofs`, for every value of the constants that satisfies
`BatchAssumption` (positive sizes, a point stage of cost 0 or 1, requests that
are sequences of points no longer than `MaxBatch`):

| Theorem | States |
|---|---|
| `TypeCorrect` | `Spec => []TypeOK` |
| `UniqueIdsCorrect` | `Spec => []UniqueIds` |
| `NoInterruptFailureCorrect` | `Spec => []NoInterruptFailureRecorded` |
| `OkPointsReusedCorrect` | `Spec => []OkPointsReused` |
| `BudgetKeptCorrect` | `Spec => []BudgetKept` |
| `Refinement` | `Spec => ImplementsFactTable` |

None of the four invariants is inductive. `IInv` strengthens them: `Numbering`
(jobs' numbers are distinct, none that may still be appended is in the table,
and planning is past every row and directory), `Shape` (what a job's phase says
of its other fields), `Interruption` (a command that was signalled, or a result
"killed", implies that the batch is stopping, because the handler counts first;
and a job that passed its judgement holds no such result), `Reuse` (while a job
may append, the ok rows of its point are of its own call) and `Budget` (what a
job can still cost is within what is reserved for it, and while planning the
loop's `used` covers table and reservations). The module proves, part by part
and action by action, `Init => IInv` and `IInv /\ [Next]_vars => IInv'`; the
refinement follows because the only action that changes `file` is `AppendRow`,
whose row `IInv` shows to be fresh, honest and within the budget. Interrupts,
crashes and uncaught errors are unrestricted in these theorems, so they hold
also where section 5 reports the lock or the step row broken.

`ProjectStoreProofs`, for every set of processes and every value of the other
constants that satisfies `StoreAssumption` (a finite set of points, a positive
cost of a point, no process named "nobody"):

| Theorem | States |
|---|---|
| `TypeCorrect` | `Spec => []TypeOK` |
| `Refinement` | `Spec => ImplementsFactTable`, whatever the processes' kinds |
| `RowsFreshCorrect` | `Spec => []RowsFresh` |
| `RunsKeepBudgetCorrect` | `Spec => []RunsKeepBudget` |
| `RunsReuseOkPointsCorrect` | `Spec => []RunsReuseOkPoints` |

The argument has two halves. `Numbering` needs no project lock: every row's
number and every begun point's is a directory's, and a batch's numbers are past
every directory that exists when it is planned, under the store's lock; so a row
is appended under a new number even when the process planned from old rows. The
other half, `RunsInv`, is about runs only: whoever has read the rows holds
`run.lock` and is the only one that does (`Alone`), so the rows it keeps are the
file's and what it plans from them holds of the file: the budget (`Paid`: what is
recorded and what its batch will still record) and reuse (`Fresh`). A script, or
a call that reads before the lock, does not have `Alone`: `ProjectStore_stale_rows`
(section 5) shows the budget lost there.

Three more of `EvalBatch`'s invariants are beyond `IInv`. `LateInOneStageCorrect`
(`Spec => []LateInOneStage`, in `EvalBatchProofs`, for any number of attempts) needs
`Lateness`: the jobs at work and those that started a command after the interrupt
are together at most `Workers`, because after an interrupt no job is taken up; and
a job that starts or runs a command is still at the one stage its late commands
are of, because none passes the check before another. The other two hold only while
no interrupt breaks a wait outside the `except`, and the same module proves exactly
that:

| Theorem | States |
|---|---|
| `WritesUnderLockCorrect` | `Spec /\ [][~RaiseInUnwinding]_vars => []WritesUnderLock` |
| `StepRowsTrueCorrect` | `Spec /\ [][~RaiseInShutdown]_vars => []StepRowsTrue` |

An interrupt in the pool's own exit (section 5, 1) is the only way to lose the
lock under writers, and one in the shutdown's wait (section 5, seen without a
run) the only way to a wrong step row. The invariants are `Course` (what the
calling thread's place says of the lock and the threads still at work), `Rested`
(behind a wait that was not broken nothing is at work) and `Books` (each job's
recorded flag, its row in the table and the step row agree).

`PointScheduleProofs`, for every set of specs with ids unique in their kind, every
limit, set of values and `StopFrom` (`ScheduleAssumption`):

| Theorem | States |
|---|---|
| `TypeCorrect` | `Spec => []TypeOK` |
| `StopIsSoundCorrect` | `Spec => []StopIsSound` |
| `EveryPointJudgedCorrect` | `PoliciesAgree => (Spec => []EveryPointJudged)` |
| `NothingAfterFailureCorrect` | `Spec => []NothingAfterFailure` |
| `StopperNamedCorrect` | `Spec => []StopperNamed` |

Every order the schedule gives is a bijection on the children (`TypeOK`) that has
the devices first (`OrderKept`; `KindsRule`: devices stop no point without
testbenches, and where testbenches stop a point its devices do too).
`FirstFailure` says that `reason` is the first child of the order whose kind stops
the point and which fails, and is there as soon as one has been passed. What is
left is about one set of children: the child that fails violates, is in the scope
and counts at a corner of the verdict (`Violating` is not empty), so `Incomplete`
gives a failure, and the violation is still there in the whole set, so `Complete`
gives one too. A testbench child that stops a point is the only one of those that
ran that fails, so the verdict's corner is its own and the record names it. That
`Violated` is a corner that violates at all needs the penalties compared: a finite
set of numbers has a largest one. `PoliciesAgree` says which specs cannot raise:
not constraints at the nominal corner with a worst-case objective over two corners
(section 5, 3: TypeError), and not devices alone with corners none of which is
named nominal (IndexError, section 5).

The other modules are proved the same way, each by one inductive invariant, with
`Init => IInv` and one step per action:

| Module, theorem | States | What the invariant adds |
|---|---|---|
| `StageCacheProofs`: `TypeCorrect`, `PaidOnceCorrect`, `SlotsKeptCorrect`, `EntriesWholeCorrect`, `RenameSafeCorrect` | `Spec =>` always the invariant of that name, for any threads, processes, slots and stages | `OneFlight` (a flight has one holder in a process), `Whole`, `Ledger` (what was paid is in an entry or with the flight's holder), `OtherWriter` (an entry that came while this process worked on it is another process's) |
| `FlightWaitersCorrect` | `Spec => FlightWaitersStartNothing` | `WaitersRest`: a thread that waited for a flight across an interrupt stops at its next check |
| `LibraryStoreProofs`: `TypeCorrect`, `MeasuredOnceCorrect` | for any parts, readers and frequencies | `Locked` (a measured file's lock is held by its reader alone), `ShapeOf` |
| `StoreMigratedCorrect` | `Spec => []StoreMigrated`, whatever dies and whatever overlaps | `EitherPin` and `Stamps` (rows and pins bear one of the generation's two stamps), `Moves` (an entry is where it was or where it belongs), `Plans` (what is planned is all that is left to do), `Races` (a settled pin is new and nobody holds a text with the old one, unless there was a race), `EndedOf` |
| `RemoteCommandProofs`: `TypeCorrect`, `CutIsToldCorrect` | for any bounds on interrupts and broken connections | `Host` (wrapper, leader, children and record in step), `Ending` and `Seen` (what the end script found stays so), `Quoted` |

`SignoffProofs`, for any points, corners and scenarios (`CampaignAssumption`):

| Theorem | States | What the invariant adds |
|---|---|---|
| `NothingAfterTornCorrect` | `Spec => NothingAfterTorn` | `TornSafe`: a run behind torn rows is idle or before its first read; an advise under way has whole files |
| `TypeCorrect`, `SignedOffHoldsCorrect`, `LimitsAddUpCorrect` | `Spec =>` always `TypeOK`, `SignedOffHolds`, `LimitsAddUp` | `Core`, below |
| `DesignKeptCorrect` | `OneDesignPerStep => (Spec => []DesignKept)` | `SizedAlike`, `SizedOnce` |
| `AdviceAppliedCorrect` | `PlainHistories => (Spec => []AdviceApplied)` | `Log`, `Stands`, `Pending`, `Histories` |
| `RoundsTracedCorrect` | `RerunsAlike => (Spec => []RoundsTraced)` | `Traced` |

`Core` is what every step keeps: the types of the state (`Typed`), where a run
stands and under which limits it searches there (`Course`), that two rows which
measured one corner of one point agree (`Consistent`: the simulator gives a value
once, and only what it gave), that a re-check has its points at every corner under
the limits as written (`Rechecked`), and that the limits of each round in memory
are the written ones moved by every miss before it, inside them and not equal to
them (`Chained`). The sums are cardinalities of sets of pairs, so that one more
round adds one more set. `SignedOffHolds` follows because "feasible" is said only
of a row in `checked` and because what is known of a corner never changes.

`AdviceApplied` is about a file that grows between batches. Appending a row to
`advice.jsonl` can change `in_effect` only for history sizes from that row's
`since` on (`InEffectAppended`), a batch was handed fewer rows than there are once
one of its own has landed (`Histories`), and nothing moves between the two steps of
an advise (`Pending`), so no advice reaches back to a row. The hypothesis
`PlainHistories` says where the history an advice is given at (`HistorySize`, at
the search's corner) is the one batches are handed: `metric_gp`, or recipes
without a re-check; and that the limits of a tightened round are never the user's.
Outside of it `in_effect` can give another advice back (section 5).
`OneDesignPerStep` likewise: every call sizes a design alike, or a step's name has
one problem.

`Traced` says that a rerun has no choice. A row of round n + 1 is there only if
the rows alone say so (`Earned`): round n is complete (no call searches it
further), each of its winners is measured at every corner under the limits as
written, none is feasible, and the least of them by penalty and number misses
something. Two rows that measured one point everywhere show the same, so a round
earns one next round only (`EarnedOnce`) and keeps it, whatever lands later
(`EarnedKept`); the limits a call computes for round n + 1 are therefore those of
the rows that are there, and a call that ends its rounds at n finds none. The
hypothesis `RerunsAlike` says of a full recipe without failures and with rounds
that its limits are not edited, that no search is left short while points are
free, and that no call has a budget above one a re-check was made at. TLC refutes
`FileTiesRows` when any one of the three is dropped from `Full`.

The scenarios of `Signoff_campaigns` satisfy all three hypotheses, so the runs
check instances of the theorems.

Assumptions are the modules' named `ASSUME`s, the hypotheses the theorems
state, and no others. `LibraryAssumption` has one premise of the program's: parts
with one old stamp get one new one, because the old stamp names the process file
and that file has not changed (`migrate_store.py`, module docstring).
`TableLemmas` holds what several modules need of finite
sets and sequences.

Every invariant and every action property of a passing run is a theorem, so only
the liveness properties (`CallEnds`, `BatchesEnd`, `RunEnds`, `ReadersEnd`) are
model-checked and not proved: liveness under fairness and ENABLED are beyond the
prover. No module
declares a RECURSIVE operator; sums are cardinalities of sets where a theorem
needs them.

## 5. Disagreements between the code and what it says

1. `EvalBatch_error_interrupt`: an ordinary error of a job takes the calling
   thread to the pool's own exit, outside the `except KeyboardInterrupt`
   (`engine.py:288-297`). One Ctrl-C there leaves `with store.lock()` while
   workers still append, against "One writer per project: `with store.lock():`
   holds it" (`store.py:116`).
2. `StageCache_slot_interrupt`: a thread that waits for an EMX slot when Ctrl-C
   comes starts its EMX run afterwards (`em_chain.py:241`), against "After
   Ctrl-C, `sim.evaluate` starts no further point, stage or command"
   (`README.md:88-89`). The wait for a flight is checked (`engine.py:385`), the
   wait for a slot is not.
3. `PointSchedule_mixed_policy`: with `constraints: nominal` and `objective:
   worst_case`, a violation at a non-nominal corner makes `aggregate` compare
   None with a number (`corner.py:107`, TypeError): the batch aborts and the
   point is never recorded, although "the corner is still needed for the
   worst-case objective" (`docs/refactor/T17_8_SCHEDULE_SPEC.md:79-80`).
4. `ProjectStore_stale_rows`: `ic-opt call opt.optimize` reads the rows before
   `run.lock` and keeps them (`store.py:53`, `cli.py:291`, `optimize.py:240,
   279`); a call started while another ends exceeds `budget.max_simulations`,
   which "counts every simulation the project's store holds"
   (`README.md:135-136`). The same gap makes it simulate ok points again. A
   script that calls `sim.evaluate` has it between `evaluate.py:137` and
   `engine.py:231`. `ic-opt run` does not: it reads after its lock.

Seen while modelling, without a run:

- A second Ctrl-C during the shutdown's wait writes the step row of an
  interrupted batch while a job can still be recorded (`engine.py:293-296`).
- Two processes that finish one cache entry between each other's check and rename
  make the later rename raise (`engine.py:391-394`), which aborts its batch.
- A run of devices alone whose spec has corners, none of them named `nominal`:
  no corner is present, and `aggregate` raises IndexError at `corner.py:126`, which
  aborts the batch before the point is recorded.
- A strict constraint met exactly at its limit counts as met
  (`objective.py:165-167`).
- With a strategy other than `metric_gp` and rows of another `--corners` in the
  store, an advice's `since` counts the rows of the run's corners and a batch's
  history size all of them (`optimize.py`, `advice.py:77`), so `in_effect` may
  give a batch another advice than it had. `AdviceApplied` is checked where the
  two agree.
- `steps.json` is keyed by the step's name alone: a spec edited, run, and edited
  back finds the other problem's size under the step's name if the calls' totals
  differed. `DesignKept` is checked with one total in `Edited`.
- The sentence of point 2, "After Ctrl-C, `sim.evaluate` starts no further point,
  stage or command", holds of points and stages begun after it but not of commands.
  An OCEAN that the Ctrl-C kills is started again by the same worker, up to
  `OCEAN_ATTEMPTS` times (`spectre_chain.py:187-196`; `Spectre.run`, 144-148, after
  a socket failure), and a point that finished has its scratch files removed by an
  `rm -rf` through the executor (`engine.py:448-451`). `LateInOneStage` says what
  does hold: those are the only late commands, in at most one stage per worker (the
  transfers of such a stage among them).
- Two migrations of parts of different generations at once each write the
  manifest they read (`_repin`, `migrate_store.py:369-376`), and one pin is lost:
  that of the migration that wrote first, and of the parts that share its stamp, when
  the other one had read the manifest's old text before. `StoreMigrated` allows the lost
  pin in that order of events (`raced`) and in no other; without that clause the run
  has a counterexample. Migrating the part again, alone, repoints it. Within one
  generation no overlap loses a pin.
- A migration repoints every pin that bears its part's old stamp: another part that
  shares it selects no rows until its own are restamped.
- A crash that cuts a line of `observations.jsonl` or `advice.jsonl` of only its
  newline leaves a line that parses: the next run raises nothing, appends its first
  row to that line (`store.py:63-65`), and then nobody can read it. `Campaign`'s torn
  lines are those that do not parse.
- A later call with a larger budget searches a round of signoff further, which may
  change its winners and so tighten another way: `signoff_rounds.json` then gives
  the next round limits its earlier rows were not searched under (they are kept
  under the step's name, as another problem's). `RoundsTraced` is checked and
  proved where reruns are alike (section 4).
- "an SSH host's command that Ctrl-C cut off gets the same extra ssh"
  (`README.md:87-88`) does not hold of a command run in the main thread (the
  doctor's probes, the checksum of EMX's files), whose KeyboardInterrupt passes
  `SshExecutor.run` by, nor of an interrupt counted before the call notes the
  count whose signal reaches the client it then starts. `CutIsTold` speaks of the
  interrupts the call notices.
- On a host without `setsid` the error may say "already ended" while children of
  the command run on; `CutIsTold` speaks of hosts that have it.

## 6. Not modelled, and why

Numerics (suggesters, library models and queries, pcells, S-parameters), text
(netlists, OCEAN, parsing, digest, report) and transfers hold no state between
calls: the models take their results as any result. Observation numbers are
numbers, so the text order of `obs_9999` and `obs_10000` (`store.py:59`) is out
of the models' sight. `PointSchedule` leaves out a testbench and a device with one
id, whose children's keys collide, and a run over some of the spec's corners. A line torn by a crash is a line of `Campaign`; elsewhere a
row is appended whole. What a strategy proposes is any set of free points, what
an advice narrows is left out of it, and limits are numbers, not text. Commands
without a deadline, transfers, and processes that leave their group are not in
`RemoteCommand`; a library's unpinned parts, its second cache directory and what
its files hold not in `LibraryStore`. Windows is nowhere.
The host's limits (`workers_for`) are the constant `Workers`; identities
(`Spec.fingerprint`, the pipeline's) are those of one problem, so that two points
are reusable for each other exactly when they are equal. `PROJECT.json` lists
every component with its status and every hazard with the properties that cover
it or the reason why none does.

The largest sources the models leave aside, `library/query.py`, `digest.py`,
the pcell generators, the suggesters and the studies under `docs/`, are of that
first kind: they compute a result from their arguments, in floating point or in
text, and nothing they do is seen by another process or survives a crash.

## 7. What could come next

1. `lib_refine` and `lib_tap`, whose files several recipes share, and the
   transfers of the SSH executor (`put`, `get` with their temporary names).
2. `RemoteCommand` as the command of `StageCache` and `EvalBatch`, by refinement.
