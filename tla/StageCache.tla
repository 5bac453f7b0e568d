------------------------------ MODULE StageCache ------------------------------
(***************************************************************************)
(* The cache of the point-level stages (eval/engine.py, _run_stages,       *)
(* _flight and _run_cached) and the EMX slots (stages/em_chain.py, Emx):   *)
(* worker threads of one or more processes going through their point's     *)
(* stages.  A stage with a fingerprint is served from the entry of its     *)
(* fingerprint; without one it runs every time.  One flight per entry and  *)
(* process lets the first thread work and the others wait; an EMX run      *)
(* takes a slot inside its flight.  A result is written aside and renamed. *)
(*                                                                         *)
(* A thread is a job; what EvalBatch abstracts to one command or a cache   *)
(* hit is spelled out here, up to the end of the point-level stages.       *)
(* Left out: what a result holds (one file and the .complete mark), and    *)
(* staging directories a crash or a failed save leaves behind (nothing     *)
(* reads them).                                                            *)
(***************************************************************************)
EXTENDS Integers, Sequences, FiniteSets

CONSTANTS
    Process,     \* processes on the project's store
    Job,         \* worker threads
    ProcessOf,   \* the process of each thread
    Entry,       \* cache entries: one per stage and fingerprint
    Plain,       \* stages without a fingerprint
    Work,        \* the stages of each thread's point, in order: entries and plain stages
    Slots,       \* em.parallel_jobs: commands at once in one process; 0 when unset
    MaxCrashes,  \* bound: deaths of a process
    MaxBatches   \* bound: batches a process runs

ASSUME CacheAssumption ==
    /\ ProcessOf \in [Job -> Process]
    /\ Entry \cap Plain = {} /\ Work \in [Job -> Seq(Entry \cup Plain)]
    /\ Slots \in Nat /\ MaxCrashes \in Nat /\ MaxBatches \in Nat
    /\ IsFiniteSet(Job)

VARIABLES
    entry,    \* the files of each entry's directory; {} when there is none
    staging,  \* the files of each thread's staging directory
    phase,    \* where each thread is
    at,       \* the stage it is at
    stopping, \* the processes interrupted in their batch
    waitedFor, \* history: the threads that waited for a flight, or for a slot, when the interrupt came
    paid,     \* history: per process and entry, results worked out and not lost again
    crashes,
    batches

vars == <<entry, staging, phase, at, stopping, waitedFor, paid, crashes, batches>>

Files == {"result", ".complete"}

\* What a thread waits for.
Wait == {"flight", "slot"}

\* What a thread does between taking a flight and letting it go.
Flying == {"holding", "slot", "running", "made", "saved", "marked", "renaming"}
Over == {"done", "failed", "raised", "interrupted", "dead"}
Phase == {"next", "plain", "flight"} \cup Flying \cup Over

AtEntry(j) == at[j] <= Len(Work[j]) /\ Work[j][at[j]] \in Entry
EntryOf(j) == Work[j][at[j]]

JobsOf(p) == {j \in Job : ProcessOf[j] = p}
Stopping(j) == ProcessOf[j] \in stopping

\* Mutant: a stage that fails keeps its flight.
HeldByFailed(j, p, e) == ProcessOf[j] = p /\ phase[j] \in Flying \cup {"failed"} /\ AtEntry(j) /\ EntryOf(j) = e

\* The thread holds process p's flight of entry e.
Holds(j, p, e) == ProcessOf[j] = p /\ phase[j] \in Flying /\ AtEntry(j) /\ EntryOf(j) = e

\* Threads of p whose command runs.
Running(p) == {j \in JobsOf(p) : phase[j] = "running"}

Init ==
    /\ entry = [e \in Entry |-> {}]
    /\ staging = [j \in Job |-> {}]
    /\ phase = [j \in Job |-> "next"] /\ at = [j \in Job |-> 1]
    /\ stopping = {} /\ waitedFor = [what \in Wait |-> {}]
    /\ paid = [p \in Process |-> [e \in Entry |-> 0]]
    /\ crashes = 0 /\ batches = [p \in Process |-> 1]

To(j, next) == phase' = [phase EXCEPT ![j] = next]

NextStage(j) == /\ To(j, "next") /\ at' = [at EXCEPT ![j] = at[j] + 1]

----------------------------------------------------------------------------
(* _run_stages *)

PointStagesDone(j) ==
    /\ phase[j] = "next" /\ at[j] > Len(Work[j])
    /\ To(j, "done")
    /\ UNCHANGED <<entry, staging, at, stopping, waitedFor, paid, crashes, batches>>

StageInterrupted(j) ==
    /\ phase[j] = "next" /\ at[j] <= Len(Work[j]) /\ Stopping(j)
    /\ To(j, "interrupted")
    /\ UNCHANGED <<entry, staging, at, stopping, waitedFor, paid, crashes, batches>>

RunPlain(j) ==
    /\ phase[j] = "next" /\ at[j] <= Len(Work[j]) /\ ~Stopping(j)
    /\ ~AtEntry(j)
    /\ To(j, "plain")
    /\ UNCHANGED <<entry, staging, at, stopping, waitedFor, paid, crashes, batches>>

PlainEnds(j) ==
    /\ phase[j] = "plain"
    /\ NextStage(j)
    /\ UNCHANGED <<entry, staging, stopping, waitedFor, paid, crashes, batches>>

\* StageFailure, CommandTimeout: the point fails at this stage.
PlainFails(j) ==
    /\ phase[j] = "plain"
    /\ To(j, "failed")
    /\ UNCHANGED <<entry, staging, at, stopping, waitedFor, paid, crashes, batches>>

AskFlight(j) ==
    /\ phase[j] = "next" /\ at[j] <= Len(Work[j]) /\ ~Stopping(j)
    /\ AtEntry(j)
    /\ To(j, "flight")
    /\ UNCHANGED <<entry, staging, at, stopping, waitedFor, paid, crashes, batches>>

----------------------------------------------------------------------------
(* _run_cached *)

\* Mutant: no lock at all.
TakeFlightAnyway(j) ==
    /\ phase[j] = "flight"
    /\ To(j, "holding")
    /\ UNCHANGED <<entry, staging, at, stopping, waitedFor, paid, crashes, batches>>

TakeFlight(j) ==
    /\ phase[j] = "flight"
    /\ \A k \in Job : ~Holds(k, ProcessOf[j], EntryOf(j))
    /\ To(j, "holding")
    /\ UNCHANGED <<entry, staging, at, stopping, waitedFor, paid, crashes, batches>>

Complete(e) == ".complete" \in entry[e]

\* Mutant: a hit keeps its flight.
HitKeepsFlight(j) ==
    /\ phase[j] = "holding" /\ Complete(EntryOf(j))
    /\ at' = [at EXCEPT ![j] = at[j] + 1]
    /\ UNCHANGED <<entry, staging, phase, stopping, waitedFor, paid, crashes, batches>>

Hit(j) ==
    /\ phase[j] = "holding" /\ Complete(EntryOf(j))
    /\ NextStage(j)
    /\ UNCHANGED <<entry, staging, stopping, waitedFor, paid, crashes, batches>>

\* "interrupted while it waited: the work does not start".
MissInterrupted(j) ==
    /\ phase[j] = "holding" /\ ~Complete(EntryOf(j)) /\ Stopping(j)
    /\ To(j, "interrupted")
    /\ UNCHANGED <<entry, staging, at, stopping, waitedFor, paid, crashes, batches>>

\* Mutant: the interrupt not looked at again after the wait.
MissUnchecked(j) ==
    /\ phase[j] = "holding" /\ ~Complete(EntryOf(j))
    /\ To(j, "slot")
    /\ UNCHANGED <<entry, staging, at, stopping, waitedFor, paid, crashes, batches>>

Miss(j) ==
    /\ phase[j] = "holding" /\ ~Complete(EntryOf(j)) /\ ~Stopping(j)
    /\ To(j, "slot")
    /\ UNCHANGED <<entry, staging, at, stopping, waitedFor, paid, crashes, batches>>

\* Mutant: one semaphore per device's stage instead of one shared by all.
TakeSlotOfEntry(j) ==
    /\ phase[j] = "slot"
    /\ Slots = 0 \/ Cardinality({k \in Running(ProcessOf[j]) : EntryOf(k) = EntryOf(j)}) < Slots
    /\ To(j, "running")
    /\ UNCHANGED <<entry, staging, at, stopping, waitedFor, paid, crashes, batches>>

\* Emx.run: the semaphore every device's stage of the process shares, then the command.
TakeSlot(j) ==
    /\ phase[j] = "slot"
    /\ Slots = 0 \/ Cardinality(Running(ProcessOf[j])) < Slots
    /\ To(j, "running")
    /\ UNCHANGED <<entry, staging, at, stopping, waitedFor, paid, crashes, batches>>

\* The command's result is there; its slot is let go.
RunEnds(j) ==
    /\ phase[j] = "running"
    /\ To(j, "made")
    /\ paid' = [paid EXCEPT ![ProcessOf[j]][EntryOf(j)] = @ + 1]
    /\ UNCHANGED <<entry, staging, at, stopping, waitedFor, crashes, batches>>

\* The stage fails, whatever the reason: slot and flight are let go, nothing is written.
RunFails(j) ==
    /\ phase[j] = "running"
    /\ To(j, "failed")
    /\ UNCHANGED <<entry, staging, at, stopping, waitedFor, paid, crashes, batches>>

Lost(j) == paid' = [paid EXCEPT ![ProcessOf[j]][EntryOf(j)] = @ - 1]

\* Mutant: the mark and the result written in the entry's own directory.
SaveInPlace(j) ==
    /\ phase[j] = "made"
    /\ entry' = [entry EXCEPT ![EntryOf(j)] = {".complete"}]
    /\ staging' = [staging EXCEPT ![j] = {"result"}]
    /\ To(j, "saved")
    /\ UNCHANGED <<at, stopping, waitedFor, paid, crashes, batches>>

Save(j) ==
    /\ phase[j] = "made"
    /\ staging' = [staging EXCEPT ![j] = {"result"}]
    /\ To(j, "saved")
    /\ UNCHANGED <<entry, at, stopping, waitedFor, paid, crashes, batches>>

\* Writing fails (a full disk); the staging directory is left.
SaveRaises(j) ==
    /\ phase[j] = "made"
    /\ To(j, "raised") /\ Lost(j)
    /\ UNCHANGED <<entry, staging, at, stopping, waitedFor, crashes, batches>>

Mark(j) ==
    /\ phase[j] = "saved"
    /\ staging' = [staging EXCEPT ![j] = @ \cup {".complete"}]
    /\ To(j, "marked")
    /\ UNCHANGED <<entry, at, stopping, waitedFor, paid, crashes, batches>>

\* Another process finished first: the first writer is kept.
Discard(j) ==
    /\ phase[j] = "marked" /\ Complete(EntryOf(j))
    /\ staging' = [staging EXCEPT ![j] = {}]
    /\ NextStage(j)
    /\ UNCHANGED <<entry, stopping, waitedFor, paid, crashes, batches>>

Checked(j) ==
    /\ phase[j] = "marked" /\ ~Complete(EntryOf(j))
    /\ To(j, "renaming")
    /\ UNCHANGED <<entry, staging, at, stopping, waitedFor, paid, crashes, batches>>

Rename(j) ==
    /\ phase[j] = "renaming" /\ entry[EntryOf(j)] = {}
    /\ entry' = [entry EXCEPT ![EntryOf(j)] = staging[j]]
    /\ staging' = [staging EXCEPT ![j] = {}]
    /\ NextStage(j)
    /\ UNCHANGED <<stopping, waitedFor, paid, crashes, batches>>

\* The entry appeared since the check: a directory that holds files is not replaced (OSError).
RenameRaises(j) ==
    /\ phase[j] = "renaming" /\ entry[EntryOf(j)] # {}
    /\ To(j, "raised")
    /\ UNCHANGED <<entry, staging, at, stopping, waitedFor, paid, crashes, batches>>

Step(j) ==
    \/ PointStagesDone(j) \/ StageInterrupted(j) \/ RunPlain(j) \/ PlainEnds(j) \/ PlainFails(j)
    \/ AskFlight(j) \/ TakeFlight(j) \/ Hit(j) \/ MissInterrupted(j) \/ Miss(j) \/ TakeSlot(j)
    \/ RunEnds(j) \/ RunFails(j) \/ Save(j) \/ SaveRaises(j) \/ Mark(j) \/ Discard(j) \/ Checked(j)
    \/ Rename(j) \/ RenameRaises(j)

----------------------------------------------------------------------------
(* The processes *)

WaitsFor(what, j) ==
    /\ phase[j] = what
    /\ what = "slot" => Slots # 0 /\ Cardinality(Running(ProcessOf[j])) >= Slots

\* Ctrl-C in process p: its batch stops (engine.run, stopping).
Interrupt(p) ==
    /\ p \notin stopping
    /\ \E j \in JobsOf(p) : phase[j] \notin Over
    /\ stopping' = stopping \cup {p}
    /\ waitedFor' = [what \in Wait |-> waitedFor[what] \cup {j \in JobsOf(p) : WaitsFor(what, j)}]
    /\ UNCHANGED <<entry, staging, phase, at, paid, crashes, batches>>

\* Process p dies: its locks and semaphore go with it, the directories stay.
Crash(p) ==
    /\ crashes < MaxCrashes
    /\ \E j \in JobsOf(p) : phase[j] \notin Over
    /\ crashes' = crashes + 1
    /\ phase' = [j \in Job |-> IF ProcessOf[j] = p THEN "dead" ELSE phase[j]]
    /\ paid' = [paid EXCEPT ![p] = [e \in Entry |->
           paid[p][e] - Cardinality({j \in JobsOf(p) : phase[j] \in {"made", "saved", "marked", "renaming"}
                                                       /\ EntryOf(j) = e})]]
    /\ UNCHANGED <<entry, staging, at, stopping, waitedFor, batches>>

\* The same points asked for again, in the same process or the one started after it.
Again(p) ==
    /\ batches[p] < MaxBatches
    /\ \A j \in JobsOf(p) : phase[j] \in Over
    /\ batches' = [batches EXCEPT ![p] = @ + 1]
    /\ phase' = [j \in Job |-> IF ProcessOf[j] = p THEN "next" ELSE phase[j]]
    /\ at' = [j \in Job |-> IF ProcessOf[j] = p THEN 1 ELSE at[j]]
    /\ staging' = [j \in Job |-> IF ProcessOf[j] = p THEN {} ELSE staging[j]]
    /\ stopping' = stopping \ {p} /\ waitedFor' = [what \in Wait |-> waitedFor[what] \ JobsOf(p)]
    /\ UNCHANGED <<entry, paid, crashes>>

Next ==
    \/ \E j \in Job : Step(j)
    \/ \E p \in Process : Interrupt(p) \/ Crash(p) \/ Again(p)

Spec == Init /\ [][Next]_vars

\* Threads are scheduled and every command ends (em.timeout_s).
FairSpec == Spec /\ \A j \in Job : WF_vars(Step(j))

----------------------------------------------------------------------------
(* Properties *)

TypeOK ==
    /\ entry \in [Entry -> SUBSET Files] /\ staging \in [Job -> SUBSET Files]
    /\ phase \in [Job -> Phase]
    /\ at \in [Job -> Nat \ {0}]
    /\ \A j \in Job : phase[j] \in Flying \cup {"flight"} => AtEntry(j)
    /\ stopping \subseteq Process /\ waitedFor \in [Wait -> SUBSET Job]
    /\ paid \in [Process -> [Entry -> Int]]
    /\ crashes \in Nat /\ batches \in [Process -> Nat]

\* One process works a fingerprint out at most once: again only after the result was lost to a crash or a failed write
\* ("Points of one batch with the same fingerprint do the work once").
PaidOnce == \A p \in Process, e \in Entry : paid[p][e] <= 1

\* The commands of the stages that share the slots never exceed them, however runs fail (em.parallel_jobs).
SlotsKept == Slots # 0 => \A p \in Process : Cardinality(Running(p)) <= Slots

\* An entry that answers is whole, through crashes at any point of the writing: what is marked complete holds its result.
EntriesWhole == \A e \in Entry : Complete(e) => "result" \in entry[e]

\* The flight makes the rename safe: a thread finds an entry that appeared after its check only when another process,
\* which has flights of its own, worked the same fingerprint out (engine.py, _run_cached).
RenameSafe ==
    \A j \in Job : phase[j] = "renaming" /\ entry[EntryOf(j)] # {} =>
        \E p \in Process \ {ProcessOf[j]} : paid[p][EntryOf(j)] > 0

AtWork == {"running", "made", "saved", "marked", "renaming"}

\* A thread that waited for another one's flight when the interrupt came starts no work ("interrupted while it waited: the
\* work does not start").
FlightWaitersStartNothing == \A j \in waitedFor["flight"] : phase[j] \notin AtWork

\* Neither does one that waited for a slot ("After Ctrl-C, sim.evaluate starts no further point, stage or command").
SlotWaitersStartNothing == \A j \in waitedFor["slot"] : phase[j] \notin AtWork

\* Every batch ends, whatever fails and whoever waits for whom: no flight or slot is kept by a thread that is done.
BatchesEnd == \A p \in Process : []<>(\A j \in JobsOf(p) : phase[j] \in Over)
=============================================================================
