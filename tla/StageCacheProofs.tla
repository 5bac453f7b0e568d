--------------------------- MODULE StageCacheProofs ---------------------------
(***************************************************************************)
(* Theorems about StageCache, for every crew of threads and processes,     *)
(* every list of stages, any number of slots and of crashes.               *)
(***************************************************************************)
EXTENDS StageCache, FiniteSetTheorems, TLAPS

----------------------------------------------------------------------------
(* The inductive invariant *)

\* A result is worked out and is not in its entry yet.
Carried == {"made", "saved", "marked", "renaming"}
Carries(j, p, e) == ProcessOf[j] = p /\ phase[j] \in Carried /\ EntryOf(j) = e

\* A process lets one thread at a time fly to an entry.
OneFlight == \A j, k \in Job :
    /\ phase[j] \in Flying /\ phase[k] \in Flying
    /\ ProcessOf[j] = ProcessOf[k] /\ EntryOf(j) = EntryOf(k)
    => j = k

\* What is renamed is whole, and nothing else is written where an entry goes.
Whole ==
    /\ \A e \in Entry : entry[e] \in {{}, Files}
    /\ \A j \in Job : /\ phase[j] = "saved" => staging[j] = {"result"}
                      /\ phase[j] \in {"marked", "renaming"} => staging[j] = Files

\* A result paid for is carried by a thread, or the entry is there; who is about to work has not paid.
Ledger == \A p \in Process, e \in Entry :
    /\ paid[p][e] \in {0, 1}
    /\ \A j \in Job : Carries(j, p, e) => paid[p][e] = 1
    /\ \A j \in Job : ProcessOf[j] = p /\ phase[j] \in {"slot", "running"} /\ EntryOf(j) = e => paid[p][e] = 0
    /\ paid[p][e] = 1 /\ (\A j \in Job : ~Carries(j, p, e)) => entry[e] = Files

\* The process paid for the entry and none of its threads carries the result any more.
Settled(p, e) == paid[p][e] = 1 /\ \A j \in Job : ~Carries(j, p, e)

\* An entry that appears before a thread that is to rename is another process's.
OtherWriter == \A j \in Job :
    phase[j] = "renaming" /\ entry[EntryOf(j)] # {} => \E p \in Process \ {ProcessOf[j]} : Settled(p, EntryOf(j))

\* A thread that waited for a flight when the interrupt came takes no slot.
WaitersRest == \A j \in waitedFor["flight"] : Stopping(j) /\ phase[j] \notin AtWork \cup {"slot", "plain"}

IInv == TypeOK /\ OneFlight /\ Whole /\ Ledger /\ SlotsKept /\ OtherWriter /\ WaitersRest

----------------------------------------------------------------------------
(* The facts the steps share *)

LEMMA Initially == Init => IInv
<1> SUFFICES ASSUME Init PROVE IInv
    OBVIOUS
<1>1. TypeOK BY CacheAssumption DEF Init, TypeOK, Phase, Flying, Over, Wait, Files
<1>2. \A j \in Job : phase[j] = "next" BY DEF Init
<1>3. OneFlight BY <1>2 DEF OneFlight, Flying
<1>4. Whole BY <1>2 DEF Init, Whole
<1>5. Ledger BY <1>2 DEF Init, Ledger, Carries, Carried
<1>6. SlotsKept
  <2>1. \A p \in Process : Running(p) = {} BY <1>2 DEF Running, JobsOf
  <2>2. \A p \in Process : Cardinality(Running(p)) = 0 BY <2>1, FS_EmptySet
  <2> QED BY <2>2, CacheAssumption DEF SlotsKept
<1>7. OtherWriter /\ WaitersRest BY <1>2 DEF Init, OtherWriter, WaitersRest, Wait
<1> QED BY <1>1, <1>3, <1>4, <1>5, <1>6, <1>7 DEF IInv

\* The files of a complete entry.
LEMMA CompleteIsWhole ==
    ASSUME Whole, NEW e \in Entry
    PROVE  /\ Complete(e) <=> entry[e] = Files
           /\ entry[e] # {} <=> entry[e] = Files
BY DEF Whole, Complete, Files

LEMMA RunningFinite ==
    ASSUME NEW p
    PROVE  IsFiniteSet(Running(p)) /\ IsFiniteSet(Running(p)') /\ Cardinality(Running(p)) \in Nat
<1>1. Running(p) \subseteq Job /\ Running(p)' \subseteq Job BY DEF Running, JobsOf
<1> QED BY <1>1, CacheAssumption, FS_Subset, FS_CardinalityType

\* Commands that end or go on leave the slots kept.
LEMMA FewerRun ==
    ASSUME SlotsKept, \A p \in Process : Running(p)' \subseteq Running(p)
    PROVE  SlotsKept'
<1> SUFFICES ASSUME Slots # 0, NEW p \in Process
             PROVE  Cardinality(Running(p)') <= Slots
    BY DEF SlotsKept
<1>1. Cardinality(Running(p)') <= Cardinality(Running(p)) BY RunningFinite, FS_Subset
<1>2. Cardinality(Running(p)') \in Nat BY RunningFinite, FS_CardinalityType
<1> QED BY <1>1, <1>2, RunningFinite, CacheAssumption DEF SlotsKept

\* A thread's step leaves the others where they are.
Moves(j, to) ==
    /\ phase' = [phase EXCEPT ![j] = to]
    /\ at' = at \/ at' = [at EXCEPT ![j] = at[j] + 1]

LEMMA Others ==
    ASSUME TypeOK, NEW j \in Job, NEW to, Moves(j, to)
    PROVE  /\ phase'[j] = to
           /\ \A k \in Job \ {j} : phase'[k] = phase[k] /\ EntryOf(k)' = EntryOf(k) /\ AtEntry(k)' = AtEntry(k)
           /\ at' = at => EntryOf(j)' = EntryOf(j) /\ AtEntry(j)' = AtEntry(j)
BY DEF TypeOK, Moves, EntryOf, AtEntry

\* A step that writes no file, works out and loses nothing.
Quiet(j, to) == Moves(j, to) /\ UNCHANGED <<entry, staging, stopping, waitedFor, paid, crashes, batches>>

LEMMA QuietKeeps ==
    ASSUME IInv, NEW j \in Job, NEW to \in Phase, Quiet(j, to),
           to \in Flying \cup {"flight"} => at' = at /\ AtEntry(j),
           to \in Flying /\ phase[j] \notin Flying => \A k \in Job : ~Holds(k, ProcessOf[j], EntryOf(j)),
           to = "slot" => ~Complete(EntryOf(j)) /\ phase[j] = "holding",
           to = "running" => phase[j] = "slot" /\ (Slots = 0 \/ Cardinality(Running(ProcessOf[j])) < Slots),
           to \in Carried \cup {"saved", "marked"} => to = "renaming" /\ phase[j] = "marked" /\ ~Complete(EntryOf(j)),
           phase[j] \in Carried => to = "renaming" \/ entry[EntryOf(j)] # {},
           j \in waitedFor["flight"] => to \notin AtWork \cup {"slot", "plain"}
    PROVE  IInv'
<1>0. TypeOK /\ OneFlight /\ Whole /\ Ledger /\ SlotsKept /\ OtherWriter /\ WaitersRest
    BY DEF IInv
<1>1. UNCHANGED <<entry, staging, stopping, waitedFor, paid, crashes, batches>> /\ Moves(j, to)
    BY DEF Quiet
<1>2. /\ phase'[j] = to
      /\ \A k \in Job \ {j} : phase'[k] = phase[k] /\ EntryOf(k)' = EntryOf(k) /\ AtEntry(k)' = AtEntry(k)
      /\ at' = at => EntryOf(j)' = EntryOf(j) /\ AtEntry(j)' = AtEntry(j)
    BY <1>0, <1>1, Others
<1>3. TypeOK'
  <2>1. phase' \in [Job -> Phase] BY <1>0, <1>1 DEF TypeOK, Moves
  <2>2. at' \in [Job -> Nat \ {0}] BY <1>0, <1>1 DEF TypeOK, Moves
  <2>3. \A k \in Job : phase'[k] \in Flying \cup {"flight"} => AtEntry(k)' BY <1>0, <1>2 DEF TypeOK
  <2> QED BY <1>0, <1>1, <2>1, <2>2, <2>3 DEF TypeOK
<1>4. OneFlight'
  <2> SUFFICES ASSUME NEW k \in Job, NEW l \in Job, phase'[k] \in Flying, phase'[l] \in Flying,
                      ProcessOf[k] = ProcessOf[l], EntryOf(k)' = EntryOf(l)', k # l
               PROVE  FALSE
      BY DEF OneFlight
  <2>1. CASE k # j /\ l # j BY <2>1, <1>0, <1>2 DEF OneFlight
  <2>2. ASSUME NEW m \in Job \ {j}, phase'[m] \in Flying, phase'[j] \in Flying,
               ProcessOf[m] = ProcessOf[j], EntryOf(m)' = EntryOf(j)'
        PROVE  FALSE
    <3>1. phase[m] \in Flying /\ EntryOf(m) = EntryOf(j) BY <2>2, <1>2
    <3>2. phase[j] \notin Flying BY <3>1, <2>2, <1>0 DEF OneFlight
    <3>3. Holds(m, ProcessOf[j], EntryOf(j)) BY <3>1, <2>2, <1>0 DEF Holds, TypeOK
    <3> QED BY <3>2, <3>3, <2>2, <1>2
  <2> QED BY <2>1, <2>2
<1>5. Whole'
  <2>1. \A k \in Job : /\ phase'[k] = "saved" => staging[k] = {"result"}
                       /\ phase'[k] \in {"marked", "renaming"} => staging[k] = Files
      BY <1>0, <1>2 DEF Whole, Carried
  <2> QED BY <1>0, <1>1, <2>1 DEF Whole
\* No other thread carries or is about to work the result the thread carries.
<1>6. Ledger'
  <2> SUFFICES ASSUME NEW p \in Process, NEW e \in Entry
               PROVE  /\ \A k \in Job : Carries(k, p, e)' => paid[p][e] = 1
                      /\ \A k \in Job : ProcessOf[k] = p /\ phase'[k] \in {"slot", "running"} /\ EntryOf(k)' = e
                                        => paid[p][e] = 0
                      /\ paid[p][e] = 1 /\ (\A k \in Job : ~Carries(k, p, e)') => entry[e] = Files
      BY <1>0, <1>1 DEF Ledger
  <2>1. \A k \in Job : Carries(k, p, e)' => Carries(k, p, e)
      BY <1>2 DEF Carries, Carried, Flying
  <2>2. \A k \in Job : Carries(k, p, e) => Carries(k, p, e)' \/ entry[e] = Files
    <3>1. ASSUME Carries(j, p, e), to # "renaming" PROVE entry[e] = Files
      BY <3>1, <1>0, CompleteIsWhole DEF Carries
    <3>2. to = "renaming" /\ Carries(j, p, e) => Carries(j, p, e)' BY <1>2 DEF Carries, Carried, Flying
    <3> QED BY <1>2, <3>1, <3>2 DEF Carries
  <2>3. ASSUME ProcessOf[j] = p, to \in {"slot", "running"}, EntryOf(j)' = e PROVE paid[p][e] = 0
    <3>1. EntryOf(j) = e BY <2>3, <1>2 DEF Flying
    <3>2. CASE to = "running" BY <3>1, <3>2, <2>3, <1>0 DEF Ledger
    <3>3. CASE to = "slot"
      <4>1. entry[e] # Files BY <3>1, <3>3, <1>0, CompleteIsWhole
      <4>2. \A k \in Job : ~Carries(k, p, e)
          BY <3>1, <3>3, <2>3, <1>0 DEF OneFlight, Carries, Carried, Flying
      <4> QED BY <4>1, <4>2, <1>0 DEF Ledger
    <3> QED BY <2>3, <3>2, <3>3
  <2>4. \A k \in Job \ {j} : ProcessOf[k] = p /\ phase'[k] \in {"slot", "running"} /\ EntryOf(k)' = e => paid[p][e] = 0
      BY <1>0, <1>2 DEF Ledger
  <2> QED BY <2>1, <2>2, <2>3, <2>4, <1>0, <1>2 DEF Ledger
<1>7. SlotsKept'
  <2>1. CASE to # "running"
    <3>1. \A p \in Process : Running(p)' \subseteq Running(p) BY <2>1, <1>2 DEF Running, JobsOf
    <3> QED BY <3>1, <1>0, FewerRun
  <2>2. CASE to = "running"
    <3>1. \A p \in Process \ {ProcessOf[j]} : Running(p)' = Running(p) BY <1>2, <2>2 DEF Running, JobsOf
    <3>2. Running(ProcessOf[j])' = Running(ProcessOf[j]) \cup {j} BY <1>2, <2>2 DEF Running, JobsOf
    <3>3. j \notin Running(ProcessOf[j]) BY <2>2 DEF Running
    <3>4. Cardinality(Running(ProcessOf[j])') = Cardinality(Running(ProcessOf[j])) + 1
        BY <3>2, <3>3, RunningFinite, FS_AddElement
    <3>5. Slots = 0 \/ Cardinality(Running(ProcessOf[j])') <= Slots
        BY <3>4, <2>2, RunningFinite, CacheAssumption
    <3> QED BY <3>1, <3>5, <1>0 DEF SlotsKept
  <2> QED BY <2>1, <2>2
<1>8. OtherWriter'
  <2> SUFFICES ASSUME NEW k \in Job, phase'[k] = "renaming", entry[EntryOf(k)'] # {}
               PROVE  \E p \in Process \ {ProcessOf[k]} : Settled(p, EntryOf(k))'
      BY <1>1 DEF OtherWriter
  <2>1. k # j
    <3> SUFFICES ASSUME k = j PROVE FALSE
        OBVIOUS
    <3>1. AtEntry(j) /\ EntryOf(j)' = EntryOf(j) /\ ~Complete(EntryOf(j)) BY <1>2 DEF Flying, Carried
    <3> QED BY <3>1, <1>0, CompleteIsWhole DEF AtEntry, EntryOf
  <2>2. PICK p \in Process \ {ProcessOf[k]} : Settled(p, EntryOf(k)) BY <2>1, <1>0, <1>2 DEF OtherWriter
  <2>3. EntryOf(k)' = EntryOf(k) BY <1>2, <2>1
  <2>4. \A l \in Job : Carries(l, p, EntryOf(k))' => Carries(l, p, EntryOf(k))
      BY <1>2, <2>3 DEF Carries, Carried, Flying
  <2> QED BY <2>2, <2>3, <2>4, <1>1 DEF Settled
<1>9. WaitersRest' BY <1>0, <1>1, <1>2 DEF WaitersRest, Stopping, TypeOK, Wait
<1> QED BY <1>3, <1>4, <1>5, <1>6, <1>7, <1>8, <1>9 DEF IInv

----------------------------------------------------------------------------
(* The steps of a thread *)

LEMMA QuietSteps ==
    ASSUME IInv, NEW j \in Job,
           \/ PointStagesDone(j) \/ StageInterrupted(j) \/ RunPlain(j) \/ PlainEnds(j) \/ PlainFails(j)
           \/ AskFlight(j) \/ TakeFlight(j) \/ Hit(j) \/ MissInterrupted(j) \/ Miss(j) \/ TakeSlot(j)
           \/ RunFails(j) \/ Checked(j) \/ RenameRaises(j)
    PROVE  IInv'
<1>0. TypeOK /\ Whole /\ WaitersRest
    BY DEF IInv
<1>1. phase[j] \in Flying \cup {"flight"} => AtEntry(j)
    BY <1>0 DEF TypeOK
<1>2. Complete(EntryOf(j)) => entry[EntryOf(j)] # {}
    BY DEF Complete
<1>3. j \in waitedFor["flight"] => Stopping(j) /\ phase[j] \notin AtWork \cup {"slot", "plain"}
    BY <1>0 DEF WaitersRest
<1> USE <1>1, <1>2, <1>3 DEF Quiet, Moves, To, NextStage, Phase, Flying, Over, Carried, AtWork
<1>4. CASE PointStagesDone(j) BY <1>4, QuietKeeps DEF PointStagesDone
<1>5. CASE StageInterrupted(j) BY <1>5, QuietKeeps DEF StageInterrupted
<1>6. CASE RunPlain(j) BY <1>6, QuietKeeps DEF RunPlain
<1>7. CASE PlainEnds(j) BY <1>7, QuietKeeps DEF PlainEnds
<1>8. CASE PlainFails(j) BY <1>8, QuietKeeps DEF PlainFails
<1>9. CASE AskFlight(j) BY <1>9, QuietKeeps DEF AskFlight
<1>10. CASE TakeFlight(j) BY <1>10, QuietKeeps DEF TakeFlight
<1>11. CASE Hit(j) BY <1>11, QuietKeeps DEF Hit
<1>12. CASE MissInterrupted(j) BY <1>12, QuietKeeps DEF MissInterrupted
<1>13. CASE Miss(j) BY <1>13, QuietKeeps DEF Miss
<1>14. CASE TakeSlot(j) BY <1>14, QuietKeeps DEF TakeSlot
<1>15. CASE RunFails(j) BY <1>15, QuietKeeps DEF RunFails
<1>16. CASE Checked(j) BY <1>16, QuietKeeps DEF Checked
<1>17. CASE RenameRaises(j) BY <1>17, QuietKeeps DEF RenameRaises
<1> QED BY <1>4, <1>5, <1>6, <1>7, <1>8, <1>9, <1>10, <1>11, <1>12, <1>13, <1>14, <1>15, <1>16, <1>17

\* What holds of every step of a thread at work: its command ends, or what it made is written.
Works(j, to) ==
    /\ Moves(j, to) /\ phase[j] \in {"running"} \cup Carried
    /\ to \in Carried \/ to \in {"next", "raised"}
    /\ to \in Carried => at' = at
    /\ UNCHANGED <<stopping, waitedFor, crashes, batches>>

LEMMA WorkKeeps ==
    ASSUME IInv, NEW j \in Job, NEW to, Works(j, to)
    PROVE  /\ OneFlight' /\ SlotsKept' /\ WaitersRest'
           /\ entry' \in [Entry -> SUBSET Files] /\ staging' \in [Job -> SUBSET Files]
              /\ paid' \in [Process -> [Entry -> Int]] => TypeOK'
<1>0. TypeOK /\ OneFlight /\ SlotsKept /\ WaitersRest
    BY DEF IInv
<1>1. /\ phase'[j] = to
      /\ \A k \in Job \ {j} : phase'[k] = phase[k] /\ EntryOf(k)' = EntryOf(k) /\ AtEntry(k)' = AtEntry(k)
      /\ at' = at => EntryOf(j)' = EntryOf(j) /\ AtEntry(j)' = AtEntry(j)
    BY <1>0, Others DEF Works
<1>2. phase[j] \in Flying /\ (to \in Flying => to \in Carried) /\ to # "flight" /\ to # "running"
    BY DEF Works, Carried, Flying
<1>3. OneFlight' BY <1>0, <1>1, <1>2 DEF OneFlight, Works
<1>4. \A p \in Process : Running(p)' \subseteq Running(p) BY <1>1, <1>2 DEF Running, JobsOf
<1>5. WaitersRest'
  <2>1. waitedFor' = waitedFor /\ stopping' = stopping BY DEF Works
  <2>2. j \notin waitedFor["flight"] BY <1>0 DEF WaitersRest, Works, Carried, AtWork
  <2>3. waitedFor["flight"] \subseteq Job BY <1>0 DEF TypeOK, Wait
  <2> QED BY <1>0, <1>1, <2>1, <2>2, <2>3 DEF WaitersRest, Stopping
<1>6. ASSUME entry' \in [Entry -> SUBSET Files], staging' \in [Job -> SUBSET Files],
             paid' \in [Process -> [Entry -> Int]]
      PROVE  TypeOK'
  <2>1. phase' \in [Job -> Phase] BY <1>0, <1>1, <1>2 DEF TypeOK, Works, Moves, Phase, Flying, Over, Carried
  <2>2. at' \in [Job -> Nat \ {0}] BY <1>0 DEF TypeOK, Works, Moves
  <2>3. \A k \in Job : phase'[k] \in Flying \cup {"flight"} => AtEntry(k)' BY <1>0, <1>1, <1>2 DEF TypeOK, Works
  <2>4. stopping' \subseteq Process /\ waitedFor' \in [Wait -> SUBSET Job] /\ crashes' \in Nat
        /\ batches' \in [Process -> Nat]
      BY <1>0 DEF TypeOK, Works
  <2> QED BY <1>6, <2>1, <2>2, <2>3, <2>4 DEF TypeOK
<1> QED BY <1>0, <1>3, <1>4, <1>5, <1>6, FewerRun

\* The thread at work is the only one of its process there.
LEMMA Alone ==
    ASSUME IInv, NEW j \in Job, phase[j] \in {"running"} \cup Carried
    PROVE  /\ EntryOf(j) \in Entry /\ ProcessOf[j] \in Process
           /\ \A k \in Job : phase[k] \in Flying /\ ProcessOf[k] = ProcessOf[j] /\ EntryOf(k) = EntryOf(j) => k = j
           /\ phase[j] = "running" => paid[ProcessOf[j]][EntryOf(j)] = 0
           /\ phase[j] # "running" => paid[ProcessOf[j]][EntryOf(j)] = 1
<1>1. phase[j] \in Flying BY DEF Carried, Flying
<1>2. EntryOf(j) \in Entry /\ ProcessOf[j] \in Process
    BY <1>1, CacheAssumption DEF IInv, TypeOK, AtEntry, EntryOf
<1>3. \A k \in Job : phase[k] \in Flying /\ ProcessOf[k] = ProcessOf[j] /\ EntryOf(k) = EntryOf(j) => k = j
    BY <1>1 DEF IInv, OneFlight
<1>4. Ledger BY DEF IInv
<1> QED BY <1>2, <1>3, <1>4 DEF Ledger, Carries

\* The command's result is there.
LEMMA RunEndsNext ==
    ASSUME IInv, NEW j \in Job, RunEnds(j)
    PROVE  IInv'
<1>0. TypeOK /\ Whole /\ Ledger /\ OtherWriter
    BY DEF IInv
<1>1. /\ phase[j] = "running" /\ Moves(j, "made") /\ at' = at /\ UNCHANGED <<entry, staging>>
      /\ paid' = [paid EXCEPT ![ProcessOf[j]][EntryOf(j)] = @ + 1]
    BY DEF RunEnds, To, Moves
<1>2. Works(j, "made")
    BY <1>1 DEF RunEnds, Works, Carried
<1>3. PICK p \in Process, e \in Entry : p = ProcessOf[j] /\ e = EntryOf(j)
    BY <1>1, Alone
<1>4. paid[p][e] = 0 /\ \A k \in Job : phase[k] \in Flying /\ ProcessOf[k] = p /\ EntryOf(k) = e => k = j
    BY <1>1, <1>3, Alone
<1>5. /\ phase'[j] = "made" /\ \A k \in Job : EntryOf(k)' = EntryOf(k)
      /\ \A k \in Job \ {j} : phase'[k] = phase[k]
    BY <1>0, <1>1, Others
<1>6. /\ paid' \in [Process -> [Entry -> Int]] /\ paid'[p][e] = 1
      /\ \A q \in Process, x \in Entry : q # p \/ x # e => paid'[q][x] = paid[q][x]
    BY <1>0, <1>1, <1>3, <1>4 DEF TypeOK
<1>7. \A k \in Job, q \in Process, x \in Entry : q # p \/ x # e => (Carries(k, q, x)' <=> Carries(k, q, x))
    BY <1>3, <1>5 DEF Carries
<1>8. Ledger'
  <2> SUFFICES ASSUME NEW q \in Process, NEW x \in Entry
               PROVE  /\ paid'[q][x] \in {0, 1}
                      /\ \A k \in Job : Carries(k, q, x)' => paid'[q][x] = 1
                      /\ \A k \in Job : ProcessOf[k] = q /\ phase'[k] \in {"slot", "running"} /\ EntryOf(k)' = x
                                        => paid'[q][x] = 0
                      /\ paid'[q][x] = 1 /\ (\A k \in Job : ~Carries(k, q, x)') => entry'[x] = Files
      BY DEF Ledger
  <2>1. CASE q = p /\ x = e
    <3>1. Carries(j, q, x)' BY <2>1, <1>3, <1>5 DEF Carries, Carried
    <3>2. \A k \in Job : ProcessOf[k] = q /\ phase'[k] \in {"slot", "running"} /\ EntryOf(k)' = x => FALSE
        BY <2>1, <1>4, <1>5 DEF Flying
    <3> QED BY <2>1, <3>1, <3>2, <1>6
  <2>2. CASE q # p \/ x # e
    <3>1. \A k \in Job : ProcessOf[k] = q /\ phase'[k] \in {"slot", "running"} /\ EntryOf(k)' = x
                         => phase[k] \in {"slot", "running"} /\ EntryOf(k) = x
        BY <1>5
    <3> QED BY <2>2, <3>1, <1>0, <1>1, <1>6, <1>7 DEF Ledger
  <2> QED BY <2>1, <2>2
<1>9. OtherWriter'
  <2> SUFFICES ASSUME NEW k \in Job, phase'[k] = "renaming", entry'[EntryOf(k)'] # {}
               PROVE  \E q \in Process \ {ProcessOf[k]} : Settled(q, EntryOf(k))'
      BY DEF OtherWriter
  <2>1. k # j /\ phase[k] = "renaming" BY <1>5
  <2>2. PICK x \in Entry : x = EntryOf(k) BY <2>1, Alone DEF Carried
  <2>3. PICK q \in Process \ {ProcessOf[k]} : Settled(q, x) BY <2>1, <2>2, <1>0, <1>1, <1>5 DEF OtherWriter
  <2>4. q # p \/ x # e BY <2>3, <1>4 DEF Settled
  <2>5. Settled(q, x)' BY <2>3, <2>4, <1>6, <1>7 DEF Settled
  <2>6. EntryOf(k)' = x BY <2>2, <1>5
  <2> QED BY <2>5, <2>6 DEF Settled
<1>10. Whole' BY <1>0, <1>1, <1>5 DEF Whole
<1>11. TypeOK' BY <1>0, <1>1, <1>2, <1>6, WorkKeeps DEF TypeOK
<1> QED BY <1>2, <1>8, <1>9, <1>10, <1>11, WorkKeeps DEF IInv

\* The result is written aside, marked last.
LEMMA WriteNext ==
    ASSUME IInv, NEW j \in Job, Save(j) \/ Mark(j)
    PROVE  IInv'
<1>0. TypeOK /\ Whole /\ Ledger /\ OtherWriter
    BY DEF IInv
<1>1. PICK to \in {"saved", "marked"} :
         /\ phase[j] \in {"made", "saved"} /\ Moves(j, to) /\ at' = at /\ Works(j, to) /\ UNCHANGED <<entry, paid>>
         /\ staging' = [staging EXCEPT ![j] = IF to = "saved" THEN {"result"} ELSE Files]
  <2>1. CASE Save(j) BY <2>1 DEF Save, To, Moves, Works, Carried
  <2>2. CASE Mark(j)
    <3>1. staging[j] \cup {".complete"} = Files BY <2>2, <1>0 DEF Mark, Whole, Files
    <3> QED BY <2>2, <3>1 DEF Mark, To, Moves, Works, Carried
  <2> QED BY <2>1, <2>2
<1>2. /\ phase'[j] = to /\ \A k \in Job : EntryOf(k)' = EntryOf(k)
      /\ \A k \in Job \ {j} : phase'[k] = phase[k]
    BY <1>0, <1>1, Others
<1>3. \A k \in Job, q \in Process, x \in Entry : Carries(k, q, x)' <=> Carries(k, q, x)
    BY <1>1, <1>2 DEF Carries, Carried
<1>4. Ledger'
  <2> SUFFICES ASSUME NEW q \in Process, NEW x \in Entry
               PROVE  /\ paid'[q][x] \in {0, 1}
                      /\ \A k \in Job : Carries(k, q, x)' => paid'[q][x] = 1
                      /\ \A k \in Job : ProcessOf[k] = q /\ phase'[k] \in {"slot", "running"} /\ EntryOf(k)' = x
                                        => paid'[q][x] = 0
                      /\ paid'[q][x] = 1 /\ (\A k \in Job : ~Carries(k, q, x)') => entry'[x] = Files
      BY DEF Ledger
  <2> QED BY <1>0, <1>1, <1>2, <1>3 DEF Ledger
<1>5. OtherWriter'
  <2> SUFFICES ASSUME NEW k \in Job, phase'[k] = "renaming", entry'[EntryOf(k)'] # {}
               PROVE  \E q \in Process \ {ProcessOf[k]} : Settled(q, EntryOf(k))'
      BY DEF OtherWriter
  <2>1. phase[k] = "renaming" BY <1>1, <1>2
  <2>2. PICK x \in Entry : x = EntryOf(k) BY <2>1, Alone DEF Carried
  <2>3. PICK q \in Process \ {ProcessOf[k]} : Settled(q, x) BY <2>1, <2>2, <1>0, <1>1, <1>2 DEF OtherWriter
  <2>4. Settled(q, x)' BY <2>3, <1>1, <1>3 DEF Settled
  <2>5. EntryOf(k)' = x BY <2>2, <1>2
  <2> QED BY <2>4, <2>5 DEF Settled
<1>6. Whole' BY <1>0, <1>1, <1>2 DEF Whole, TypeOK
<1>7. TypeOK'
  <2>1. staging' \in [Job -> SUBSET Files] BY <1>0, <1>1 DEF TypeOK, Files
  <2> QED BY <2>1, <1>0, <1>1, WorkKeeps DEF TypeOK
<1> QED BY <1>1, <1>4, <1>5, <1>6, <1>7, WorkKeeps DEF IInv

\* The result is lost, or there is one already.
LEMMA DropNext ==
    ASSUME IInv, NEW j \in Job, SaveRaises(j) \/ Discard(j)
    PROVE  IInv'
<1>0. TypeOK /\ Whole /\ Ledger /\ OtherWriter
    BY DEF IInv
<1>1. PICK to \in {"raised", "next"} :
         /\ phase[j] \in Carried /\ Moves(j, to) /\ Works(j, to) /\ UNCHANGED entry
         /\ staging' = staging \/ staging' = [staging EXCEPT ![j] = {}]
    BY DEF SaveRaises, Discard, NextStage, To, Moves, Works, Carried
<1>2. PICK p \in Process, e \in Entry : p = ProcessOf[j] /\ e = EntryOf(j)
    BY <1>1, Alone
<1>3. Carries(j, p, e) /\ paid[p][e] = 1
    BY <1>1, <1>2, Alone DEF Carries, Carried
<1>4. \A k \in Job : phase[k] \in Flying /\ ProcessOf[k] = p /\ EntryOf(k) = e => k = j
    BY <1>1, <1>2, Alone
<1>5. /\ phase'[j] = to
      /\ \A k \in Job \ {j} : EntryOf(k)' = EntryOf(k) /\ phase'[k] = phase[k]
    BY <1>0, <1>1, Others
<1>6. /\ paid' \in [Process -> [Entry -> Int]]
      /\ paid'[p][e] = 0 \/ (paid'[p][e] = 1 /\ entry[e] = Files)
      /\ \A q \in Process, x \in Entry : q # p \/ x # e => paid'[q][x] = paid[q][x]
  <2>1. CASE SaveRaises(j) BY <2>1, <1>0, <1>2, <1>3 DEF SaveRaises, Lost, TypeOK
  <2>2. CASE Discard(j)
    <3>1. entry[e] = Files BY <2>2, <1>0, <1>2, CompleteIsWhole DEF Discard
    <3> QED BY <2>2, <3>1, <1>0, <1>3 DEF Discard, TypeOK
  <2> QED BY <2>1, <2>2
<1>7. \A k \in Job, q \in Process, x \in Entry : q # p \/ x # e => (Carries(k, q, x)' <=> Carries(k, q, x))
    BY <1>1, <1>2, <1>5 DEF Carries, Carried
<1>8. \A k \in Job : ~Carries(k, p, e)' /\ ~(ProcessOf[k] = p /\ phase'[k] \in {"slot", "running"} /\ EntryOf(k)' = e)
    BY <1>4, <1>5 DEF Carries, Carried, Flying
<1>9. Ledger'
  <2> SUFFICES ASSUME NEW q \in Process, NEW x \in Entry
               PROVE  /\ paid'[q][x] \in {0, 1}
                      /\ \A k \in Job : Carries(k, q, x)' => paid'[q][x] = 1
                      /\ \A k \in Job : ProcessOf[k] = q /\ phase'[k] \in {"slot", "running"} /\ EntryOf(k)' = x
                                        => paid'[q][x] = 0
                      /\ paid'[q][x] = 1 /\ (\A k \in Job : ~Carries(k, q, x)') => entry'[x] = Files
      BY DEF Ledger
  <2>1. CASE q = p /\ x = e BY <2>1, <1>1, <1>6, <1>8
  <2>2. CASE q # p \/ x # e
    <3>1. \A k \in Job : ProcessOf[k] = q /\ phase'[k] \in {"slot", "running"} /\ EntryOf(k)' = x
                         => phase[k] \in {"slot", "running"} /\ EntryOf(k) = x
        BY <1>5
    <3> QED BY <2>2, <3>1, <1>0, <1>1, <1>6, <1>7 DEF Ledger
  <2> QED BY <2>1, <2>2
<1>10. OtherWriter'
  <2> SUFFICES ASSUME NEW k \in Job, phase'[k] = "renaming", entry'[EntryOf(k)'] # {}
               PROVE  \E q \in Process \ {ProcessOf[k]} : Settled(q, EntryOf(k))'
      BY DEF OtherWriter
  <2>1. k # j /\ phase[k] = "renaming" BY <1>5
  <2>2. PICK x \in Entry : x = EntryOf(k) BY <2>1, Alone DEF Carried
  <2>3. PICK q \in Process \ {ProcessOf[k]} : Settled(q, x) BY <2>1, <2>2, <1>0, <1>1, <1>5 DEF OtherWriter
  <2>4. q # p \/ x # e BY <2>3, <1>3 DEF Settled
  <2>5. Settled(q, x)' BY <2>3, <2>4, <1>6, <1>7 DEF Settled
  <2>6. EntryOf(k)' = x BY <2>1, <2>2, <1>5
  <2> QED BY <2>5, <2>6 DEF Settled
<1>11. Whole' BY <1>0, <1>1, <1>5 DEF Whole, TypeOK
<1>12. TypeOK'
  <2>1. staging' \in [Job -> SUBSET Files] BY <1>0, <1>1 DEF TypeOK
  <2> QED BY <2>1, <1>0, <1>1, <1>6, WorkKeeps DEF TypeOK
<1> QED BY <1>1, <1>9, <1>10, <1>11, <1>12, WorkKeeps DEF IInv

\* The entry appears, whole; who is to rename over it now is of another process.
LEMMA RenameNext ==
    ASSUME IInv, NEW j \in Job, Rename(j)
    PROVE  IInv'
<1>0. TypeOK /\ Whole /\ Ledger /\ OtherWriter
    BY DEF IInv
<1>1. /\ phase[j] = "renaming" /\ Moves(j, "next") /\ Works(j, "next") /\ UNCHANGED paid
      /\ entry' = [entry EXCEPT ![EntryOf(j)] = staging[j]] /\ staging' = [staging EXCEPT ![j] = {}]
    BY DEF Rename, NextStage, To, Moves, Works, Carried
<1>2. PICK p \in Process, e \in Entry : p = ProcessOf[j] /\ e = EntryOf(j)
    BY <1>1, Alone DEF Carried
<1>3. paid[p][e] = 1 /\ \A k \in Job : phase[k] \in Flying /\ ProcessOf[k] = p /\ EntryOf(k) = e => k = j
    BY <1>1, <1>2, Alone DEF Carried
<1>4. /\ phase'[j] = "next"
      /\ \A k \in Job \ {j} : EntryOf(k)' = EntryOf(k) /\ phase'[k] = phase[k]
    BY <1>0, <1>1, Others
<1>5. entry' \in [Entry -> SUBSET Files] /\ entry'[e] = Files /\ \A x \in Entry \ {e} : entry'[x] = entry[x]
    BY <1>0, <1>1, <1>2 DEF TypeOK, Whole
<1>6. \A k \in Job, q \in Process, x \in Entry : q # p \/ x # e => (Carries(k, q, x)' <=> Carries(k, q, x))
    BY <1>2, <1>4 DEF Carries, Carried
<1>7. \A k \in Job : ~Carries(k, p, e)' /\ ~(ProcessOf[k] = p /\ phase'[k] \in {"slot", "running"} /\ EntryOf(k)' = e)
    BY <1>3, <1>4 DEF Carries, Carried, Flying
<1>8. Ledger'
  <2> SUFFICES ASSUME NEW q \in Process, NEW x \in Entry
               PROVE  /\ paid'[q][x] \in {0, 1}
                      /\ \A k \in Job : Carries(k, q, x)' => paid'[q][x] = 1
                      /\ \A k \in Job : ProcessOf[k] = q /\ phase'[k] \in {"slot", "running"} /\ EntryOf(k)' = x
                                        => paid'[q][x] = 0
                      /\ paid'[q][x] = 1 /\ (\A k \in Job : ~Carries(k, q, x)') => entry'[x] = Files
      BY DEF Ledger
  <2>1. CASE q = p /\ x = e BY <2>1, <1>1, <1>3, <1>5, <1>7
  <2>2. CASE q # p \/ x # e
    <3>1. \A k \in Job : ProcessOf[k] = q /\ phase'[k] \in {"slot", "running"} /\ EntryOf(k)' = x
                         => phase[k] \in {"slot", "running"} /\ EntryOf(k) = x
        BY <1>4
    <3> QED BY <2>2, <3>1, <1>0, <1>1, <1>5, <1>6 DEF Ledger
  <2> QED BY <2>1, <2>2
<1>9. OtherWriter'
  <2> SUFFICES ASSUME NEW k \in Job, phase'[k] = "renaming", entry'[EntryOf(k)'] # {}
               PROVE  \E q \in Process \ {ProcessOf[k]} : Settled(q, EntryOf(k))'
      BY DEF OtherWriter
  <2>1. k # j /\ phase[k] = "renaming" BY <1>4
  <2>2. PICK x \in Entry : x = EntryOf(k) BY <2>1, Alone DEF Carried
  <2>3. EntryOf(k)' = x BY <2>1, <2>2, <1>4
  <2>4. CASE x = e
    <3>1. ProcessOf[k] # p BY <2>1, <2>2, <2>4, <1>3 DEF Flying
    <3>2. Settled(p, x)' BY <2>4, <1>1, <1>3, <1>7 DEF Settled
    <3> QED BY <3>1, <3>2, <2>3 DEF Settled
  <2>5. CASE x # e
    <3>1. PICK q \in Process \ {ProcessOf[k]} : Settled(q, x)
        BY <2>1, <2>2, <2>3, <2>5, <1>0, <1>5 DEF OtherWriter
    <3>2. Settled(q, x)' BY <3>1, <2>5, <1>1, <1>6 DEF Settled
    <3> QED BY <3>1, <3>2, <2>3 DEF Settled
  <2> QED BY <2>4, <2>5
<1>10. Whole' BY <1>0, <1>1, <1>4, <1>5 DEF Whole, TypeOK
<1>11. TypeOK'
  <2>1. staging' \in [Job -> SUBSET Files] BY <1>0, <1>1 DEF TypeOK
  <2> QED BY <2>1, <1>0, <1>1, <1>5, WorkKeeps DEF TypeOK
<1> QED BY <1>1, <1>8, <1>9, <1>10, <1>11, WorkKeeps DEF IInv

----------------------------------------------------------------------------
(* The steps of a process *)

LEMMA InterruptNext ==
    ASSUME IInv, NEW p \in Process, Interrupt(p)
    PROVE  IInv'
<1>0. TypeOK /\ OneFlight /\ Whole /\ Ledger /\ SlotsKept /\ OtherWriter /\ WaitersRest
    BY DEF IInv
<1>1. /\ UNCHANGED <<entry, staging, phase, at, paid, crashes, batches>>
      /\ stopping' = stopping \cup {p}
      /\ waitedFor' = [what \in Wait |-> waitedFor[what] \cup {j \in JobsOf(p) : WaitsFor(what, j)}]
    BY DEF Interrupt
<1>2. \A j \in Job : EntryOf(j)' = EntryOf(j) /\ AtEntry(j)' = AtEntry(j)
    BY <1>1 DEF EntryOf, AtEntry
<1>3. \A k \in Job, q \in Process, x \in Entry : Carries(k, q, x)' <=> Carries(k, q, x)
    BY <1>1, <1>2 DEF Carries
<1>4. TypeOK'
  <2>1. waitedFor' \in [Wait -> SUBSET Job] BY <1>0, <1>1 DEF TypeOK, JobsOf
  <2>2. stopping' \subseteq Process BY <1>0, <1>1 DEF TypeOK
  <2> QED BY <1>0, <1>1, <1>2, <2>1, <2>2 DEF TypeOK
<1>5. OneFlight' BY <1>0, <1>1, <1>2 DEF OneFlight
<1>6. Whole' BY <1>0, <1>1 DEF Whole
<1>7. Ledger' BY <1>0, <1>1, <1>2, <1>3 DEF Ledger
<1>8. SlotsKept'
  <2>1. \A q \in Process : Running(q)' \subseteq Running(q) BY <1>1 DEF Running, JobsOf
  <2> QED BY <1>0, <2>1, FewerRun
<1>9. OtherWriter'
  <2>1. \A q \in Process, x \in Entry : Settled(q, x)' <=> Settled(q, x) BY <1>1, <1>3 DEF Settled
  <2>2. \A j \in Job : phase[j] = "renaming" => EntryOf(j) \in Entry BY <1>0 DEF TypeOK, Flying, AtEntry, EntryOf
  <2> SUFFICES ASSUME NEW k \in Job, phase'[k] = "renaming", entry'[EntryOf(k)'] # {}
               PROVE  \E q \in Process \ {ProcessOf[k]} : Settled(q, EntryOf(k))'
      BY DEF OtherWriter
  <2>3. PICK x \in Entry : x = EntryOf(k) /\ x = EntryOf(k)' BY <1>1, <1>2, <2>2
  <2>4. PICK q \in Process \ {ProcessOf[k]} : Settled(q, x) BY <1>0, <1>1, <2>3 DEF OtherWriter
  <2>5. Settled(q, x)' BY <2>1, <2>4
  <2> QED BY <2>3, <2>4, <2>5 DEF Settled
<1>10. WaitersRest'
  <2> SUFFICES ASSUME NEW j \in waitedFor'["flight"]
               PROVE  ProcessOf[j] \in stopping' /\ phase[j] \notin AtWork \cup {"slot", "plain"}
      BY <1>1 DEF WaitersRest, Stopping
  <2>1. CASE j \in waitedFor["flight"] BY <2>1, <1>0, <1>1 DEF WaitersRest, Stopping
  <2>2. CASE j \notin waitedFor["flight"]
    <3>1. j \in JobsOf(p) /\ WaitsFor("flight", j) BY <2>2, <1>1 DEF Wait
    <3> QED BY <3>1, <1>1 DEF JobsOf, WaitsFor, AtWork
  <2> QED BY <2>1, <2>2
<1> QED BY <1>4, <1>5, <1>6, <1>7, <1>8, <1>9, <1>10 DEF IInv

\* The results the process's threads carried are lost with it.
LEMMA CrashNext ==
    ASSUME IInv, NEW p \in Process, Crash(p)
    PROVE  IInv'
<1>0. TypeOK /\ OneFlight /\ Whole /\ Ledger /\ SlotsKept /\ OtherWriter /\ WaitersRest
    BY DEF IInv
<1> DEFINE Carriers(e) == {j \in JobsOf(p) : phase[j] \in Carried /\ EntryOf(j) = e}
<1>1. /\ UNCHANGED <<entry, staging, at, stopping, waitedFor, batches>> /\ crashes' = crashes + 1
      /\ phase' = [j \in Job |-> IF ProcessOf[j] = p THEN "dead" ELSE phase[j]]
      /\ paid' = [paid EXCEPT ![p] = [e \in Entry |-> paid[p][e] - Cardinality(Carriers(e))]]
    BY DEF Crash, Carried
<1>2. \A j \in Job : EntryOf(j)' = EntryOf(j) /\ AtEntry(j)' = AtEntry(j)
    BY <1>1 DEF EntryOf, AtEntry
<1>3. \A j \in Job : IF ProcessOf[j] = p THEN phase'[j] = "dead" ELSE phase'[j] = phase[j]
    BY <1>1
<1>4. ASSUME NEW e \in Entry
      PROVE  \/ (\A j \in Job : ~Carries(j, p, e)) /\ paid'[p][e] = paid[p][e]
             \/ (\E j \in Job : Carries(j, p, e)) /\ paid'[p][e] = 0
  <2>1. paid'[p][e] = paid[p][e] - Cardinality(Carriers(e)) BY <1>0, <1>1 DEF TypeOK
  <2>2. CASE \A j \in Job : ~Carries(j, p, e)
    <3>1. Carriers(e) = {} BY <2>2 DEF Carries, JobsOf
    <3>2. Cardinality(Carriers(e)) = 0 BY <3>1, FS_EmptySet
    <3> QED BY <2>1, <2>2, <3>2, <1>0 DEF Ledger
  <2>3. CASE \E j \in Job : Carries(j, p, e)
    <3>1. PICK j \in Job : Carries(j, p, e) BY <2>3
    <3>2. \A k \in Job : Carries(k, p, e) => k = j BY <3>1, <1>0 DEF OneFlight, Carries, Carried, Flying
    <3>3. Carriers(e) = {j} BY <3>1, <3>2 DEF Carries, JobsOf
    <3>4. Cardinality(Carriers(e)) = 1 BY <3>3, FS_Singleton
    <3>5. paid[p][e] = 1 BY <3>1, <1>0 DEF Ledger
    <3> QED BY <2>1, <2>3, <3>4, <3>5
  <2> QED BY <2>2, <2>3
<1>5. \A q \in Process \ {p}, e \in Entry : paid'[q][e] = paid[q][e]
    BY <1>0, <1>1 DEF TypeOK
<1>6. \A k \in Job, q \in Process, x \in Entry : Carries(k, q, x)' <=> q # p /\ Carries(k, q, x)
    BY <1>2, <1>3 DEF Carries, Carried
<1>7. TypeOK'
  <2>1. \A e \in Entry : paid'[p][e] \in Int
    <3> SUFFICES ASSUME NEW e \in Entry PROVE paid'[p][e] \in Int
        OBVIOUS
    <3>1. paid[p][e] \in Int BY <1>0 DEF TypeOK
    <3> QED BY <1>4, <3>1
  <2>2. paid' \in [Process -> [Entry -> Int]]
    <3> DEFINE row == [e \in Entry |-> paid[p][e] - Cardinality(Carriers(e))]
    <3>1. paid'[p] = row BY <1>0, <1>1 DEF TypeOK
    <3>2. row \in [Entry -> Int] BY <3>1, <2>1
    <3> HIDE DEF row, Carriers
    <3> QED BY <1>0, <1>1, <3>2 DEF TypeOK, row
  <2>3. phase' \in [Job -> Phase] BY <1>0, <1>1 DEF TypeOK, Phase, Over
  <2>4. \A k \in Job : phase'[k] \in Flying \cup {"flight"} => AtEntry(k)' BY <1>0, <1>2, <1>3 DEF TypeOK, Flying
  <2>5. crashes' \in Nat BY <1>0, <1>1 DEF TypeOK
  <2> QED BY <1>0, <1>1, <2>2, <2>3, <2>4, <2>5 DEF TypeOK
<1>8. OneFlight' BY <1>0, <1>2, <1>3 DEF OneFlight, Flying
<1>9. Whole' BY <1>0, <1>1, <1>3 DEF Whole
<1>10. Ledger'
  <2> SUFFICES ASSUME NEW q \in Process, NEW x \in Entry
               PROVE  /\ paid'[q][x] \in {0, 1}
                      /\ \A k \in Job : Carries(k, q, x)' => paid'[q][x] = 1
                      /\ \A k \in Job : ProcessOf[k] = q /\ phase'[k] \in {"slot", "running"} /\ EntryOf(k)' = x
                                        => paid'[q][x] = 0
                      /\ paid'[q][x] = 1 /\ (\A k \in Job : ~Carries(k, q, x)') => entry'[x] = Files
      BY DEF Ledger
  <2>1. CASE q = p
    <3>1. \A k \in Job : ProcessOf[k] = q => phase'[k] = "dead" BY <2>1, <1>3
    <3> QED BY <2>1, <3>1, <1>0, <1>1, <1>4, <1>6 DEF Ledger
  <2>2. CASE q # p
    <3>1. \A k \in Job : ProcessOf[k] = q => phase'[k] = phase[k] BY <2>2, <1>3
    <3> QED BY <2>2, <3>1, <1>0, <1>1, <1>2, <1>5, <1>6 DEF Ledger
  <2> QED BY <2>1, <2>2
<1>11. SlotsKept'
  <2>1. \A q \in Process : Running(q)' \subseteq Running(q) BY <1>3 DEF Running, JobsOf
  <2> QED BY <1>0, <2>1, FewerRun
<1>12. OtherWriter'
  <2> SUFFICES ASSUME NEW k \in Job, phase'[k] = "renaming", entry'[EntryOf(k)'] # {}
               PROVE  \E q \in Process \ {ProcessOf[k]} : Settled(q, EntryOf(k))'
      BY DEF OtherWriter
  <2>1. phase[k] = "renaming" BY <1>3
  <2>2. PICK x \in Entry : x = EntryOf(k) /\ x = EntryOf(k)' BY <2>1, <1>2, Alone DEF Carried
  <2>3. PICK q \in Process \ {ProcessOf[k]} : Settled(q, x) BY <2>1, <2>2, <1>0, <1>1 DEF OtherWriter
  <2>4. Settled(q, x)' BY <2>3, <1>4, <1>5, <1>6 DEF Settled
  <2> QED BY <2>2, <2>3, <2>4 DEF Settled
<1>13. WaitersRest' BY <1>0, <1>1, <1>3 DEF WaitersRest, Stopping, AtWork, TypeOK, Wait
<1> QED BY <1>7, <1>8, <1>9, <1>10, <1>11, <1>12, <1>13 DEF IInv

\* A new batch: nothing is under way in the process.
LEMMA AgainNext ==
    ASSUME IInv, NEW p \in Process, Again(p)
    PROVE  IInv'
<1>0. TypeOK /\ OneFlight /\ Whole /\ Ledger /\ SlotsKept /\ OtherWriter /\ WaitersRest
    BY DEF IInv
<1>1. /\ UNCHANGED <<entry, paid, crashes>> /\ batches' = [batches EXCEPT ![p] = @ + 1]
      /\ phase' = [j \in Job |-> IF ProcessOf[j] = p THEN "next" ELSE phase[j]]
      /\ at' = [j \in Job |-> IF ProcessOf[j] = p THEN 1 ELSE at[j]]
      /\ staging' = [j \in Job |-> IF ProcessOf[j] = p THEN {} ELSE staging[j]]
      /\ stopping' = stopping \ {p} /\ waitedFor' = [what \in Wait |-> waitedFor[what] \ JobsOf(p)]
    BY DEF Again
<1>2. \A j \in Job : ProcessOf[j] = p => phase[j] \in Over /\ phase'[j] = "next"
    BY <1>1 DEF Again, JobsOf
<1>3. \A j \in Job : ProcessOf[j] # p =>
         phase'[j] = phase[j] /\ EntryOf(j)' = EntryOf(j) /\ AtEntry(j)' = AtEntry(j) /\ staging'[j] = staging[j]
    BY <1>1 DEF EntryOf, AtEntry
<1>4. \A k \in Job, q \in Process, x \in Entry : Carries(k, q, x)' <=> Carries(k, q, x)
    BY <1>2, <1>3 DEF Carries, Carried, Over
<1>5. TypeOK'
  <2>1. phase' \in [Job -> Phase] BY <1>0, <1>1 DEF TypeOK, Phase
  <2>2. at' \in [Job -> Nat \ {0}] BY <1>0, <1>1 DEF TypeOK
  <2>3. staging' \in [Job -> SUBSET Files] BY <1>0, <1>1 DEF TypeOK
  <2>4. waitedFor' \in [Wait -> SUBSET Job] /\ stopping' \subseteq Process BY <1>0, <1>1 DEF TypeOK
  <2>5. batches' \in [Process -> Nat] BY <1>0, <1>1 DEF TypeOK
  <2>6. \A k \in Job : phase'[k] \in Flying \cup {"flight"} => AtEntry(k)' BY <1>0, <1>2, <1>3 DEF TypeOK, Flying
  <2> QED BY <1>0, <1>1, <2>1, <2>2, <2>3, <2>4, <2>5, <2>6 DEF TypeOK
<1>6. OneFlight' BY <1>0, <1>2, <1>3 DEF OneFlight, Flying
<1>7. Whole' BY <1>0, <1>1, <1>2, <1>3 DEF Whole
<1>8. Ledger'
  <2> SUFFICES ASSUME NEW q \in Process, NEW x \in Entry
               PROVE  /\ paid'[q][x] \in {0, 1}
                      /\ \A k \in Job : Carries(k, q, x)' => paid'[q][x] = 1
                      /\ \A k \in Job : ProcessOf[k] = q /\ phase'[k] \in {"slot", "running"} /\ EntryOf(k)' = x
                                        => paid'[q][x] = 0
                      /\ paid'[q][x] = 1 /\ (\A k \in Job : ~Carries(k, q, x)') => entry'[x] = Files
      BY DEF Ledger
  <2>1. \A k \in Job : ProcessOf[k] = q /\ phase'[k] \in {"slot", "running"} /\ EntryOf(k)' = x
                       => phase[k] \in {"slot", "running"} /\ EntryOf(k) = x
      BY <1>2, <1>3
  <2> QED BY <2>1, <1>0, <1>1, <1>4 DEF Ledger
<1>9. SlotsKept'
  <2>1. \A q \in Process : Running(q)' \subseteq Running(q) BY <1>2, <1>3 DEF Running, JobsOf
  <2> QED BY <1>0, <2>1, FewerRun
<1>10. OtherWriter'
  <2> SUFFICES ASSUME NEW k \in Job, phase'[k] = "renaming", entry'[EntryOf(k)'] # {}
               PROVE  \E q \in Process \ {ProcessOf[k]} : Settled(q, EntryOf(k))'
      BY DEF OtherWriter
  <2>1. phase[k] = "renaming" /\ EntryOf(k)' = EntryOf(k) BY <1>2, <1>3
  <2>2. PICK x \in Entry : x = EntryOf(k) /\ x = EntryOf(k)' BY <2>1, Alone DEF Carried
  <2>3. PICK q \in Process \ {ProcessOf[k]} : Settled(q, x) BY <2>1, <2>2, <1>0, <1>1 DEF OtherWriter
  <2>4. Settled(q, x)' BY <2>3, <1>1, <1>4 DEF Settled
  <2> QED BY <2>2, <2>3, <2>4 DEF Settled
<1>11. WaitersRest'
  <2> SUFFICES ASSUME NEW j \in waitedFor'["flight"]
               PROVE  ProcessOf[j] \in stopping' /\ phase'[j] \notin AtWork \cup {"slot", "plain"}
      BY DEF WaitersRest, Stopping
  <2>1. j \in Job /\ j \in waitedFor["flight"] /\ ProcessOf[j] # p BY <1>0, <1>1 DEF TypeOK, Wait, JobsOf
  <2> QED BY <2>1, <1>0, <1>1, <1>3 DEF WaitersRest, Stopping
<1> QED BY <1>5, <1>6, <1>7, <1>8, <1>9, <1>10, <1>11 DEF IInv

----------------------------------------------------------------------------
(* The theorems *)

LEMMA Inductive == IInv /\ [Next]_vars => IInv'
<1> SUFFICES ASSUME IInv, [Next]_vars PROVE IInv'
    OBVIOUS
<1>1. CASE UNCHANGED vars
  <2>1. UNCHANGED <<entry, staging, phase, at, stopping, waitedFor, paid, crashes, batches>> BY <1>1 DEF vars
  <2>2. TypeOK' BY <2>1 DEF IInv, TypeOK, AtEntry
  <2>3. OneFlight' /\ WaitersRest' BY <2>1 DEF IInv, OneFlight, WaitersRest, EntryOf, Stopping
  <2>4. Whole' BY <2>1 DEF IInv, Whole
  <2>5. Ledger' BY <2>1 DEF IInv, Ledger, Carries, EntryOf
  <2>6. SlotsKept'
    <3>1. \A p \in Process : Running(p)' \subseteq Running(p) BY <2>1 DEF Running
    <3> QED BY <3>1, FewerRun DEF IInv
  <2>7. OtherWriter' BY <2>1 DEF IInv, OtherWriter, Settled, Carries, EntryOf
  <2> QED BY <2>2, <2>3, <2>4, <2>5, <2>6, <2>7 DEF IInv
<1>2. CASE \E j \in Job : Step(j)
  <2>1. PICK j \in Job : Step(j) BY <1>2
  <2> QED BY <2>1, QuietSteps, RunEndsNext, WriteNext, DropNext, RenameNext DEF Step
<1>3. CASE \E p \in Process : Interrupt(p) \/ Crash(p) \/ Again(p)
    BY <1>3, InterruptNext, CrashNext, AgainNext
<1> QED BY <1>1, <1>2, <1>3 DEF Next

LEMMA InvariantCorrect == Spec => []IInv
BY Initially, Inductive, PTL DEF Spec

\* Type correctness: a thread that waits for a flight or holds one is at a stage with a fingerprint (engine.py, _run_stages).
THEOREM TypeCorrect == Spec => []TypeOK
<1>1. IInv => TypeOK BY DEF IInv
<1> QED BY InvariantCorrect, <1>1, PTL

\* One process works a fingerprint out once, however many threads ask for it, however they fail, and whatever other
\* processes do (engine.py, _flight and _run_cached).
THEOREM PaidOnceCorrect == Spec => []PaidOnce
<1>1. IInv => PaidOnce BY DEF IInv, Ledger, PaidOnce
<1> QED BY InvariantCorrect, <1>1, PTL

\* The commands that share em.parallel_jobs slots never exceed them (stages/em_chain.py, Emx).
THEOREM SlotsKeptCorrect == Spec => []SlotsKept
<1>1. IInv => SlotsKept BY DEF IInv
<1> QED BY InvariantCorrect, <1>1, PTL

\* What is marked complete holds its result, wherever processes die (engine.py, _run_cached: staged, marked, renamed).
THEOREM EntriesWholeCorrect == Spec => []EntriesWhole
<1>1. IInv => EntriesWhole BY DEF IInv, Whole, EntriesWhole, Complete, Files
<1> QED BY InvariantCorrect, <1>1, PTL

\* Only another process's thread can have made an entry appear between a thread's check and its rename (engine.py,
\* _run_cached).
THEOREM RenameSafeCorrect == Spec => []RenameSafe
<1>1. IInv => RenameSafe BY DEF IInv, OtherWriter, RenameSafe, Settled
<1> QED BY InvariantCorrect, <1>1, PTL

\* A thread that waited for a flight when the interrupt came starts no work (engine.py, _run_cached).
THEOREM FlightWaitersCorrect == Spec => []FlightWaitersStartNothing
<1>1. IInv => FlightWaitersStartNothing BY DEF IInv, WaitersRest, FlightWaitersStartNothing
<1> QED BY InvariantCorrect, <1>1, PTL
=============================================================================
