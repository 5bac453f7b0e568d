----------------------------- MODULE LibraryStore -----------------------------
(***************************************************************************)
(* The files of a device library (library.yaml over its part stores) that  *)
(* several processes touch: `ic-opt migrate-store` (migrate_store.py)      *)
(* restamps a part's rows, moves its EMX cache entries and repoints the    *)
(* manifest's pin; readers select the pinned rows, build their dataset and *)
(* measure anchor files once, each under its lock file                     *)
(* (library/dataset.py, library/cache.py, _lock.py).                       *)
(*                                                                         *)
(* A part is its number in the stratum, a generation a stamp, a frequency  *)
(* its place in the order of the files' names.  A migration holds its      *)
(* part's store lock throughout; nothing locks the manifest, and parts are *)
(* migrated beside each other in any order.                                *)
(*                                                                         *)
(* Left out: spec and 0.2.0 stamps (no reader looks at them), a dry run,   *)
(* unpinned parts, evaluations of a part, the cache's second directory,    *)
(* files cut short or of another version (read as missing), and what a     *)
(* file holds.                                                             *)
(***************************************************************************)
EXTENDS Integers, Sequences, FiniteSets, FiniteSetsExt, SequencesExt

CONSTANTS
    NParts,    \* parts of the stratum, in the manifest's order
    Ids,       \* rows of a part
    Freqs,     \* frequencies whose anchors are asked for
    Readers,   \* processes that read the library
    Scenarios  \* the libraries considered

Parts == 1..NParts
Entry == SUBSET {"old", "new"}   \* the keys a point's EMX cache entry is kept under: the legacy one, the current one

\* A scenario: a part's two stamps (old, new) and its rows, cache entries and pin before anything ran; the points without a
\* readable geometry.json (skipped); whether the file system takes locks, the readers' requests, and the bounds migrations,
\* reads, kills.  Parts of one old generation are of one new one: their old stamp names one process file, which has not
\* changed since (the premise of migrate_store.py).
ASSUME LibraryAssumption ==
    /\ NParts \in Nat \ {0} /\ Freqs \subseteq Nat /\ IsFiniteSet(Freqs) /\ IsFiniteSet(Ids)
    /\ \A s \in Scenarios :
          /\ DOMAIN s = {"old", "new", "stamp", "entries", "skipped", "pins", "locks", "requests",
                         "migrations", "reads", "kills"}
          /\ {s.old, s.new, s.pins} \subseteq [Parts -> STRING]
          /\ \A p, q \in Parts : s.old[p] # s.new[q] /\ (s.old[p] = s.old[q] => s.new[p] = s.new[q])
          /\ s.stamp \in [Parts -> [Ids -> STRING]] /\ s.entries \in [Parts -> [Ids -> Entry]]
          /\ s.skipped \in [Parts -> SUBSET Ids]
          /\ s.pins \in [Parts -> STRING] /\ \A p \in Parts : s.pins[p] \in {s.old[p], s.new[p]}
          /\ s.locks \in BOOLEAN /\ s.requests \subseteq Seq(Freqs)
          /\ {s.migrations, s.reads, s.kills} \subseteq Nat

VARIABLES
    scenario,
    stamp,    \* per part the pipeline_fingerprint of each row
    entries,  \* per part and row its EMX cache entry
    pins,     \* library.yaml: the generation each part is pinned to
    migs,     \* the migration of each part
    ended,    \* history: parts whose last migration came to its end
    raced,    \* history: parts whose last migration ran into one of another generation at the manifest
    datasets, \* the keys dataset files are kept under
    anchors,  \* the valid anchor files: a dataset's key and a frequency
    readers,  \* the readers
    left      \* bound: what may still happen

storeVars == <<stamp, entries, pins, migs, ended, raced>>
cacheVars == <<datasets, anchors, readers>>
vars == <<scenario, storeVars, cacheVars, left>>

NoMigration == [at |-> "off", restamp |-> {}, moves |-> {}, pinned |-> FALSE, text |-> <<>>]
NoReader == [at |-> "off", pins |-> <<>>, key |-> <<>>, request |-> <<>>, todo |-> {}, held |-> {}]

Spend(what) == left[what] > 0 /\ left' = [left EXCEPT ![what] = @ - 1]

----------------------------------------------------------------------------
(* Migration *)

OldRows(p) == {i \in Ids : stamp[p][i] = scenario.old[p]}

\* Mutant: every entry under its legacy key, also one whose current key is taken.
EntriesUnderOld(p) == {i \in Ids \ scenario.skipped[p] : "old" \in entries[p][i]}

\* The entries to rename: an entry whose current key is taken stays where it is, and so does one nobody can name.
OldEntries(p) == {i \in Ids \ scenario.skipped[p] : entries[p][i] = {"old"}}

\* Mutant: the manifest looked at only when rows are restamped.
PinnedWithRows(p) == pins[p] = scenario.old[p] /\ OldRows(p) # {}

PinnedToOld(p) == pins[p] = scenario.old[p]

\* A migration of another generation is about to write the manifest as it was when part p was pinned to its old stamp.
OldTextAround(p) ==
    \E q \in Parts : migs[q].at = "write" /\ migs[q].text[p] = scenario.old[p] /\ scenario.old[q] # scenario.old[p]

\* History: whether the migration of part p that begins, or writes the manifest, now, races with one of those.
Race(p) == raced' = IF OldTextAround(p) THEN raced \cup {p} ELSE raced \ {p}

\* Everything is planned under the lock of the part's store before anything is written.
BeginMigrate(p) ==
    /\ migs[p].at = "off"
    /\ Spend("migrations")
    /\ migs' = [migs EXCEPT ![p] = [at |-> "replace", restamp |-> OldRows(p), moves |-> OldEntries(p),
                                    pinned |-> PinnedToOld(p), text |-> <<>>]]
    /\ ended' = ended \ {p} /\ Race(p)
    /\ UNCHANGED <<scenario, stamp, entries, pins, cacheVars>>

\* _backup, _replace: the file with the stamps replaced is renamed over the old one.
ReplaceRows(p) ==
    /\ migs[p].at = "replace"
    /\ stamp' = [stamp EXCEPT ![p] = [i \in Ids |-> IF i \in migs[p].restamp THEN scenario.new[p] ELSE @[i]]]
    /\ migs' = [migs EXCEPT ![p].at = "move", ![p].restamp = {}]
    /\ UNCHANGED <<scenario, entries, pins, ended, raced, cacheVars, left>>

MoveEntry(p) ==
    /\ migs[p].at = "move"
    /\ \E i \in migs[p].moves :
          /\ entries' = [entries EXCEPT ![p][i] = {"new"}]
          /\ migs' = [migs EXCEPT ![p].moves = @ \ {i}]
    /\ UNCHANGED <<scenario, stamp, pins, ended, raced, cacheVars, left>>

\* _repin reads the manifest again ...
ReadManifest(p) ==
    /\ migs[p].at = "move" /\ migs[p].moves = {} /\ migs[p].pinned
    /\ migs' = [migs EXCEPT ![p].at = "write", ![p].text = pins]
    /\ UNCHANGED <<scenario, stamp, entries, pins, ended, raced, cacheVars, left>>

\* ... and writes it with the old stamp replaced wherever it stands, in other parts' pins too; what another migration wrote
\* in between is gone.
Repinned(p, text) == [q \in Parts |-> IF text[q] = scenario.old[p] THEN scenario.new[p] ELSE text[q]]

WriteManifest(p) ==
    /\ migs[p].at = "write"
    /\ pins' = Repinned(p, migs[p].text)
    /\ migs' = [migs EXCEPT ![p] = NoMigration]
    /\ ended' = ended \cup {p} /\ Race(p)
    /\ UNCHANGED <<scenario, stamp, entries, cacheVars, left>>

NothingToRepin(p) ==
    /\ migs[p].at = "move" /\ migs[p].moves = {} /\ ~migs[p].pinned
    /\ migs' = [migs EXCEPT ![p] = NoMigration]
    /\ ended' = ended \cup {p}
    /\ UNCHANGED <<scenario, stamp, entries, pins, raced, cacheVars, left>>

\* Killed, or an error of the file system: what is written stays, the lock goes.
MigrationDies(p) ==
    /\ migs[p].at # "off" /\ Spend("kills")
    /\ migs' = [migs EXCEPT ![p] = NoMigration]
    /\ UNCHANGED <<scenario, stamp, entries, pins, ended, raced, cacheVars>>

MigrationStep(p) == ReplaceRows(p) \/ MoveEntry(p) \/ ReadManifest(p) \/ WriteManifest(p) \/ NothingToRepin(p)

----------------------------------------------------------------------------
(* Readers *)

Move(r, fields) == readers' = [readers EXCEPT ![r] = fields]

\* The manifest is read once; what it pins is looked at part after part.
StartReader(r) ==
    /\ readers[r].at = "off" /\ Spend("reads")
    /\ \E request \in scenario.requests :
          Move(r, [NoReader EXCEPT !.at = "select", !.pins = pins, !.request = request])
    /\ UNCHANGED <<scenario, storeVars, datasets, anchors>>

\* What a part gives a dataset: its rows of the generation, and how many rows it leaves out.
Selected(p, generation) ==
    LET kept == {i \in Ids : stamp[p][i] = generation}
    IN [kept |-> kept, excluded |-> Cardinality(Ids \ kept)]

SelectPart(r) ==
    LET p == Len(readers[r].key) + 1
    IN /\ readers[r].at = "select" /\ p \in Parts
       /\ Move(r, [readers[r] EXCEPT !.key = Append(@, Selected(p, readers[r].pins[p]))])
       /\ UNCHANGED <<scenario, storeVars, datasets, anchors, left>>

File(r, f) == <<readers[r].key, f>>
Requested(r) == ToSet(readers[r].request)
NotMeasured(r, freqs) == {f \in freqs : File(r, f) \notin anchors}

\* The dataset, from its file or built and kept -- its key says what is in it -- and a first look at the anchor files.
ReadAnchors(r) ==
    /\ readers[r].at = "select" /\ Len(readers[r].key) = NParts
    /\ datasets' = datasets \cup {readers[r].key}
    /\ LET todo == NotMeasured(r, Requested(r))
       IN Move(r, IF todo = {} THEN NoReader ELSE [readers[r] EXCEPT !.at = "lock", !.todo = todo])
    /\ UNCHANGED <<scenario, storeVars, anchors, left>>

\* waiting_lock on a file's lock file; where the file system takes no locks, nobody waits.
Free(file) == scenario.locks => \A q \in Readers : \A f \in readers[q].held : File(q, f) # file

\* Mutant: the lock files in the order of the request.
NextOfRequest(r) ==
    LET rest == SelectSeq(readers[r].request, LAMBDA f : f \in readers[r].todo \ readers[r].held)
    IN rest[1]

\* The lock files are taken in the order of their names.
NextName(r) == Min(readers[r].todo \ readers[r].held)

TakeLock(r) ==
    /\ readers[r].at = "lock" /\ readers[r].todo \ readers[r].held # {}
    /\ Free(File(r, NextName(r)))
    /\ Move(r, [readers[r] EXCEPT !.held = @ \cup {NextName(r)}])
    /\ UNCHANGED <<scenario, storeVars, datasets, anchors, left>>

\* Mutant: what was missing before the wait is measured.
MissingBefore(r) == readers[r].todo

\* Another process may have written them while this one waited.
Missing(r) == NotMeasured(r, readers[r].todo)

ReRead(r) ==
    /\ readers[r].at = "lock" /\ readers[r].todo \subseteq readers[r].held
    /\ Move(r, IF Missing(r) = {} THEN NoReader ELSE [readers[r] EXCEPT !.at = "measure", !.todo = Missing(r)])
    /\ UNCHANGED <<scenario, storeVars, datasets, anchors, left>>

\* One pass over the rows measured all of them; each file is written whole, and the locks go with the last.
WriteAnchors(r) ==
    /\ readers[r].at \in {"measure", "write"}
    /\ \E f \in readers[r].todo :
          /\ anchors' = anchors \cup {File(r, f)}
          /\ Move(r, IF readers[r].todo = {f} THEN NoReader
                     ELSE [readers[r] EXCEPT !.at = "write", !.todo = @ \ {f}])
    /\ UNCHANGED <<scenario, storeVars, datasets, left>>

\* A row's sNp cannot be read any more: DatasetError.
MeasureFails(r) ==
    /\ readers[r].at = "measure"
    /\ Move(r, NoReader)
    /\ UNCHANGED <<scenario, storeVars, datasets, anchors, left>>

\* The lock files are let go with the process.
ReaderDies(r) ==
    /\ readers[r].at # "off" /\ Spend("kills")
    /\ Move(r, NoReader)
    /\ UNCHANGED <<scenario, storeVars, datasets, anchors>>

ReaderStep(r) ==
    SelectPart(r) \/ ReadAnchors(r) \/ TakeLock(r) \/ ReRead(r) \/ WriteAnchors(r)

----------------------------------------------------------------------------

Init ==
    /\ scenario \in Scenarios
    /\ stamp = scenario.stamp /\ entries = scenario.entries /\ pins = scenario.pins
    /\ migs = [p \in Parts |-> NoMigration] /\ ended = {} /\ raced = {}
    /\ datasets = {} /\ anchors = {} /\ readers = [r \in Readers |-> NoReader]
    /\ left = [migrations |-> scenario.migrations, reads |-> scenario.reads, kills |-> scenario.kills]

Next ==
    \/ \E p \in Parts : BeginMigrate(p) \/ MigrationStep(p) \/ MigrationDies(p)
    \/ \E r \in Readers : StartReader(r) \/ ReaderStep(r) \/ MeasureFails(r) \/ ReaderDies(r)

\* A reader's own steps are a running process's.
Spec == Init /\ [][Next]_vars /\ \A r \in Readers : WF_vars(ReaderStep(r))

----------------------------------------------------------------------------
(* Properties *)

SelectionType == [kept : SUBSET Ids, excluded : Nat]
KeyType == Seq(SelectionType)

MigrationType ==
    /\ DOMAIN migs = Parts
    /\ \A p \in Parts : LET m == migs[p] IN
          /\ DOMAIN m = {"at", "restamp", "moves", "pinned", "text"}
          /\ m.at \in {"off", "replace", "move", "write"} /\ m.pinned \in BOOLEAN
          /\ m.restamp \subseteq Ids /\ \A i \in m.restamp : stamp[p][i] = scenario.old[p]
          /\ m.moves \subseteq Ids /\ \A i \in m.moves : entries[p][i] = {"old"}
          /\ m.text \in (IF m.at = "write" THEN [Parts -> STRING] ELSE {<<>>})

ReaderType ==
    /\ DOMAIN readers = Readers
    /\ \A r \in Readers : LET d == readers[r] IN
          /\ DOMAIN d = {"at", "pins", "key", "request", "todo", "held"}
          /\ d.at \in {"off", "select", "lock", "measure", "write"}
          /\ d.pins \in (IF d.at = "off" THEN {<<>>} ELSE [Parts -> STRING])
          /\ d.key \in KeyType /\ Len(d.key) <= NParts /\ d.request \in Seq(Freqs)
          /\ d.todo \subseteq Freqs /\ d.held \subseteq Freqs
          /\ d.at \in {"off", "select"} => d.todo = {} /\ d.held = {}
          /\ d.at \in {"measure", "write"} => d.todo # {} /\ d.todo \subseteq d.held
          /\ d.at = "lock" => d.held \subseteq d.todo

\* Every variable has its type, and what a migration has planned can still be done: a row it will restamp bears the old
\* stamp, and an entry it will rename is under its legacy key with the current one free (old.rename would raise).
TypeOK ==
    /\ scenario \in Scenarios
    /\ stamp \in [Parts -> [Ids -> STRING]] /\ entries \in [Parts -> [Ids -> Entry]] /\ pins \in [Parts -> STRING]
    /\ MigrationType /\ ReaderType /\ {ended, raced} \subseteq SUBSET Parts
    /\ datasets \subseteq KeyType /\ anchors \subseteq KeyType \X Freqs
    /\ left \in [migrations : Nat, reads : Nat, kills : Nat]

Measuring(r) == IF readers[r].at \in {"measure", "write"} THEN {File(r, f) : f \in readers[r].todo} ELSE {}

\* Where lock files work, an anchor file is measured by one process at a time and never when it is already there, however
\* the readers' requests overlap and whoever of them dies (anchors_at, computed: a process that waited reads again).
MeasuredOnce ==
    scenario.locks => \A r \in Readers :
        /\ Measuring(r) \cap anchors = {}
        /\ \A q \in Readers \ {r} : Measuring(r) \cap Measuring(q) = {}

\* The rows of part p that either stamp of its generation marks, before anything ran.
OfGeneration(p) == {i \in Ids : scenario.stamp[p][i] \in {scenario.old[p], scenario.new[p]}}

\* The keys of entry i once part p is migrated: the current one instead of the legacy one, unless that is taken already or
\* the point is skipped.
Migrated(p, i) ==
    IF scenario.entries[p][i] = {"old"} /\ i \notin scenario.skipped[p] THEN {"new"} ELSE scenario.entries[p][i]

\* A part whose last migration came to its end -- after however many attempts that died half way, and whatever other parts
\* are being migrated -- has no row of the old stamp left, every entry where it belongs and none lost; under the new stamp
\* it gives a dataset the rows it gave before, and library.yaml pins it to that stamp, unless the migration ran into one of
\* another generation that had read library.yaml and not yet written it.  Migrated again, alone, it gets its pin back.
StoreMigrated ==
    \A p \in ended :
        /\ \A i \in Ids : stamp[p][i] # scenario.old[p] /\ entries[p][i] = Migrated(p, i)
        /\ Selected(p, scenario.new[p]).kept = OfGeneration(p)
        /\ pins[p] = scenario.new[p] \/ p \in raced

\* A reader comes to its end whatever the others ask for and wherever they die: no two wait for each other's lock files.
\* (The polled lock is not fair; the readings are finitely many.)
ReadersEnd == \A r \in Readers : (readers[r].at # "off") ~> (readers[r].at = "off")
=============================================================================
