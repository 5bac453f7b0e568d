-------------------------- MODULE LibraryStoreProofs --------------------------
(***************************************************************************)
(* Theorems about LibraryStore, for every library, any number of parts,    *)
(* rows and frequencies, of readers, migrations and kills.                 *)
(***************************************************************************)
EXTENDS LibraryStore, TableLemmas

----------------------------------------------------------------------------
(* The inductive invariant: the library's store ... *)

MigrationRecord ==
    [at : {"off", "replace", "move", "write"}, restamp : SUBSET Ids, moves : SUBSET Ids, pinned : BOOLEAN,
     text : {<<>>} \cup [Parts -> STRING]]

StoreTypes ==
    /\ scenario \in Scenarios
    /\ stamp \in [Parts -> [Ids -> STRING]] /\ entries \in [Parts -> [Ids -> Entry]]
    /\ pins \in [Parts -> STRING] /\ migs \in [Parts -> MigrationRecord] /\ ended \subseteq Parts /\ raced \subseteq Parts

\* A row's stamp is the one it had, or its generation's new one instead of the old.
Stamps == \A p \in Parts, i \in Ids :
    \/ stamp[p][i] = scenario.stamp[p][i]
    \/ scenario.stamp[p][i] = scenario.old[p] /\ stamp[p][i] = scenario.new[p]

\* An entry is where it was, or where the migration puts it.
Moves == \A p \in Parts, i \in Ids : entries[p][i] \in {scenario.entries[p][i], Migrated(p, i)}

\* Every pin is one of its part's two stamps.
EitherPin(text) == \A p \in Parts : text[p] \in {scenario.old[p], scenario.new[p]}

\* A migration's plan still says all there is to do, and what is behind it is done.
PlanOf(p) ==
    /\ migs[p].at = "replace" => migs[p].restamp = OldRows(p)
    /\ migs[p].at \in {"off", "move", "write"} => migs[p].restamp = {}
    /\ migs[p].at \in {"move", "write"} => OldRows(p) = {}
    /\ migs[p].at \in {"replace", "move"} => migs[p].moves = OldEntries(p)
    /\ migs[p].at \in {"off", "write"} => migs[p].moves = {}
    /\ migs[p].at = "write" => OldEntries(p) = {} /\ migs[p].text \in [Parts -> STRING] /\ EitherPin(migs[p].text)
    /\ migs[p].at # "write" => migs[p].text = <<>>

Plans == \A p \in Parts : PlanOf(p)

\* The part's last migration has its pin behind it, or found it new.
Settled(p) == p \in ended \/ (migs[p].at # "off" /\ ~migs[p].pinned)

\* Then the pin is new and nobody holds a text of the manifest that would put the old one back, or there was a race.
Races == \A p \in Parts : Settled(p) => p \in raced \/ (pins[p] = scenario.new[p] /\ ~OldTextAround(p))

\* What was migrated to the end stays so.
EndedOf(p) == OldRows(p) = {} /\ OldEntries(p) = {}

StoreInv ==
    StoreTypes /\ Stamps /\ Moves /\ EitherPin(pins) /\ Plans /\ Races /\ \A p \in ended : EndedOf(p)

----------------------------------------------------------------------------
(* ... and the files of its cache *)

ReaderRecord ==
    [at : {"off", "select", "lock", "measure", "write"}, pins : {<<>>} \cup [Parts -> STRING], key : KeyType,
     request : Seq(Freqs), todo : SUBSET Freqs, held : SUBSET Freqs]

CacheTypes ==
    /\ readers \in [Readers -> ReaderRecord]
    /\ datasets \subseteq KeyType /\ anchors \subseteq KeyType \X Freqs

ShapeOf(d) ==
    /\ d.at = "off" => d.pins = <<>>
    /\ d.at # "off" => d.pins \in [Parts -> STRING]
    /\ Len(d.key) <= NParts
    /\ d.at \in {"off", "select"} => d.todo = {} /\ d.held = {}
    /\ d.at \in {"measure", "write"} => d.todo # {} /\ d.todo \subseteq d.held
    /\ d.at = "lock" => d.held \subseteq d.todo

\* A lock file has one holder, and what a holder measures is not there.
Locked ==
    scenario.locks =>
        /\ \A r, q \in Readers : r # q => \A f \in readers[r].held, g \in readers[q].held : File(r, f) # File(q, g)
        /\ \A r \in Readers : readers[r].at \in {"measure", "write"} => \A f \in readers[r].todo : File(r, f) \notin anchors

CacheInv == CacheTypes /\ (\A r \in Readers : ShapeOf(readers[r])) /\ Locked

LeftType == left \in [migrations : Nat, reads : Nat, kills : Nat]

IInv == StoreInv /\ CacheInv /\ LeftType

----------------------------------------------------------------------------
(* What the steps share *)

LEMMA SpendKeepsType ==
    ASSUME NEW what \in {"migrations", "reads", "kills"}, LeftType, Spend(what)
    PROVE  LeftType'
<1>1. CASE what = "migrations" BY <1>1 DEF LeftType, Spend
<1>2. CASE what = "reads" BY <1>2 DEF LeftType, Spend
<1>3. CASE what = "kills" BY <1>3 DEF LeftType, Spend
<1> QED BY <1>1, <1>2, <1>3

\* What is assumed of the library.
LEMMA ScenarioFacts ==
    ASSUME scenario \in Scenarios
    PROVE  /\ scenario.old \in [Parts -> STRING] /\ scenario.new \in [Parts -> STRING]
           /\ \A p, q \in Parts : scenario.old[p] # scenario.new[q]
           /\ \A p, q \in Parts : scenario.old[p] = scenario.old[q] => scenario.new[p] = scenario.new[q]
           /\ scenario.stamp \in [Parts -> [Ids -> STRING]] /\ scenario.entries \in [Parts -> [Ids -> Entry]]
           /\ scenario.skipped \in [Parts -> SUBSET Ids]
           /\ scenario.pins \in [Parts -> STRING] /\ EitherPin(scenario.pins)
           /\ scenario.locks \in BOOLEAN /\ scenario.requests \subseteq Seq(Freqs)
           /\ scenario.migrations \in Nat /\ scenario.reads \in Nat /\ scenario.kills \in Nat
BY LibraryAssumption DEF EitherPin

LEMMA Initially == Init => IInv
<1> SUFFICES ASSUME Init PROVE IInv
    OBVIOUS
<1>1. scenario \in Scenarios BY DEF Init
<1>2. \A p \in Parts : migs[p] = NoMigration BY DEF Init
<1>3. StoreInv
  <2>1. StoreTypes BY <1>1, ScenarioFacts DEF Init, StoreTypes, MigrationRecord, NoMigration
  <2>2. Stamps BY DEF Init, Stamps
  <2>3. EitherPin(pins) BY <1>1, ScenarioFacts DEF Init
  <2>4. Plans BY <1>2 DEF Plans, PlanOf, NoMigration
  <2>5. Races BY <1>2 DEF Init, Races, Settled, NoMigration
  <2>6. Moves BY DEF Init, Moves
  <2> QED BY <2>1, <2>2, <2>3, <2>4, <2>5, <2>6 DEF Init, StoreInv
<1>4. CacheInv
  <2>1. <<>> \in KeyType /\ Len(<<>>) = 0 /\ <<>> \in Seq(Freqs) BY DEF KeyType
  <2>2. \A r \in Readers : readers[r] = NoReader BY DEF Init
  <2>3. CacheTypes BY <2>1 DEF Init, CacheTypes, ReaderRecord, NoReader
  <2>4. \A r \in Readers : ShapeOf(readers[r]) BY <2>1, <2>2, LibraryAssumption DEF ShapeOf, NoReader
  <2>5. Locked BY <2>2 DEF Locked, NoReader
  <2> QED BY <2>3, <2>4, <2>5 DEF CacheInv
<1>5. LeftType BY <1>1, ScenarioFacts DEF Init, LeftType
<1> QED BY <1>3, <1>4, <1>5 DEF IInv

----------------------------------------------------------------------------
(* Migrations *)

\* A migration's step touches its own part and the manifest.
LEMMA StoreStep ==
    ASSUME StoreInv, NEW p \in Parts, scenario' = scenario, StoreTypes', Stamps', Moves', EitherPin(pins)',
           \A q \in Parts \ {p} : migs'[q] = migs[q] /\ stamp'[q] = stamp[q] /\ entries'[q] = entries[q],
           PlanOf(p)', Races', ended' \subseteq ended \cup {p}, p \in ended' => EndedOf(p)'
    PROVE  StoreInv'
<1>1. \A q \in Parts \ {p} : OldRows(q)' = OldRows(q) /\ OldEntries(q)' = OldEntries(q)
    BY DEF OldRows, OldEntries
<1>2. Plans'
  <2> SUFFICES ASSUME NEW q \in Parts PROVE PlanOf(q)'
      BY DEF Plans
  <2>1. CASE q = p BY <2>1
  <2>2. CASE q # p
    <3>1. PlanOf(q) BY DEF StoreInv, Plans
    <3>2. EitherPin(migs[q].text)' <=> EitherPin(migs[q].text) BY <2>2 DEF EitherPin
    <3> QED BY <2>2, <3>1, <3>2, <1>1 DEF PlanOf
  <2> QED BY <2>1, <2>2
<1>3. \A q \in ended' : EndedOf(q)'
  <2> SUFFICES ASSUME NEW q \in ended', q # p PROVE EndedOf(q)'
      OBVIOUS
  <2>1. q \in Parts /\ EndedOf(q) BY DEF StoreInv, StoreTypes
  <2> QED BY <2>1, <1>1 DEF EndedOf
<1> QED BY <1>2, <1>3 DEF StoreInv

\* A step that leaves the pins alone settles nobody's, and adds no text of the manifest but what it says.
LEMMA RacesStay ==
    ASSUME StoreInv, scenario' = scenario, pins' = pins, raced' = raced,
           \A q \in Parts : Settled(q)' => Settled(q),
           \A q \in Parts : OldTextAround(q)' => OldTextAround(q) \/ pins[q] = scenario.old[q]
    PROVE  Races'
<1>1. Races /\ scenario \in Scenarios BY DEF StoreInv, StoreTypes
<1>2. \A q \in Parts : scenario.old[q] # scenario.new[q] BY <1>1, ScenarioFacts
<1> SUFFICES ASSUME NEW q \in Parts, Settled(q)', q \notin raced'
             PROVE  pins'[q] = scenario.new[q] /\ ~OldTextAround(q)'
    BY DEF Races
<1>3. pins[q] = scenario.new[q] /\ ~OldTextAround(q) BY <1>1 DEF Races
<1> QED BY <1>2, <1>3

LEMMA BeginMigrateNext ==
    ASSUME StoreInv, NEW p \in Parts, BeginMigrate(p)
    PROVE  StoreInv'
<1>0. StoreTypes /\ Stamps /\ Moves /\ EitherPin(pins) /\ Plans /\ Races /\ \A q \in ended : EndedOf(q)
    BY DEF StoreInv
<1>1. /\ migs' = [migs EXCEPT ![p] = [at |-> "replace", restamp |-> OldRows(p), moves |-> OldEntries(p),
                                      pinned |-> PinnedToOld(p), text |-> <<>>]]
      /\ UNCHANGED <<scenario, stamp, entries, pins>>
      /\ ended' = ended \ {p} /\ raced' = (IF OldTextAround(p) THEN raced \cup {p} ELSE raced \ {p})
    BY DEF BeginMigrate, Race
<1>2. OldRows(p)' = OldRows(p) /\ OldEntries(p)' = OldEntries(p)
    BY <1>1 DEF OldRows, OldEntries
<1>3. PinnedToOld(p) \in BOOLEAN
    BY DEF PinnedToOld
<1>4. /\ migs'[p] = [at |-> "replace", restamp |-> OldRows(p), moves |-> OldEntries(p), pinned |-> PinnedToOld(p),
                     text |-> <<>>]
      /\ \A q \in Parts \ {p} : migs'[q] = migs[q]
    BY <1>0, <1>1 DEF StoreTypes
<1>5. StoreTypes'
  <2>1. OldRows(p) \subseteq Ids /\ OldEntries(p) \subseteq Ids BY DEF OldRows, OldEntries
  <2>2. [at |-> "replace", restamp |-> OldRows(p), moves |-> OldEntries(p), pinned |-> PinnedToOld(p), text |-> <<>>]
        \in MigrationRecord
      BY <2>1, <1>3 DEF MigrationRecord
  <2> QED BY <2>2, <1>0, <1>1 DEF StoreTypes
<1>6. Stamps' /\ Moves' /\ EitherPin(pins)' BY <1>0, <1>1 DEF Stamps, Moves, Migrated, EitherPin
<1>7. PlanOf(p)' BY <1>2, <1>4 DEF PlanOf
<1>8. Races'
  <2> SUFFICES ASSUME NEW q \in Parts, Settled(q)', q \notin raced'
               PROVE  pins'[q] = scenario'.new[q] /\ ~OldTextAround(q)'
      BY DEF Races
  <2>1. OldTextAround(q)' => OldTextAround(q)
      BY <1>1, <1>4 DEF OldTextAround
  <2>2. CASE q = p
    <3>1. ~OldTextAround(p) BY <2>2, <1>1
    <3>2. ~PinnedToOld(p) BY <2>2, <1>1, <1>4 DEF Settled
    <3>3. pins[p] = scenario.new[p] BY <3>2, <1>0 DEF PinnedToOld, EitherPin
    <3> QED BY <2>1, <2>2, <3>1, <3>3, <1>1
  <2>3. CASE q # p
    <3>1. Settled(q) /\ q \notin raced BY <2>3, <1>1, <1>4 DEF Settled
    <3> QED BY <2>1, <3>1, <1>0, <1>1 DEF Races
  <2> QED BY <2>2, <2>3
<1>9. p \notin ended' BY <1>1
<1> QED BY <1>1, <1>4, <1>5, <1>6, <1>7, <1>8, <1>9, StoreStep

LEMMA ReplaceRowsNext ==
    ASSUME StoreInv, NEW p \in Parts, ReplaceRows(p)
    PROVE  StoreInv'
<1>0. StoreTypes /\ Stamps /\ Moves /\ EitherPin(pins) /\ Plans /\ Races /\ \A q \in ended : EndedOf(q)
    BY DEF StoreInv
<1>1. /\ migs[p].at = "replace"
      /\ stamp' = [stamp EXCEPT ![p] = [i \in Ids |-> IF i \in migs[p].restamp THEN scenario.new[p] ELSE @[i]]]
      /\ migs' = [migs EXCEPT ![p].at = "move", ![p].restamp = {}]
      /\ UNCHANGED <<scenario, entries, pins, ended, raced>>
    BY DEF ReplaceRows
<1>2. PlanOf(p) BY <1>0 DEF Plans
<1>3. /\ migs'[p] = [migs[p] EXCEPT !.at = "move", !.restamp = {}] /\ migs'[p] \in MigrationRecord
      /\ \A q \in Parts \ {p} : migs'[q] = migs[q]
    BY <1>0, <1>1 DEF StoreTypes, MigrationRecord
<1>4. /\ \A i \in Ids : stamp'[p][i] = IF stamp[p][i] = scenario.old[p] THEN scenario.new[p] ELSE stamp[p][i]
      /\ \A q \in Parts \ {p} : stamp'[q] = stamp[q]
    BY <1>0, <1>1, <1>2 DEF StoreTypes, PlanOf, OldRows
<1>5. scenario.new[p] \in STRING /\ scenario.new[p] # scenario.old[p]
    BY <1>0, ScenarioFacts DEF StoreTypes
<1>6. StoreTypes'
  <2>1. stamp' \in [Parts -> [Ids -> STRING]] BY <1>0, <1>1, <1>5 DEF StoreTypes
  <2>2. migs' \in [Parts -> MigrationRecord] BY <1>0, <1>1, <1>3 DEF StoreTypes
  <2> QED BY <1>0, <1>1, <2>1, <2>2 DEF StoreTypes
<1>7. OldRows(p)' = {} BY <1>1, <1>4, <1>5 DEF OldRows
<1>8. OldEntries(p)' = OldEntries(p) BY <1>1 DEF OldEntries
<1>9. Stamps' BY <1>0, <1>1, <1>4 DEF Stamps
<1>10. Moves' /\ EitherPin(pins)' BY <1>0, <1>1 DEF Moves, Migrated, EitherPin
<1>11. PlanOf(p)'
  <2>1. /\ migs'[p].at = "move" /\ migs'[p].restamp = {} /\ migs'[p].moves = migs[p].moves
        /\ migs'[p].pinned = migs[p].pinned /\ migs'[p].text = migs[p].text
      BY <1>0, <1>3 DEF StoreTypes, MigrationRecord
  <2> QED BY <2>1, <1>1, <1>2, <1>7, <1>8 DEF PlanOf
<1>12. Races'
  <2>1. \A q \in Parts : /\ migs'[q].pinned = migs[q].pinned /\ (migs'[q].at # "off" => migs[q].at # "off")
                         /\ migs'[q].at = "write" => migs[q].at = "write" /\ migs'[q].text = migs[q].text
      BY <1>0, <1>1, <1>3 DEF StoreTypes, MigrationRecord
  <2>2. \A q \in Parts : Settled(q)' => Settled(q) BY <2>1, <1>1 DEF Settled
  <2>3. \A q \in Parts : OldTextAround(q)' => OldTextAround(q) BY <2>1, <1>1 DEF OldTextAround
  <2> QED BY <2>2, <2>3, <1>1, RacesStay
<1>13. p \in ended' => EndedOf(p)' BY <1>0, <1>1, <1>7, <1>8 DEF EndedOf
<1> QED BY <1>1, <1>3, <1>4, <1>6, <1>9, <1>10, <1>11, <1>12, <1>13, StoreStep

LEMMA MoveEntryNext ==
    ASSUME StoreInv, NEW p \in Parts, MoveEntry(p)
    PROVE  StoreInv'
<1>0. StoreTypes /\ Stamps /\ Moves /\ EitherPin(pins) /\ Plans /\ Races /\ \A q \in ended : EndedOf(q)
    BY DEF StoreInv
<1>1. PICK i \in migs[p].moves :
         /\ migs[p].at = "move"
         /\ entries' = [entries EXCEPT ![p][i] = {"new"}] /\ migs' = [migs EXCEPT ![p].moves = @ \ {i}]
         /\ UNCHANGED <<scenario, stamp, pins, ended, raced>>
    BY DEF MoveEntry
<1>2. PlanOf(p) BY <1>0 DEF Plans
<1>3. i \in Ids BY <1>0 DEF StoreTypes, MigrationRecord
<1>4. /\ migs'[p] = [migs[p] EXCEPT !.moves = @ \ {i}] /\ migs'[p] \in MigrationRecord
      /\ \A q \in Parts \ {p} : migs'[q] = migs[q]
    BY <1>0, <1>1 DEF StoreTypes, MigrationRecord
<1>5. /\ entries' \in [Parts -> [Ids -> Entry]]
      /\ \A q \in Parts \ {p} : entries'[q] = entries[q]
      /\ \A k \in Ids : entries'[p][k] = IF k = i THEN {"new"} ELSE entries[p][k]
    BY <1>0, <1>1, <1>3 DEF StoreTypes, Entry
<1>6. StoreTypes' BY <1>0, <1>1, <1>4, <1>5 DEF StoreTypes
<1>7. OldRows(p)' = OldRows(p) BY <1>1 DEF OldRows
<1>8. OldEntries(p)' = OldEntries(p) \ {i} BY <1>1, <1>5 DEF OldEntries
<1>9. Stamps' /\ Moves' /\ EitherPin(pins)'
  <2>1. i \in OldEntries(p) BY <1>1, <1>2 DEF PlanOf
  <2>2. Migrated(p, i) = {"new"} BY <2>1, <1>0, <1>3 DEF OldEntries, Moves, Migrated
  <2>3. \A q \in Parts, k \in Ids : Migrated(q, k)' = Migrated(q, k) BY <1>1 DEF Migrated
  <2>4. Moves' BY <2>2, <2>3, <1>0, <1>1, <1>5 DEF Moves
  <2> QED BY <2>4, <1>0, <1>1 DEF Stamps, EitherPin
<1>10. /\ migs'[p].at = "move" /\ migs'[p].restamp = migs[p].restamp /\ migs'[p].moves = migs[p].moves \ {i}
       /\ migs'[p].pinned = migs[p].pinned /\ migs'[p].text = migs[p].text
    BY <1>0, <1>1, <1>4 DEF StoreTypes, MigrationRecord
<1>11. PlanOf(p)' BY <1>1, <1>2, <1>7, <1>8, <1>10 DEF PlanOf
<1>12. Races'
  <2>1. \A q \in Parts : Settled(q)' => Settled(q) BY <1>1, <1>4, <1>10 DEF Settled
  <2>2. \A q \in Parts : OldTextAround(q)' => OldTextAround(q) BY <1>1, <1>4, <1>10 DEF OldTextAround
  <2> QED BY <2>1, <2>2, <1>1, RacesStay
<1>13. p \in ended' => EndedOf(p)' BY <1>0, <1>1, <1>7, <1>8 DEF EndedOf
<1> QED BY <1>1, <1>4, <1>5, <1>6, <1>9, <1>11, <1>12, <1>13, StoreStep

LEMMA ReadManifestNext ==
    ASSUME StoreInv, NEW p \in Parts, ReadManifest(p)
    PROVE  StoreInv'
<1>0. StoreTypes /\ Stamps /\ Moves /\ EitherPin(pins) /\ Plans /\ Races /\ \A q \in ended : EndedOf(q)
    BY DEF StoreInv
<1>1. /\ migs[p].at = "move" /\ migs[p].moves = {}
      /\ migs' = [migs EXCEPT ![p].at = "write", ![p].text = pins]
      /\ UNCHANGED <<scenario, stamp, entries, pins, ended, raced>>
    BY DEF ReadManifest
<1>2. PlanOf(p) BY <1>0 DEF Plans
<1>3. /\ migs'[p] = [migs[p] EXCEPT !.at = "write", !.text = pins] /\ migs'[p] \in MigrationRecord
      /\ \A q \in Parts \ {p} : migs'[q] = migs[q]
    BY <1>0, <1>1 DEF StoreTypes, MigrationRecord
<1>4. StoreTypes' BY <1>0, <1>1, <1>3 DEF StoreTypes
<1>5. OldRows(p)' = OldRows(p) /\ OldEntries(p)' = OldEntries(p) BY <1>1 DEF OldRows, OldEntries
<1>6. Stamps' /\ Moves' /\ EitherPin(pins)' BY <1>0, <1>1 DEF Stamps, Moves, Migrated, EitherPin
<1>7. /\ migs'[p].at = "write" /\ migs'[p].restamp = migs[p].restamp /\ migs'[p].moves = migs[p].moves
      /\ migs'[p].pinned = migs[p].pinned /\ migs'[p].text = pins
    BY <1>0, <1>3 DEF StoreTypes, MigrationRecord
<1>8. PlanOf(p)'
  <2>1. EitherPin(migs[p].text)' BY <1>0, <1>1, <1>7 DEF EitherPin
  <2> QED BY <2>1, <1>0, <1>1, <1>2, <1>5, <1>7 DEF PlanOf, StoreTypes
<1>9. Races'
  <2>1. \A q \in Parts : Settled(q)' => Settled(q)
      BY <1>1, <1>3, <1>7 DEF Settled
  <2>2. \A q \in Parts : migs'[q].at = "write" => migs'[q].text = pins \/ (migs[q].at = "write" /\ migs'[q] = migs[q])
      BY <1>1, <1>3, <1>7
  <2>3. \A q \in Parts : OldTextAround(q)' => OldTextAround(q) \/ pins[q] = scenario.old[q]
      BY <2>2, <1>1 DEF OldTextAround
  <2> QED BY <2>1, <2>3, <1>1, RacesStay
<1>10. p \in ended' => EndedOf(p)' BY <1>0, <1>1, <1>5 DEF EndedOf
<1> QED BY <1>1, <1>3, <1>4, <1>6, <1>8, <1>9, <1>10, StoreStep

\* A pin that was settled without a race is not taken back: the text names the new stamp, or the part's old stamp is one
\* this migration replaces.
LEMMA WriteManifestNext ==
    ASSUME StoreInv, NEW p \in Parts, WriteManifest(p)
    PROVE  StoreInv'
<1>0. StoreTypes /\ Stamps /\ Moves /\ EitherPin(pins) /\ Plans /\ Races /\ \A q \in ended : EndedOf(q)
    BY DEF StoreInv
<1>1. /\ migs[p].at = "write" /\ pins' = Repinned(p, migs[p].text) /\ migs' = [migs EXCEPT ![p] = NoMigration]
      /\ ended' = ended \cup {p} /\ raced' = (IF OldTextAround(p) THEN raced \cup {p} ELSE raced \ {p})
      /\ UNCHANGED <<scenario, stamp, entries>>
    BY DEF WriteManifest, Race
<1>2. PlanOf(p) BY <1>0 DEF Plans
<1>3. migs[p].text \in [Parts -> STRING] /\ EitherPin(migs[p].text) BY <1>1, <1>2 DEF PlanOf
<1>4. \A q \in Parts : pins'[q] = IF migs[p].text[q] = scenario.old[p] THEN scenario.new[p] ELSE migs[p].text[q]
    BY <1>1 DEF Repinned
<1>5. /\ scenario.old \in [Parts -> STRING] /\ scenario.new \in [Parts -> STRING]
      /\ \A a, b \in Parts : scenario.old[a] # scenario.new[b]
      /\ \A a, b \in Parts : scenario.old[a] = scenario.old[b] => scenario.new[a] = scenario.new[b]
    BY <1>0, ScenarioFacts DEF StoreTypes
<1>6. pins'[p] = scenario.new[p] BY <1>3, <1>4 DEF EitherPin
<1>7. EitherPin(pins)'
  <2> SUFFICES ASSUME NEW q \in Parts PROVE pins'[q] \in {scenario.old[q], scenario.new[q]}
      BY <1>1 DEF EitherPin
  <2>1. migs[p].text[q] \in {scenario.old[q], scenario.new[q]} BY <1>3 DEF EitherPin
  <2> QED BY <2>1, <1>4, <1>5
<1>8. \A q \in Parts : ~OldTextAround(q) => pins'[q] = scenario.new[q]
  <2> SUFFICES ASSUME NEW q \in Parts, ~OldTextAround(q) PROVE pins'[q] = scenario.new[q]
      OBVIOUS
  <2>1. migs[p].text[q] \in {scenario.old[q], scenario.new[q]} BY <1>3 DEF EitherPin
  <2>2. CASE migs[p].text[q] = scenario.old[q]
    <3>1. scenario.old[p] = scenario.old[q] BY <2>2, <1>1 DEF OldTextAround
    <3> QED BY <3>1, <2>2, <1>4, <1>5
  <2>3. CASE migs[p].text[q] = scenario.new[q] BY <2>3, <1>4, <1>5
  <2> QED BY <2>1, <2>2, <2>3
<1>9. migs'[p] = NoMigration /\ \A q \in Parts \ {p} : migs'[q] = migs[q]
    BY <1>0, <1>1 DEF StoreTypes
<1>10. StoreTypes'
  <2>1. NoMigration \in MigrationRecord BY DEF NoMigration, MigrationRecord
  <2>2. pins' \in [Parts -> STRING] BY <1>1, <1>3, <1>5 DEF Repinned
  <2> QED BY <2>1, <2>2, <1>0, <1>1 DEF StoreTypes
<1>11. OldRows(p)' = {} /\ OldEntries(p)' = {} BY <1>1, <1>2 DEF OldRows, OldEntries, PlanOf
<1>12. Stamps' /\ Moves' BY <1>0, <1>1 DEF Stamps, Moves, Migrated
<1>13. PlanOf(p)' BY <1>9 DEF PlanOf, NoMigration
<1>14. Races'
  <2> SUFFICES ASSUME NEW q \in Parts, Settled(q)', q \notin raced'
               PROVE  pins'[q] = scenario.new[q] /\ ~OldTextAround(q)'
      BY <1>1 DEF Races
  <2>1. OldTextAround(q)' => OldTextAround(q)
      BY <1>1, <1>9 DEF OldTextAround, NoMigration
  <2>2. ~OldTextAround(q)
    <3>1. CASE q = p BY <3>1, <1>1
    <3>2. CASE q # p
      <4>1. Settled(q) /\ q \notin raced BY <3>2, <1>1, <1>9 DEF Settled
      <4> QED BY <4>1, <1>0 DEF Races
    <3> QED BY <3>1, <3>2
  <2> QED BY <2>1, <2>2, <1>8
<1>15. EndedOf(p)' BY <1>11 DEF EndedOf
<1> QED BY <1>1, <1>7, <1>9, <1>10, <1>12, <1>13, <1>14, <1>15, StoreStep

LEMMA MigrationOverNext ==
    ASSUME StoreInv, NEW p \in Parts, NothingToRepin(p) \/ MigrationDies(p)
    PROVE  StoreInv'
<1>0. StoreTypes /\ Stamps /\ Moves /\ EitherPin(pins) /\ Plans /\ Races /\ \A q \in ended : EndedOf(q)
    BY DEF StoreInv
<1>1. migs' = [migs EXCEPT ![p] = NoMigration] /\ UNCHANGED <<scenario, stamp, entries, pins, raced>>
    BY DEF NothingToRepin, MigrationDies
<1>2. PlanOf(p) BY <1>0 DEF Plans
<1>3. migs'[p] = NoMigration /\ \A q \in Parts \ {p} : migs'[q] = migs[q]
    BY <1>0, <1>1 DEF StoreTypes
<1>4. OldRows(p)' = OldRows(p) /\ OldEntries(p)' = OldEntries(p) BY <1>1 DEF OldRows, OldEntries
<1>5. ended' \subseteq ended \cup {p} /\ (p \in ended' => EndedOf(p)')
  <2>1. CASE MigrationDies(p) BY <2>1, <1>0, <1>1, <1>4 DEF MigrationDies, EndedOf
  <2>2. CASE NothingToRepin(p)
    <3>1. OldRows(p) = {} /\ OldEntries(p) = {} BY <2>2, <1>2 DEF NothingToRepin, PlanOf
    <3> QED BY <2>2, <3>1, <1>1, <1>4 DEF NothingToRepin, EndedOf
  <2> QED BY <2>1, <2>2
<1>6. StoreTypes'
  <2>1. NoMigration \in MigrationRecord BY DEF NoMigration, MigrationRecord
  <2> QED BY <2>1, <1>0, <1>1, <1>5 DEF StoreTypes
<1>7. Stamps' /\ Moves' /\ EitherPin(pins)' BY <1>0, <1>1 DEF Stamps, Moves, Migrated, EitherPin
<1>8. PlanOf(p)' BY <1>3 DEF PlanOf, NoMigration
<1>9. Races'
  <2>1. \A q \in Parts : Settled(q)' => Settled(q)
    <3>1. CASE MigrationDies(p) BY <3>1, <1>3 DEF MigrationDies, Settled, NoMigration
    <3>2. CASE NothingToRepin(p) BY <3>2, <1>3 DEF NothingToRepin, Settled, NoMigration
    <3> QED BY <3>1, <3>2
  <2>2. \A q \in Parts : OldTextAround(q)' => OldTextAround(q) BY <1>1, <1>3 DEF OldTextAround, NoMigration
  <2> QED BY <2>1, <2>2, <1>1, RacesStay
<1> QED BY <1>1, <1>3, <1>5, <1>6, <1>7, <1>8, <1>9, StoreStep

----------------------------------------------------------------------------
(* Readers *)

\* A reader's step: the files it holds are its own, and nobody measures the anchors it writes.
LEMMA CacheStep ==
    ASSUME CacheInv, scenario' = scenario, NEW r \in Readers, NEW d \in ReaderRecord, ShapeOf(d),
           readers' = [readers EXCEPT ![r] = d], datasets' \subseteq KeyType, anchors' \subseteq KeyType \X Freqs,
           scenario.locks =>
              /\ \A q \in Readers \ {r} : \A f \in d.held, g \in readers[q].held : <<d.key, f>> # File(q, g)
              /\ d.at \in {"measure", "write"} => \A f \in d.todo : <<d.key, f>> \notin anchors'
              /\ \A q \in Readers \ {r} : readers[q].at \in {"measure", "write"} =>
                    \A f \in readers[q].todo : File(q, f) \notin anchors'
    PROVE  CacheInv'
<1>0. CacheTypes /\ (\A q \in Readers : ShapeOf(readers[q])) /\ Locked
    BY DEF CacheInv
<1>1. readers'[r] = d /\ \A q \in Readers \ {r} : readers'[q] = readers[q]
    BY <1>0 DEF CacheTypes
<1>2. \A f : File(r, f)' = <<d.key, f>>
    BY <1>1 DEF File
<1>3. \A q \in Readers \ {r} : \A f : File(q, f)' = File(q, f)
    BY <1>1 DEF File
<1>4. CacheTypes' BY <1>0 DEF CacheTypes
<1>5. \A q \in Readers : ShapeOf(readers[q])' BY <1>0, <1>1 DEF ShapeOf
<1>6. Locked'
  <2> SUFFICES ASSUME scenario.locks
               PROVE  /\ \A a, b \in Readers : a # b =>
                            \A f \in readers'[a].held, g \in readers'[b].held : File(a, f)' # File(b, g)'
                      /\ \A a \in Readers : readers'[a].at \in {"measure", "write"} =>
                            \A f \in readers'[a].todo : File(a, f)' \notin anchors'
      BY DEF Locked
  <2>1. ASSUME NEW a \in Readers, NEW b \in Readers, a # b, NEW f \in readers'[a].held, NEW g \in readers'[b].held
        PROVE  File(a, f)' # File(b, g)'
    <3>1. CASE a = r BY <3>1, <2>1, <1>1, <1>2, <1>3
    <3>2. CASE b = r BY <3>2, <2>1, <1>1, <1>2, <1>3
    <3>3. CASE a # r /\ b # r BY <3>3, <2>1, <1>0, <1>1, <1>3 DEF Locked
    <3> QED BY <3>1, <3>2, <3>3
  <2>2. ASSUME NEW a \in Readers, readers'[a].at \in {"measure", "write"}, NEW f \in readers'[a].todo
        PROVE  File(a, f)' \notin anchors'
    <3>1. CASE a = r BY <3>1, <2>2, <1>1, <1>2
    <3>2. CASE a # r BY <3>2, <2>2, <1>1, <1>3
    <3> QED BY <3>1, <3>2
  <2> QED BY <2>1, <2>2
<1> QED BY <1>4, <1>5, <1>6 DEF CacheInv

\* A step that writes no anchor and takes no lock file.
LEMMA QuietStep ==
    ASSUME CacheInv, scenario' = scenario, NEW r \in Readers, NEW d \in ReaderRecord, ShapeOf(d),
           readers' = [readers EXCEPT ![r] = d], datasets' \subseteq KeyType, anchors' = anchors,
           d.held = {} \/ (d.held \subseteq readers[r].held /\ d.key = readers[r].key),
           d.at \in {"measure", "write"} => \A f \in d.todo : <<d.key, f>> \notin anchors
    PROVE  CacheInv'
<1>0. CacheTypes /\ Locked
    BY DEF CacheInv
<1>1. scenario.locks => \A q \in Readers \ {r} : \A f \in d.held, g \in readers[q].held : <<d.key, f>> # File(q, g)
    BY <1>0 DEF Locked, File
<1>2. scenario.locks => \A q \in Readers \ {r} : readers[q].at \in {"measure", "write"} =>
                           \A f \in readers[q].todo : File(q, f) \notin anchors'
    BY <1>0 DEF Locked
<1> QED BY <1>0, <1>1, <1>2, CacheStep DEF CacheTypes

\* The reader ends: it holds nothing.
LEMMA ReaderEnds ==
    ASSUME CacheInv, scenario' = scenario, NEW r \in Readers, readers' = [readers EXCEPT ![r] = NoReader],
           datasets' \subseteq KeyType, anchors' = anchors
    PROVE  CacheInv'
<1>1. <<>> \in KeyType /\ Len(<<>>) = 0 /\ <<>> \in Seq(Freqs) BY DEF KeyType
<1>2. NoReader \in ReaderRecord BY <1>1 DEF ReaderRecord, NoReader
<1>3. ShapeOf(NoReader) BY <1>1, LibraryAssumption DEF ShapeOf, NoReader
<1>4. NoReader.held = {} /\ NoReader.at = "off" BY DEF NoReader
<1> QED BY <1>2, <1>3, <1>4, QuietStep

LEMMA StartReaderNext ==
    ASSUME StoreTypes, CacheInv, NEW r \in Readers, StartReader(r)
    PROVE  CacheInv'
<1>1. PICK request \in scenario.requests :
         readers' = [readers EXCEPT ![r] = [NoReader EXCEPT !.at = "select", !.pins = pins, !.request = request]]
    BY DEF StartReader, Move
<1>2. scenario' = scenario /\ UNCHANGED <<datasets, anchors>> BY DEF StartReader
<1> DEFINE d == [NoReader EXCEPT !.at = "select", !.pins = pins, !.request = request]
<1>3. readers' = [readers EXCEPT ![r] = d] BY <1>1
<1>4. <<>> \in KeyType /\ Len(<<>>) = 0 /\ <<>> \in Seq(Freqs) BY DEF KeyType
<1>5. pins \in [Parts -> STRING] /\ request \in Seq(Freqs) BY ScenarioFacts DEF StoreTypes
<1>6. NoReader \in ReaderRecord BY <1>4 DEF ReaderRecord, NoReader
<1>7. d \in ReaderRecord BY <1>5, <1>6 DEF ReaderRecord
<1>8. d.at = "select" /\ d.pins = pins /\ d.key = <<>> /\ d.todo = {} /\ d.held = {} BY <1>6 DEF ReaderRecord, NoReader
<1> HIDE DEF d
<1>9. ShapeOf(d) BY <1>4, <1>5, <1>8, LibraryAssumption DEF ShapeOf
<1>10. datasets' \subseteq KeyType /\ anchors' = anchors BY <1>2 DEF CacheInv, CacheTypes
<1> QED BY <1>2, <1>3, <1>7, <1>8, <1>9, <1>10, QuietStep

LEMMA SelectPartNext ==
    ASSUME CacheInv, NEW r \in Readers, SelectPart(r)
    PROVE  CacheInv'
<1>0. CacheTypes /\ ShapeOf(readers[r]) /\ readers[r] \in ReaderRecord
    BY DEF CacheInv, CacheTypes
<1> DEFINE p == Len(readers[r].key) + 1
           part == Selected(p, readers[r].pins[p])
           d == [readers[r] EXCEPT !.key = Append(@, part)]
<1>1. readers[r].at = "select" /\ p \in Parts /\ readers' = [readers EXCEPT ![r] = d]
      /\ UNCHANGED <<scenario, datasets, anchors>>
    BY DEF SelectPart, Move
<1>2. part \in SelectionType
  <2> DEFINE kept == {i \in Ids : stamp[p][i] = readers[r].pins[p]}
  <2>1. IsFiniteSet(Ids \ kept) BY LibraryAssumption, FS_Subset
  <2>2. Cardinality(Ids \ kept) \in Nat BY <2>1, FS_CardinalityType
  <2> QED BY <2>2 DEF Selected, SelectionType
<1>3. readers[r].key \in Seq(SelectionType) BY <1>0 DEF ReaderRecord, KeyType
<1> HIDE DEF part
<1>4. Append(readers[r].key, part) \in KeyType /\ Len(Append(readers[r].key, part)) = p
    BY <1>2, <1>3 DEF KeyType
<1>5. d \in ReaderRecord BY <1>0, <1>4 DEF ReaderRecord
<1>6. /\ d.at = "select" /\ d.pins = readers[r].pins /\ d.key = Append(readers[r].key, part)
      /\ d.todo = {} /\ d.held = {}
    BY <1>0, <1>1 DEF ReaderRecord, ShapeOf
<1>7. p <= NParts BY <1>1 DEF Parts
<1>8. ShapeOf(d) BY <1>0, <1>1, <1>4, <1>6, <1>7 DEF ShapeOf
<1>9. datasets' \subseteq KeyType BY <1>0, <1>1 DEF CacheTypes
<1> HIDE DEF d, p
<1> QED BY <1>1, <1>5, <1>6, <1>8, <1>9, QuietStep

LEMMA ReadAnchorsNext ==
    ASSUME CacheInv, NEW r \in Readers, ReadAnchors(r)
    PROVE  CacheInv'
<1>0. CacheTypes /\ ShapeOf(readers[r]) /\ readers[r] \in ReaderRecord
    BY DEF CacheInv, CacheTypes
<1> DEFINE todo == NotMeasured(r, Requested(r))
           d == [readers[r] EXCEPT !.at = "lock", !.todo = todo]
<1>1. /\ readers[r].at = "select" /\ datasets' = datasets \cup {readers[r].key}
      /\ readers' = [readers EXCEPT ![r] = IF todo = {} THEN NoReader ELSE d] /\ UNCHANGED <<scenario, anchors>>
    BY DEF ReadAnchors, Move
<1>2. datasets' \subseteq KeyType BY <1>0, <1>1 DEF CacheTypes, ReaderRecord
<1>3. todo \subseteq Freqs
  <2>1. readers[r].request \in Seq(Freqs) BY <1>0 DEF ReaderRecord
  <2>2. ToSet(readers[r].request) \subseteq Freqs BY <2>1 DEF ToSet
  <2> QED BY <2>2 DEF NotMeasured, Requested
<1> HIDE DEF todo
<1>4. CASE todo = {} BY <1>1, <1>2, <1>4, ReaderEnds
<1>5. CASE todo # {}
  <2>1. d \in ReaderRecord BY <1>0, <1>3 DEF ReaderRecord
  <2>2. /\ d.at = "lock" /\ d.todo = todo /\ d.held = {} /\ d.key = readers[r].key /\ d.pins = readers[r].pins
      BY <1>0, <1>1 DEF ReaderRecord, ShapeOf
  <2>3. ShapeOf(d) BY <2>2, <1>0, <1>1 DEF ShapeOf
  <2> HIDE DEF d
  <2>4. readers' = [readers EXCEPT ![r] = d] BY <1>1, <1>5
  <2> QED BY <1>1, <1>2, <2>1, <2>2, <2>3, <2>4, QuietStep
<1> QED BY <1>4, <1>5

\* The lock file of the smallest frequency not held yet, once no other reader holds it.
LEMMA TakeLockNext ==
    ASSUME CacheInv, NEW r \in Readers, TakeLock(r)
    PROVE  CacheInv'
<1>0. CacheTypes /\ ShapeOf(readers[r]) /\ readers[r] \in ReaderRecord /\ Locked
    BY DEF CacheInv, CacheTypes
<1> DEFINE n == NextName(r)
           d == [readers[r] EXCEPT !.held = @ \cup {n}]
<1>1. /\ readers[r].at = "lock" /\ readers[r].todo \ readers[r].held # {} /\ Free(File(r, n))
      /\ readers' = [readers EXCEPT ![r] = d] /\ UNCHANGED <<scenario, datasets, anchors>>
    BY DEF TakeLock, Move
<1>2. n \in readers[r].todo \ readers[r].held
  <2>1. readers[r].todo \ readers[r].held \subseteq Freqs BY <1>0 DEF ReaderRecord
  <2>2. readers[r].todo \ readers[r].held \subseteq Nat /\ IsFiniteSet(readers[r].todo \ readers[r].held)
      BY <2>1, LibraryAssumption, FS_Subset
  <2> QED BY <2>2, <1>1, MinOfNats DEF NextName
<1> HIDE DEF n
<1>3. d \in ReaderRecord BY <1>0, <1>2 DEF ReaderRecord
<1>4. /\ d.at = "lock" /\ d.todo = readers[r].todo /\ d.held = readers[r].held \cup {n} /\ d.key = readers[r].key
      /\ d.pins = readers[r].pins
    BY <1>0, <1>1 DEF ReaderRecord
<1>5. ShapeOf(d) BY <1>0, <1>1, <1>2, <1>4 DEF ShapeOf
<1> HIDE DEF d
<1>6. scenario.locks => \A q \in Readers \ {r} : \A f \in d.held, g \in readers[q].held : <<d.key, f>> # File(q, g)
  <2> SUFFICES ASSUME scenario.locks, NEW q \in Readers \ {r}, NEW f \in d.held, NEW g \in readers[q].held
               PROVE  <<d.key, f>> # File(q, g)
      OBVIOUS
  <2>1. CASE f = n BY <2>1, <1>1, <1>4 DEF Free, File
  <2>2. CASE f # n BY <2>2, <1>0, <1>4 DEF Locked, File
  <2> QED BY <2>1, <2>2
<1>7. scenario.locks => \A q \in Readers \ {r} : readers[q].at \in {"measure", "write"} =>
                           \A f \in readers[q].todo : File(q, f) \notin anchors'
    BY <1>0, <1>1 DEF Locked
<1>8. datasets' \subseteq KeyType /\ anchors' \subseteq KeyType \X Freqs BY <1>0, <1>1 DEF CacheTypes
<1> QED BY <1>1, <1>3, <1>4, <1>5, <1>6, <1>7, <1>8, CacheStep

\* Under the locks the files are looked at again.
LEMMA ReReadNext ==
    ASSUME CacheInv, NEW r \in Readers, ReRead(r)
    PROVE  CacheInv'
<1>0. CacheTypes /\ ShapeOf(readers[r]) /\ readers[r] \in ReaderRecord
    BY DEF CacheInv, CacheTypes
<1> DEFINE todo == Missing(r)
           d == [readers[r] EXCEPT !.at = "measure", !.todo = todo]
<1>1. /\ readers[r].at = "lock" /\ readers[r].todo \subseteq readers[r].held
      /\ readers' = [readers EXCEPT ![r] = IF todo = {} THEN NoReader ELSE d]
      /\ UNCHANGED <<scenario, datasets, anchors>>
    BY DEF ReRead, Move
<1>2. datasets' \subseteq KeyType BY <1>0, <1>1 DEF CacheTypes
<1>3. todo \subseteq readers[r].todo /\ \A f \in todo : <<readers[r].key, f>> \notin anchors
    BY DEF Missing, NotMeasured, File
<1> HIDE DEF todo
<1>4. CASE todo = {} BY <1>1, <1>2, <1>4, ReaderEnds
<1>5. CASE todo # {}
  <2>1. d \in ReaderRecord BY <1>0, <1>3 DEF ReaderRecord
  <2>2. /\ d.at = "measure" /\ d.todo = todo /\ d.held = readers[r].held /\ d.key = readers[r].key
        /\ d.pins = readers[r].pins
      BY <1>0 DEF ReaderRecord
  <2>3. ShapeOf(d) BY <2>2, <1>0, <1>1, <1>3, <1>5 DEF ShapeOf
  <2> HIDE DEF d
  <2>4. readers' = [readers EXCEPT ![r] = d] BY <1>1, <1>5
  <2> QED BY <1>1, <1>2, <1>3, <2>1, <2>2, <2>3, <2>4, QuietStep
<1> QED BY <1>4, <1>5

LEMMA WriteAnchorsNext ==
    ASSUME CacheInv, NEW r \in Readers, WriteAnchors(r)
    PROVE  CacheInv'
<1>0. CacheTypes /\ (\A q \in Readers : ShapeOf(readers[q]) /\ readers[q] \in ReaderRecord) /\ Locked
    BY DEF CacheInv, CacheTypes
<1>1. PICK f \in readers[r].todo :
         /\ readers[r].at \in {"measure", "write"} /\ anchors' = anchors \cup {File(r, f)}
         /\ readers' = [readers EXCEPT ![r] = IF readers[r].todo = {f} THEN NoReader
                                              ELSE [readers[r] EXCEPT !.at = "write", !.todo = @ \ {f}]]
         /\ UNCHANGED <<scenario, datasets>>
    BY DEF WriteAnchors, Move
<1>2. readers[r].todo \subseteq readers[r].held /\ readers[r].held \subseteq Freqs /\ readers[r].key \in KeyType
    BY <1>0, <1>1 DEF ShapeOf, ReaderRecord
<1>3. datasets' \subseteq KeyType BY <1>0, <1>1 DEF CacheTypes
<1>4. anchors' \subseteq KeyType \X Freqs BY <1>0, <1>1, <1>2 DEF CacheTypes, File
<1>5. scenario.locks => \A q \in Readers \ {r} : readers[q].at \in {"measure", "write"} =>
                           \A g \in readers[q].todo : File(q, g) \notin anchors'
  <2> SUFFICES ASSUME scenario.locks, NEW q \in Readers \ {r}, readers[q].at \in {"measure", "write"},
                      NEW g \in readers[q].todo
               PROVE  File(q, g) \notin anchors'
      OBVIOUS
  <2>1. g \in readers[q].held BY <1>0 DEF ShapeOf
  <2>2. File(q, g) # File(r, f) BY <2>1, <1>0, <1>2 DEF Locked
  <2>3. File(q, g) \notin anchors BY <1>0 DEF Locked
  <2> QED BY <2>2, <2>3, <1>1
<1>6. CASE readers[r].todo = {f}
  <2>1. <<>> \in KeyType /\ Len(<<>>) = 0 /\ <<>> \in Seq(Freqs) BY DEF KeyType
  <2>2. NoReader \in ReaderRecord BY <2>1 DEF ReaderRecord, NoReader
  <2>3. ShapeOf(NoReader) BY <2>1, LibraryAssumption DEF ShapeOf, NoReader
  <2>4. NoReader.held = {} /\ NoReader.at = "off" BY DEF NoReader
  <2>5. readers' = [readers EXCEPT ![r] = NoReader] BY <1>1, <1>6
  <2> QED BY <1>1, <1>3, <1>4, <1>5, <2>2, <2>3, <2>4, <2>5, CacheStep
<1>7. CASE readers[r].todo # {f}
  <2> DEFINE d == [readers[r] EXCEPT !.at = "write", !.todo = @ \ {f}]
  <2>1. d \in ReaderRecord BY <1>0 DEF ReaderRecord
  <2>2. /\ d.at = "write" /\ d.todo = readers[r].todo \ {f} /\ d.held = readers[r].held /\ d.key = readers[r].key
        /\ d.pins = readers[r].pins
      BY <1>0 DEF ReaderRecord
  <2>3. ShapeOf(d) BY <2>2, <1>0, <1>1, <1>2, <1>7 DEF ShapeOf
  <2> HIDE DEF d
  <2>4. scenario.locks =>
           /\ \A q \in Readers \ {r} : \A h \in d.held, g \in readers[q].held : <<d.key, h>> # File(q, g)
           /\ \A h \in d.todo : <<d.key, h>> \notin anchors'
    <3> SUFFICES ASSUME scenario.locks
                 PROVE  /\ \A q \in Readers \ {r} : \A h \in d.held, g \in readers[q].held : <<d.key, h>> # File(q, g)
                        /\ \A h \in d.todo : <<d.key, h>> \notin anchors'
        OBVIOUS
    <3>1. \A q \in Readers \ {r} : \A h \in d.held, g \in readers[q].held : <<d.key, h>> # File(q, g)
        BY <2>2, <1>0 DEF Locked, File
    <3>2. \A h \in d.todo : <<d.key, h>> \notin anchors' BY <2>2, <1>0, <1>1 DEF Locked, File
    <3> QED BY <3>1, <3>2
  <2>5. readers' = [readers EXCEPT ![r] = d] BY <1>1, <1>7 DEF d
  <2> QED BY <1>1, <1>3, <1>4, <1>5, <2>1, <2>3, <2>4, <2>5, CacheStep
<1> QED BY <1>6, <1>7

LEMMA ReaderOverNext ==
    ASSUME CacheInv, NEW r \in Readers, MeasureFails(r) \/ ReaderDies(r)
    PROVE  CacheInv'
<1>1. readers' = [readers EXCEPT ![r] = NoReader] /\ UNCHANGED <<scenario, datasets, anchors>>
    BY DEF MeasureFails, ReaderDies, Move
<1>2. datasets' \subseteq KeyType BY <1>1 DEF CacheInv, CacheTypes
<1> QED BY <1>1, <1>2, ReaderEnds

----------------------------------------------------------------------------
(* The theorems *)

\* The readers leave the store alone, the migrations the cache.
LEMMA StoreUntouched ==
    ASSUME StoreInv, UNCHANGED <<scenario, storeVars>>
    PROVE  StoreInv'
<1>1. UNCHANGED <<scenario, stamp, entries, pins, migs, ended, raced>> BY DEF storeVars
<1>2. \A p \in Parts : OldRows(p)' = OldRows(p) /\ OldEntries(p)' = OldEntries(p) BY <1>1 DEF OldRows, OldEntries
<1>3. \A p \in Parts : PlanOf(p)'
  <2> SUFFICES ASSUME NEW p \in Parts PROVE PlanOf(p)'
      OBVIOUS
  <2>1. PlanOf(p) BY DEF StoreInv, Plans
  <2>2. EitherPin(migs[p].text)' <=> EitherPin(migs[p].text) BY <1>1 DEF EitherPin
  <2> QED BY <2>1, <2>2, <1>1, <1>2 DEF PlanOf
<1>4. StoreTypes' /\ Stamps' /\ Moves' /\ EitherPin(pins)' /\ Races'
    BY <1>1 DEF StoreInv, StoreTypes, Stamps, Moves, Migrated, EitherPin, Races, Settled, OldTextAround
<1>5. \A p \in ended' : EndedOf(p)' BY <1>1, <1>2 DEF StoreInv, StoreTypes, EndedOf
<1> QED BY <1>3, <1>4, <1>5 DEF StoreInv, Plans

LEMMA CacheUntouched ==
    ASSUME CacheInv, UNCHANGED <<scenario, cacheVars>>
    PROVE  CacheInv'
<1>1. UNCHANGED <<scenario, datasets, anchors, readers>> BY DEF cacheVars
<1> QED BY <1>1 DEF CacheInv, CacheTypes, ShapeOf, Locked, File

LEMMA Inductive == IInv /\ [Next]_vars => IInv'
<1> SUFFICES ASSUME IInv, [Next]_vars PROVE IInv'
    OBVIOUS
<1>0. StoreInv /\ CacheInv /\ LeftType /\ StoreTypes
    BY DEF IInv, StoreInv
<1>1. CASE UNCHANGED vars
    BY <1>0, <1>1, StoreUntouched, CacheUntouched DEF vars, IInv, LeftType
<1>2. ASSUME NEW p \in Parts, BeginMigrate(p) \/ MigrationStep(p) \/ MigrationDies(p)
      PROVE  IInv'
  <2>1. StoreInv'
      BY <1>0, <1>2, BeginMigrateNext, ReplaceRowsNext, MoveEntryNext, ReadManifestNext, WriteManifestNext,
         MigrationOverNext DEF MigrationStep
  <2>2. UNCHANGED <<scenario, cacheVars>>
      BY <1>2 DEF BeginMigrate, MigrationStep, ReplaceRows, MoveEntry, ReadManifest, WriteManifest, NothingToRepin,
                  MigrationDies
  <2>3. LeftType'
    <3>1. CASE BeginMigrate(p) BY <3>1, <1>0, SpendKeepsType DEF BeginMigrate
    <3>2. CASE MigrationStep(p)
        BY <3>2, <1>0 DEF MigrationStep, ReplaceRows, MoveEntry, ReadManifest, WriteManifest, NothingToRepin, LeftType
    <3>3. CASE MigrationDies(p) BY <3>3, <1>0, SpendKeepsType DEF MigrationDies
    <3> QED BY <3>1, <3>2, <3>3, <1>2
  <2> QED BY <2>1, <2>2, <2>3, <1>0, CacheUntouched DEF IInv
<1>3. ASSUME NEW r \in Readers, StartReader(r) \/ ReaderStep(r) \/ MeasureFails(r) \/ ReaderDies(r)
      PROVE  IInv'
  <2>1. CacheInv'
      BY <1>0, <1>3, StartReaderNext, SelectPartNext, ReadAnchorsNext, TakeLockNext, ReReadNext, WriteAnchorsNext,
         ReaderOverNext DEF ReaderStep
  <2>2. UNCHANGED <<scenario, storeVars>>
      BY <1>3 DEF StartReader, ReaderStep, SelectPart, ReadAnchors, TakeLock, ReRead, WriteAnchors, MeasureFails,
                  ReaderDies
  <2>3. LeftType'
    <3>1. CASE StartReader(r) BY <3>1, <1>0, SpendKeepsType DEF StartReader
    <3>2. CASE ReaderStep(r) \/ MeasureFails(r)
        BY <3>2, <1>0 DEF ReaderStep, SelectPart, ReadAnchors, TakeLock, ReRead, WriteAnchors, MeasureFails, LeftType
    <3>3. CASE ReaderDies(r) BY <3>3, <1>0, SpendKeepsType DEF ReaderDies
    <3> QED BY <3>1, <3>2, <3>3, <1>3
  <2> QED BY <2>1, <2>2, <2>3, <1>0, StoreUntouched DEF IInv
<1> QED BY <1>1, <1>2, <1>3 DEF Next

LEMMA InvariantCorrect == Spec => []IInv
BY Initially, Inductive, PTL DEF Spec

\* Type correctness, and that a migration's plan can be carried out to its end, whatever else is migrated or dies meanwhile
\* (migrate_store.py, _replace and the cache moves).
THEOREM TypeCorrect == Spec => []TypeOK
<1>1. IInv => TypeOK
  <2> SUFFICES ASSUME IInv PROVE TypeOK
      OBVIOUS
  <2>1. StoreInv /\ CacheInv /\ LeftType BY DEF IInv
  <2>2. MigrationType
    <3> SUFFICES ASSUME NEW p \in Parts
                 PROVE  /\ DOMAIN migs[p] = {"at", "restamp", "moves", "pinned", "text"}
                        /\ migs[p].at \in {"off", "replace", "move", "write"} /\ migs[p].pinned \in BOOLEAN
                        /\ migs[p].restamp \subseteq Ids /\ \A i \in migs[p].restamp : stamp[p][i] = scenario.old[p]
                        /\ migs[p].moves \subseteq Ids /\ \A i \in migs[p].moves : entries[p][i] = {"old"}
                        /\ migs[p].text \in (IF migs[p].at = "write" THEN [Parts -> STRING] ELSE {<<>>})
        BY <2>1 DEF MigrationType, StoreInv, StoreTypes
    <3>1. migs[p] \in MigrationRecord BY <2>1 DEF StoreInv, StoreTypes
    <3>2. PlanOf(p) BY <2>1 DEF StoreInv, Plans
    <3>3. DOMAIN migs[p] = {"at", "restamp", "moves", "pinned", "text"} BY <3>1 DEF MigrationRecord
    <3>4. /\ migs[p].at \in {"off", "replace", "move", "write"} /\ migs[p].pinned \in BOOLEAN
          /\ migs[p].restamp \subseteq Ids /\ migs[p].moves \subseteq Ids
        BY <3>1 DEF MigrationRecord
    <3>5. (\A i \in migs[p].restamp : stamp[p][i] = scenario.old[p]) /\ \A i \in migs[p].moves : entries[p][i] = {"old"}
        BY <3>2, <3>4 DEF PlanOf, OldRows, OldEntries
    <3>6. migs[p].text \in (IF migs[p].at = "write" THEN [Parts -> STRING] ELSE {<<>>})
        BY <3>2 DEF PlanOf
    <3> QED BY <3>3, <3>4, <3>5, <3>6
  <2>3. ReaderType
    <3> SUFFICES ASSUME NEW r \in Readers
                 PROVE  /\ DOMAIN readers[r] = {"at", "pins", "key", "request", "todo", "held"}
                        /\ readers[r].at \in {"off", "select", "lock", "measure", "write"}
                        /\ readers[r].pins \in (IF readers[r].at = "off" THEN {<<>>} ELSE [Parts -> STRING])
                        /\ readers[r].key \in KeyType /\ Len(readers[r].key) <= NParts
                        /\ readers[r].request \in Seq(Freqs)
                        /\ readers[r].todo \subseteq Freqs /\ readers[r].held \subseteq Freqs
                        /\ readers[r].at \in {"off", "select"} => readers[r].todo = {} /\ readers[r].held = {}
                        /\ readers[r].at \in {"measure", "write"} =>
                              readers[r].todo # {} /\ readers[r].todo \subseteq readers[r].held
                        /\ readers[r].at = "lock" => readers[r].held \subseteq readers[r].todo
        BY <2>1 DEF ReaderType, CacheInv, CacheTypes
    <3>1. readers[r] \in ReaderRecord /\ ShapeOf(readers[r]) BY <2>1 DEF CacheInv, CacheTypes
    <3>2. DOMAIN readers[r] = {"at", "pins", "key", "request", "todo", "held"} BY <3>1 DEF ReaderRecord
    <3>3. /\ readers[r].at \in {"off", "select", "lock", "measure", "write"} /\ readers[r].key \in KeyType
          /\ readers[r].request \in Seq(Freqs) /\ readers[r].todo \subseteq Freqs /\ readers[r].held \subseteq Freqs
        BY <3>1 DEF ReaderRecord
    <3> QED BY <3>1, <3>2, <3>3 DEF ShapeOf
  <2> QED BY <2>1, <2>2, <2>3 DEF TypeOK, StoreInv, StoreTypes, CacheInv, CacheTypes, LeftType
<1> QED BY InvariantCorrect, <1>1, PTL

\* Where lock files work, an anchor file is measured once, however many readers ask for whatever frequencies
\* (library/cache.py, computed and anchors_at).
THEOREM MeasuredOnceCorrect == Spec => []MeasuredOnce
<1>1. IInv => MeasuredOnce
    BY DEF IInv, CacheInv, ShapeOf, Locked, MeasuredOnce, Measuring
<1> QED BY InvariantCorrect, <1>1, PTL

\* A part migrated to the end has its rows and entries where they belong and gives the rows it gave before, and its pin is
\* lost only to a migration of another generation it ran into, after any number of migrations, beside each other, and
\* deaths (migrate_store.py).
THEOREM StoreMigratedCorrect == Spec => []StoreMigrated
<1>1. IInv => StoreMigrated
  <2> SUFFICES ASSUME IInv, NEW p \in ended
               PROVE  /\ \A i \in Ids : stamp[p][i] # scenario.old[p] /\ entries[p][i] = Migrated(p, i)
                      /\ Selected(p, scenario.new[p]).kept = OfGeneration(p)
                      /\ pins[p] = scenario.new[p] \/ p \in raced
      BY DEF StoreMigrated
  <2>1. p \in Parts /\ EndedOf(p) /\ Stamps /\ Moves /\ Races BY DEF IInv, StoreInv, StoreTypes
  <2>2. \A i \in Ids : stamp[p][i] # scenario.old[p] /\ entries[p][i] = Migrated(p, i)
      BY <2>1 DEF EndedOf, OldRows, OldEntries, Moves, Migrated
  <2>3. pins[p] = scenario.new[p] \/ p \in raced BY <2>1 DEF Races, Settled
  <2>4. Selected(p, scenario.new[p]).kept = {i \in Ids : stamp[p][i] = scenario.new[p]} BY DEF Selected
  <2>5. \A i \in Ids : stamp[p][i] = scenario.new[p] <=> scenario.stamp[p][i] \in {scenario.old[p], scenario.new[p]}
      BY <2>1, <2>2 DEF Stamps
  <2> QED BY <2>2, <2>3, <2>4, <2>5 DEF OfGeneration
<1> QED BY InvariantCorrect, <1>1, PTL
=============================================================================
