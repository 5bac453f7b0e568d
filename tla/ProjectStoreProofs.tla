------------------------- MODULE ProjectStoreProofs -------------------------
(***************************************************************************)
(* Theorems about ProjectStore, for every set of processes, whatever their *)
(* kinds, and every value of the other constants.                          *)
(***************************************************************************)
EXTENDS ProjectStore, TableLemmas

----------------------------------------------------------------------------
(* Numbers *)

\* The rows are rows of TableLemmas.
LEMMA RowsOfTable == Rows(Row)
BY DEF Rows, Row

\* The numbers of a table's rows are finitely many.
LEMMA IdsFinite ==
    ASSUME NEW t \in Seq(Row)
    PROVE  Table!Ids(t) \subseteq Nat /\ IsFiniteSet(Table!Ids(t))
<1>1. IdSet(t) \subseteq Nat /\ IsFiniteSet(IdSet(t))
    BY RowsOfTable, IdSetFinite
<1> QED
    BY <1>1 DEF Table!Ids, IdSet

\* The types, and that the directories are finitely many: what the next number needs.
Typed == TypeOK /\ IsFiniteSet(dirs)

\* What a process reads is a table.
LEMMA SeenTyped ==
    ASSUME TypeOK, NEW p \in Process
    PROVE  Seen(p) \in Seq(Row)
BY DEF TypeOK, Seen

\* The next number is past every directory.
LEMMA NextIndexFresh ==
    ASSUME Typed, NEW p \in Process
    PROVE  NextIndex(p) \in Nat /\ \A n \in dirs : n < NextIndex(p)
<1>1. Table!Ids(Seen(p)) \subseteq Nat /\ IsFiniteSet(Table!Ids(Seen(p)))
    BY SeenTyped, IdsFinite DEF Typed
<1>2. dirs \subseteq Nat /\ IsFiniteSet(dirs)
    BY DEF Typed, TypeOK
<1> QED
    BY <1>1, <1>2, NextOfSets DEF NextIndex

----------------------------------------------------------------------------
(* What the steps do, said once *)

\* A process that ends.
LEMMA GoneTyped ==
    ASSUME TypeOK, NEW p \in Process, Gone(p), UNCHANGED <<kind, file, dirs, batches, starts>>
    PROVE  TypeOK'
<1>1. /\ runLock' \in Process \cup {"nobody"} /\ lock' \in Process \cup {"nobody"}
      /\ kept' \subseteq Process
    BY DEF TypeOK, Gone, Free
<1>2. /\ pc' \in [Process -> {"off", "locking", "reading", "ready", "batch"}]
      /\ todo' \in [Process -> SUBSET (Nat \X Point)] /\ begun' \in [Process -> SUBSET Nat]
    BY DEF TypeOK, Gone, To
<1>3. rows' \in [Process -> Seq(Row)]
  <2>1. <<>> \in Seq(Row)
      BY EmptySeq
  <2> QED BY <2>1 DEF TypeOK, Gone
<1>4. \A q \in Process : pc'[q] = "batch" => lock' = q
    BY DEF TypeOK, Gone, To, Free
<1> QED
    BY <1>1, <1>2, <1>3, <1>4 DEF TypeOK

\* A process that keeps the rows it sees.
LEMMA KeepTyped ==
    ASSUME TypeOK, NEW p \in Process, Keep(p)
    PROVE  /\ kept' \subseteq Process /\ rows' \in [Process -> Seq(Row)]
           /\ p \in kept' /\ rows'[p] = Seen(p) /\ \A q \in Process \ {p} : rows'[q] = rows[q]
BY SeenTyped DEF Keep, TypeOK

\* The row a process records, and the table it makes.
LEMMA Recorded ==
    ASSUME TypeOK, NEW p \in Process, NEW job \in todo[p], NEW ok \in BOOLEAN, Record(p, job, ok)
    PROVE  \E row \in Row :
              /\ row.id = job[1] /\ row.point = job[2] /\ row.ok = ok /\ row.simulations = PerPoint
              /\ Table!Honest(row)
              /\ file' = Append(file, row) /\ rows' = [rows EXCEPT ![p] = Append(@, row)]
<1> DEFINE results == [i \in 1..PerPoint |-> IF ok THEN "ok" ELSE "failed"]
           row == [id |-> job[1], point |-> job[2], ok |-> ok, simulations |-> PerPoint, results |-> results]
<1>1. job[1] \in Nat /\ job[2] \in Point /\ PerPoint \in Nat
    BY StoreAssumption DEF TypeOK
<1>2. results \in Seq({"ok", "failed"})
    BY <1>1, SeqDef
<1>3. row \in Row
    BY <1>1, <1>2 DEF Row
<1>4. Table!Honest(row)
    BY DEF Table!Honest
<1>5. file' = Append(file, row) /\ rows' = [rows EXCEPT ![p] = Append(@, row)]
    BY DEF Record
<1> QED
    BY <1>3, <1>4, <1>5

\* Beginning a batch gives each new point a number of its own, past every directory.
LEMMA Begun ==
    ASSUME Typed, NEW p \in Process, BeginBatch(p)
    PROVE  \E points \in SUBSET Point : \E f \in [New(p, points) -> Nat] :
              /\ Affordable(p, points)
              /\ todo' = [todo EXCEPT ![p] = {<<f[q], q>> : q \in New(p, points)}]
              /\ \A q \in New(p, points) : f[q] \notin dirs
              /\ \A a, b \in New(p, points) : f[a] = f[b] => a = b
<1>1. PICK points \in SUBSET Point :
          /\ Affordable(p, points)
          /\ \E f \in Numberings(p, points) : todo' = [todo EXCEPT ![p] = {<<f[q], q>> : q \in New(p, points)}]
    BY DEF BeginBatch
<1>2. PICK f \in Numberings(p, points) : todo' = [todo EXCEPT ![p] = {<<f[q], q>> : q \in New(p, points)}]
    BY <1>1
<1> DEFINE m == NextIndex(p)
           l == m + Cardinality(New(p, points)) - 1
<1>3. f \in [New(p, points) -> m..l] /\ \A a, b \in New(p, points) : f[a] = f[b] => a = b
    BY DEF Numberings
<1>4. m \in Nat /\ \A n \in dirs : n < m
    BY NextIndexFresh
<1>5. dirs \subseteq Nat
    BY DEF Typed, TypeOK
<1> HIDE DEF m, l
<1>6. \A n \in m..l : n \in Nat /\ n \notin dirs
    BY <1>4, <1>5
<1>7. f \in [New(p, points) -> Nat] /\ \A q \in New(p, points) : f[q] \notin dirs
    BY <1>3, <1>6
<1> QED
    BY <1>1, <1>2, <1>3, <1>7

----------------------------------------------------------------------------
(* Types *)

\* The types hold at the start.
LEMMA TypedInit == Init => Typed
<1> SUFFICES ASSUME Init PROVE Typed
    OBVIOUS
<1>1. <<>> \in Seq(Row)
    BY EmptySeq
<1>2. IsFiniteSet(dirs)
    BY FS_EmptySet DEF Init
<1> QED
    BY <1>1, <1>2 DEF Init, Typed, TypeOK

\* Every step keeps them.
LEMMA TypedNext ==
    ASSUME Typed, [Next]_vars
    PROVE  Typed'
<1>1. TypeOK /\ IsFiniteSet(dirs)
    BY DEF Typed
<1>2. ASSUME NEW p \in Process, Start(p) PROVE Typed'
    BY <1>1, <1>2 DEF Start, To, Typed, TypeOK
<1>3. ASSUME NEW p \in Process, TakeRunLock(p) PROVE Typed'
    BY <1>1, <1>3 DEF TakeRunLock, To, Typed, TypeOK
<1>4. ASSUME NEW p \in Process, Gone(p), UNCHANGED <<kind, file, dirs, batches, starts>> PROVE Typed'
    BY <1>1, <1>4, GoneTyped DEF Typed
<1>5. ASSUME NEW p \in Process, Read(p) \/ Learn(p) PROVE Typed'
  <2>1. kept' \subseteq Process /\ rows' \in [Process -> Seq(Row)]
      BY <1>1, <1>5, KeepTyped DEF Read, Learn
  <2> QED BY <1>1, <1>5, <2>1 DEF Read, Learn, To, Typed, TypeOK
<1>6. ASSUME NEW p \in Process, BeginBatch(p) PROVE Typed'
  <2>1. kept' \subseteq Process /\ rows' \in [Process -> Seq(Row)]
      BY <1>1, <1>6, KeepTyped DEF BeginBatch
  <2>2. todo' \in [Process -> SUBSET (Nat \X Point)]
    <3>1. PICK points \in SUBSET Point :
              \E f \in [New(p, points) -> Nat] : todo' = [todo EXCEPT ![p] = {<<f[q], q>> : q \in New(p, points)}]
        BY <1>6, Begun
    <3> PICK f \in [New(p, points) -> Nat] : todo' = [todo EXCEPT ![p] = {<<f[q], q>> : q \in New(p, points)}]
        BY <3>1
    <3>2. New(p, points) \subseteq Point
        BY DEF New
    <3>3. {<<f[q], q>> : q \in New(p, points)} \subseteq Nat \X Point
        BY <3>2
    <3> HIDE DEF New
    <3> QED BY <1>1, <3>1, <3>3 DEF TypeOK
  <2>3. \A q \in Process : pc'[q] = "batch" => lock' = q
    <3>1. \A q \in Process : pc[q] # "batch"
        BY <1>1, <1>6, StoreAssumption DEF TypeOK, BeginBatch
    <3> QED BY <1>1, <1>6, <3>1 DEF TypeOK, BeginBatch, To
  <2>4. /\ UNCHANGED <<kind, file, dirs, runLock, begun, starts>>
        /\ lock' \in Process \cup {"nobody"}
        /\ pc' \in [Process -> {"off", "locking", "reading", "ready", "batch"}]
        /\ batches' \in [Process -> Nat]
      BY <1>1, <1>6 DEF TypeOK, BeginBatch, To
  <2> QED BY <1>1, <2>1, <2>2, <2>3, <2>4 DEF Typed, TypeOK
<1>7. ASSUME NEW p \in Process, NEW job \in todo[p], StartPoint(p, job) PROVE Typed'
  <2>1. job[1] \in Nat
      BY <1>1 DEF TypeOK
  <2>2. IsFiniteSet(dirs \cup {job[1]})
      BY <1>1, FS_AddElement
  <2> QED BY <1>1, <1>7, <2>1, <2>2 DEF StartPoint, Typed, TypeOK
<1>8. ASSUME NEW p \in Process, NEW job \in todo[p], NEW ok \in BOOLEAN, Record(p, job, ok) PROVE Typed'
  <2>1. PICK row \in Row : file' = Append(file, row) /\ rows' = [rows EXCEPT ![p] = Append(@, row)]
      BY <1>1, <1>8, Recorded
  <2>2. file' \in Seq(Row) /\ rows' \in [Process -> Seq(Row)]
      BY <1>1, <2>1, AppendExtends DEF TypeOK
  <2>3. todo' \in [Process -> SUBSET (Nat \X Point)]
      BY <1>1, <1>8 DEF Record, TypeOK
  <2> QED BY <1>1, <1>8, <2>2, <2>3 DEF Record, Typed, TypeOK
<1>9. ASSUME NEW p \in Process, EndBatch(p) PROVE Typed'
    BY <1>1, <1>9 DEF EndBatch, To, Typed, TypeOK
<1>10. CASE UNCHANGED vars
    BY <1>1, <1>10 DEF vars, Typed, TypeOK
<1> QED
    BY <1>2, <1>3, <1>4, <1>5, <1>6, <1>7, <1>8, <1>9, <1>10 DEF Next, RunLockRefused, BatchRefused, End

\* The variables have their types, and only the holder of the store's lock is in a batch.
THEOREM TypeCorrect == Spec => []TypeOK
<1>1. Typed /\ [Next]_vars => Typed'
    BY TypedNext
<1>2. Typed => TypeOK
    BY DEF Typed
<1> QED
    BY TypedInit, <1>1, <1>2, PTL DEF Spec

----------------------------------------------------------------------------
(* The abstract table *)

\* The numbers: every row's is a directory's, and so is every point's a worker has begun; a point of a batch has a number
\* of its own, no row's; outside a batch there is none.
Numbering ==
    /\ Table!Ids(file) \subseteq dirs
    /\ \A p \in Process : begun[p] \subseteq dirs
    /\ \A p \in Process : pc[p] # "batch" => todo[p] = {}
    /\ \A p \in Process : \A job \in todo[p] : job[1] \notin Table!Ids(file)
    /\ \A p \in Process : \A a, b \in todo[p] : a[1] = b[1] => a = b

\* The numbers at the start.
LEMMA NumberingInit == Init => Numbering
BY DEF Init, Numbering, Table!Ids

\* A step that adds no row, no directory and no job.
LEMMA NumberingQuiet ==
    ASSUME TypeOK, Numbering, UNCHANGED <<file, dirs>>,
           \A p \in Process : todo'[p] \subseteq todo[p] /\ begun'[p] \subseteq begun[p],
           \A p \in Process : pc[p] = "batch" /\ pc'[p] # "batch" => todo'[p] = {}
    PROVE  Numbering'
BY DEF Numbering, Table!Ids

\* A process that ends leaves no job.
LEMMA GoneQuiet ==
    ASSUME TypeOK, NEW p \in Process, Gone(p)
    PROVE  /\ \A q \in Process : todo'[q] \subseteq todo[q] /\ begun'[q] \subseteq begun[q]
           /\ \A q \in Process : pc[q] = "batch" /\ pc'[q] # "batch" => todo'[q] = {}
BY DEF TypeOK, Gone, To

\* Recording a row: who is in the batch, and what becomes of the table.
LEMMA RecordedIds ==
    ASSUME TypeOK, NEW row \in Row, file' = Append(file, row)
    PROVE  Table!Ids(file') = Table!Ids(file) \cup {row.id}
<1>1. file \in Seq(Row)
    BY DEF TypeOK
<1>2. /\ DOMAIN file' = 1..(Len(file) + 1) /\ DOMAIN file = 1..Len(file) /\ Len(file) \in Nat
      /\ file'[Len(file) + 1] = row /\ \A i \in 1..Len(file) : file'[i] = file[i]
    BY <1>1, AppendProperties, LenProperties
<1>3. 1..(Len(file) + 1) = 1..Len(file) \cup {Len(file) + 1}
    BY <1>2
<1> QED
    BY <1>2, <1>3 DEF Table!Ids

\* Every step keeps the numbers.
LEMMA NumberingNext ==
    ASSUME Typed, Numbering, [Next]_vars
    PROVE  Numbering'
<1>1. TypeOK
    BY DEF Typed
<1>2. ASSUME NEW p \in Process,
             Start(p) \/ TakeRunLock(p) \/ Read(p) \/ Learn(p) \/ EndBatch(p)
      PROVE  Numbering'
  <2>1. UNCHANGED <<file, dirs>>
      BY <1>2 DEF Start, TakeRunLock, Read, Learn, EndBatch
  <2>2. \A q \in Process : todo'[q] \subseteq todo[q] /\ begun'[q] \subseteq begun[q]
      BY <1>1, <1>2 DEF Start, TakeRunLock, Read, Learn, EndBatch, TypeOK
  <2>3. \A q \in Process : pc[q] = "batch" /\ pc'[q] # "batch" => todo'[q] = {}
      BY <1>1, <1>2 DEF Start, TakeRunLock, Read, Learn, EndBatch, To, TypeOK
  <2> QED BY <1>1, <2>1, <2>2, <2>3, NumberingQuiet
<1>3. ASSUME NEW p \in Process, Gone(p), UNCHANGED <<kind, file, dirs, batches, starts>>
      PROVE  Numbering'
    BY <1>1, <1>3, GoneQuiet, NumberingQuiet
<1>4. ASSUME NEW p \in Process, BeginBatch(p) PROVE Numbering'
  <2>1. PICK points \in SUBSET Point :
            \E f \in [New(p, points) -> Nat] :
                /\ todo' = [todo EXCEPT ![p] = {<<f[q], q>> : q \in New(p, points)}]
                /\ \A q \in New(p, points) : f[q] \notin dirs
                /\ \A a, b \in New(p, points) : f[a] = f[b] => a = b
      BY <1>4, Begun
  <2>2. PICK f \in [New(p, points) -> Nat] :
            /\ todo' = [todo EXCEPT ![p] = {<<f[q], q>> : q \in New(p, points)}]
            /\ \A q \in New(p, points) : f[q] \notin dirs
            /\ \A a, b \in New(p, points) : f[a] = f[b] => a = b
      BY <2>1
  <2> HIDE DEF New
  <2>3. UNCHANGED <<file, dirs, begun>> /\ pc' = [pc EXCEPT ![p] = "batch"]
      BY <1>4 DEF BeginBatch, To
  <2>4. \A q \in Process \ {p} : todo'[q] = todo[q] /\ pc'[q] = pc[q]
      BY <1>1, <2>2, <2>3 DEF TypeOK
  <2>5. /\ pc'[p] = "batch"
        /\ \A job \in todo'[p] : job[1] \notin Table!Ids(file')
        /\ \A a, b \in todo'[p] : a[1] = b[1] => a = b
    <3>1. pc'[p] = "batch" /\ todo'[p] = {<<f[q], q>> : q \in New(p, points)}
        BY <1>1, <2>2, <2>3 DEF TypeOK
    <3>2. Table!Ids(file') \subseteq dirs
        BY <2>3 DEF Numbering, Table!Ids
    <3>3. \A job \in todo'[p] : job[1] \notin Table!Ids(file')
        BY <2>2, <3>1, <3>2
    <3>4. \A a, b \in todo'[p] : a[1] = b[1] => a = b
        BY <2>2, <3>1
    <3> QED BY <3>1, <3>3, <3>4
  <2> QED BY <2>3, <2>4, <2>5 DEF Numbering, Table!Ids
<1>5. ASSUME NEW p \in Process, NEW job \in todo[p], StartPoint(p, job) PROVE Numbering'
    BY <1>1, <1>5 DEF StartPoint, Numbering, TypeOK, Table!Ids
<1>6. ASSUME NEW p \in Process, NEW job \in todo[p], NEW ok \in BOOLEAN, Record(p, job, ok)
      PROVE  Numbering'
  <2>1. PICK row \in Row : row.id = job[1] /\ file' = Append(file, row)
      BY <1>1, <1>6, Recorded
  <2>2. Table!Ids(file') = Table!Ids(file) \cup {job[1]}
      BY <1>1, <2>1, RecordedIds
  <2>3. /\ pc[p] = "batch" /\ job[1] \in begun[p] /\ UNCHANGED <<dirs, pc, begun>>
        /\ todo' = [todo EXCEPT ![p] = @ \ {job}]
      BY <1>6 DEF Record
  <2>4. \A q \in Process \ {p} : todo[q] = {} /\ todo'[q] = {}
    <3>1. lock = p /\ \A q \in Process \ {p} : pc[q] # "batch"
        BY <1>1, <2>3 DEF TypeOK
    <3> QED BY <1>1, <2>3, <3>1 DEF TypeOK, Numbering
  <2>5. todo'[p] = todo[p] \ {job}
      BY <1>1, <2>3 DEF TypeOK
  <2>6. \A other \in todo'[p] : other[1] \notin Table!Ids(file')
      BY <2>2, <2>5 DEF Numbering
  <2>7. Table!Ids(file') \subseteq dirs'
      BY <2>2, <2>3 DEF Numbering
  <2>8. \A q \in Process : begun'[q] \subseteq dirs'
      BY <2>3 DEF Numbering
  <2>9. \A q \in Process : pc'[q] # "batch" => todo'[q] = {}
      BY <2>3, <2>4
  <2>10. \A q \in Process : \A other \in todo'[q] : other[1] \notin Table!Ids(file')
      BY <2>4, <2>6
  <2>11. \A q \in Process : \A a, b \in todo'[q] : a[1] = b[1] => a = b
      BY <2>4, <2>5 DEF Numbering
  <2> QED BY <2>7, <2>8, <2>9, <2>10, <2>11 DEF Numbering
<1>7. CASE UNCHANGED vars
    BY <1>7 DEF vars, Numbering, Table!Ids
<1> QED
    BY <1>2, <1>3, <1>4, <1>5, <1>6, <1>7 DEF Next, RunLockRefused, BatchRefused, End

\* A step records one row the abstract table accepts, or leaves the table alone.
LEMMA RecordsOrStutters ==
    ASSUME Typed, Numbering, [Next]_vars
    PROVE  [Table!Record]_file
<1>1. ASSUME NEW p \in Process, NEW job \in todo[p], NEW ok \in BOOLEAN, Record(p, job, ok)
      PROVE  Table!Record
  <2>1. TypeOK /\ file \in Seq(Row)
      BY DEF Typed, TypeOK
  <2>2. PICK row \in Row : row.id = job[1] /\ Table!Honest(row) /\ file' = Append(file, row)
      BY <1>1, <2>1, Recorded
  <2>3. /\ Len(file') = Len(file) + 1 /\ SubSeq(file', 1, Len(file)) = file
        /\ file'[Len(file')] = row
      BY <2>1, <2>2, AppendExtends
  <2>4. row.id \notin Table!Ids(file)
      BY <2>2 DEF Numbering
  <2> QED BY <2>2, <2>3, <2>4 DEF Table!Record
<1>2. ASSUME NEW p \in Process,
             \/ Start(p) \/ TakeRunLock(p) \/ RunLockRefused(p) \/ Read(p) \/ Learn(p)
             \/ BeginBatch(p) \/ BatchRefused(p) \/ EndBatch(p) \/ End(p)
             \/ \E job \in todo[p] : StartPoint(p, job)
      PROVE  file' = file
    BY <1>2 DEF Start, TakeRunLock, RunLockRefused, Read, Learn, BeginBatch, BatchRefused, EndBatch, End, StartPoint
<1>3. UNCHANGED vars => file' = file
    BY DEF vars
<1> QED
    BY <1>1, <1>2, <1>3 DEF Next

\* However many processes share a project, and whatever rows each of them planned from, the table they share is the
\* abstract one: rows are only added, no two under one number (store.py, next_obs_index).
THEOREM Refinement == Spec => ImplementsFactTable
<1>1. Init => Table!Init
    BY DEF Init, Table!Init
<1>2. Typed /\ Numbering /\ [Next]_vars => Typed' /\ Numbering'
    BY TypedNext, NumberingNext
<1>3. Typed /\ Numbering /\ [Next]_vars => [Table!Record]_file
    BY RecordsOrStutters
<1> QED
    BY TypedInit, NumberingInit, <1>1, <1>2, <1>3, PTL DEF Spec, ImplementsFactTable, Table!Spec

----------------------------------------------------------------------------
(* Runs: what the project lock gives *)

\* A run works under the project lock, and the rows it keeps are the file's.
Alone ==
    /\ \A p \in Process : pc[p] \in {"reading", "ready", "batch"} => runLock = p
    /\ \A p \in Process : p \in kept <=> pc[p] \in {"ready", "batch"}
    /\ \A p \in Process : p \in kept => rows[p] = file

\* What is recorded and what a batch will still record is within the budget.
Paid ==
    /\ BudgetKept
    /\ \A p \in Process :
          pc[p] = "batch" =>
              /\ IsFiniteSet(todo[p])
              /\ Table!SimulationsOf(file) + PerPoint * Cardinality(todo[p]) <= MaxSimulations

\* Ok rows are of distinct points, and a batch holds each point once, and none that has an ok row.
Fresh ==
    /\ \A i, k \in DOMAIN file : file[i].ok /\ file[k].ok /\ file[i].point = file[k].point => i = k
    /\ \A p \in Process : \A a, b \in todo[p] : a[2] = b[2] => a = b
    /\ \A p \in Process : \A job \in todo[p] : \A i \in DOMAIN file : file[i].ok => file[i].point # job[2]

RunsInv == OnlyRuns => Alone /\ Paid /\ Fresh

\* The abstract table counts what TableLemmas counts.
LEMMA SimulationsCounted ==
    ASSUME NEW t
    PROVE  Table!SimulationsOf(t) = Cardinality(SimulationSet(t))
BY DEF Table!SimulationsOf, Table!Simulations, SimulationSet, Table!Cardinality, Cardinality

\* The runs' invariant holds at the start.
LEMMA RunsInit == Init => RunsInv
<1> SUFFICES ASSUME Init PROVE Alone /\ Paid /\ Fresh
    BY DEF RunsInv
<1>1. Alone /\ Fresh
    BY DEF Init, Alone, Fresh
<1>2. Paid
  <2>1. SimulationSet(file) = {}
      BY DEF Init, SimulationSet
  <2>2. Table!SimulationsOf(file) = 0
      BY <2>1, SimulationsCounted, FS_EmptySet
  <2>3. \A p \in Process : pc[p] # "batch"
      BY DEF Init
  <2> QED BY <2>2, <2>3, StoreAssumption DEF Paid, BudgetKept
<1> QED BY <1>1, <1>2

\* A step of a run that adds neither rows nor jobs, and begins no batch.
LEMMA RunsQuiet ==
    ASSUME Paid, Fresh, file' = file,
           \A p \in Process : todo'[p] \subseteq todo[p],
           \A p \in Process : pc'[p] = "batch" => pc[p] = "batch" /\ todo'[p] = todo[p]
    PROVE  Paid' /\ Fresh'
<1>1. Fresh'
    BY DEF Fresh
<1>2. Table!SimulationsOf(file') = Table!SimulationsOf(file)
    OBVIOUS
<1>3. Paid'
    BY <1>2 DEF Paid, BudgetKept
<1> QED BY <1>1, <1>3

\* A run that ends.
LEMMA RunsGone ==
    ASSUME TypeOK, Numbering, Alone, Paid, Fresh, NEW p \in Process, Gone(p),
           UNCHANGED <<kind, file, dirs, batches, starts>>
    PROVE  Alone' /\ Paid' /\ Fresh'
<1>1. /\ pc'[p] = "off" /\ todo'[p] = {} /\ kept' = kept \ {p}
      /\ \A q \in Process \ {p} : pc'[q] = pc[q] /\ todo'[q] = todo[q] /\ rows'[q] = rows[q]
    BY DEF Gone, To, TypeOK
<1>2. \A q \in Process \ {p} : runLock = q => runLock' = q
    BY DEF Gone, Free
<1>3. Alone'
    BY <1>1, <1>2 DEF Alone
<1>4. Paid' /\ Fresh'
    BY <1>1, RunsQuiet
<1> QED BY <1>3, <1>4

\* A run that begins a batch.
LEMMA RunsBegin ==
    ASSUME Typed, Numbering, Alone, Paid, Fresh, NEW p \in Process, BeginBatch(p)
    PROVE  Alone' /\ Paid' /\ Fresh'
<1>1. TypeOK
    BY DEF Typed
<1>2. PICK points \in SUBSET Point :
          \E f \in [New(p, points) -> Nat] :
              Affordable(p, points) /\ todo' = [todo EXCEPT ![p] = {<<f[q], q>> : q \in New(p, points)}]
    BY Begun
<1>3. PICK f \in [New(p, points) -> Nat] :
          Affordable(p, points) /\ todo' = [todo EXCEPT ![p] = {<<f[q], q>> : q \in New(p, points)}]
    BY <1>2
<1> DEFINE new == New(p, points)
           jobs == {<<f[q], q>> : q \in new}
<1>4. /\ pc[p] = "ready" /\ pc' = [pc EXCEPT ![p] = "batch"]
      /\ UNCHANGED <<file, runLock>> /\ Keep(p)
    BY DEF BeginBatch, To
<1>5. p \in kept /\ rows[p] = file /\ Seen(p) = file
    BY <1>4 DEF Alone, Seen
<1>6. kept' = kept /\ rows' = rows
    BY <1>1, <1>4, <1>5 DEF Keep, TypeOK
<1>7. /\ pc'[p] = "batch" /\ todo'[p] = jobs
      /\ \A q \in Process \ {p} : pc'[q] = pc[q] /\ todo'[q] = todo[q]
    BY <1>1, <1>3, <1>4 DEF TypeOK
<1>8. Alone'
    BY <1>4, <1>6, <1>7 DEF Alone
<1>9. \A q \in new : \A i \in DOMAIN file : file[i].ok => file[i].point # q
    BY <1>5 DEF New, Reusable
<1>10. IsFiniteSet(new) /\ Table!SimulationsOf(file) + PerPoint * Cardinality(new) <= MaxSimulations
  <2>1. new \subseteq Point
      BY DEF New
  <2>2. IsFiniteSet(new)
      BY <2>1, StoreAssumption, FS_Subset
  <2> QED BY <1>3, <1>5, <2>2 DEF Affordable
<1> HIDE DEF new
<1>11. Fresh'
  <2>1. \A a, b \in jobs : a[2] = b[2] => a = b
      OBVIOUS
  <2>2. \A job \in jobs : \A i \in DOMAIN file' : file'[i].ok => file'[i].point # job[2]
      BY <1>4, <1>9
  <2> HIDE DEF jobs
  <2> QED BY <1>4, <1>7, <2>1, <2>2 DEF Fresh
<1>12. IsFiniteSet(jobs) /\ Cardinality(jobs) = Cardinality(new)
  <2> DEFINE g == [q \in new |-> <<f[q], q>>]
  <2>1. g \in Bijection(new, jobs)
      BY DEF Bijection, Injection, Surjection, IsInjective
  <2>2. ExistsBijection(new, jobs)
      BY <2>1 DEF ExistsBijection
  <2> HIDE DEF g, jobs
  <2> QED BY <1>10, <2>2, FS_Bijection
<1> HIDE DEF jobs
<1>13. \A q \in Process \ {p} : pc[q] # "batch"
    BY <1>4 DEF Alone
<1>14. Table!SimulationsOf(file') = Table!SimulationsOf(file)
    BY <1>4
<1>15. Paid'
    BY <1>7, <1>10, <1>12, <1>13, <1>14 DEF Paid, BudgetKept
<1> QED BY <1>8, <1>11, <1>15

\* A run that records a row.
LEMMA RunsRecord ==
    ASSUME Typed, Numbering, Alone, Paid, Fresh,
           NEW p \in Process, NEW job \in todo[p], NEW ok \in BOOLEAN, Record(p, job, ok)
    PROVE  Alone' /\ Paid' /\ Fresh'
<1>1. TypeOK /\ file \in Seq(Row)
    BY DEF Typed, TypeOK
<1>2. PICK row \in Row :
          /\ row.point = job[2] /\ row.simulations = PerPoint
          /\ file' = Append(file, row) /\ rows' = [rows EXCEPT ![p] = Append(@, row)]
    BY <1>1, Recorded
<1>3. /\ pc[p] = "batch" /\ UNCHANGED <<pc, kept, runLock>>
      /\ todo' = [todo EXCEPT ![p] = @ \ {job}]
    BY DEF Record
<1>4. p \in kept /\ rows[p] = file /\ \A q \in Process \ {p} : q \notin kept /\ pc[q] # "batch" /\ todo[q] = {}
    BY <1>3 DEF Alone, Numbering
<1>5. todo'[p] = todo[p] \ {job} /\ \A q \in Process \ {p} : todo'[q] = {}
    BY <1>1, <1>3, <1>4 DEF TypeOK
<1>6. Alone'
  <2>1. rows'[p] = file'
      BY <1>1, <1>2, <1>4 DEF TypeOK
  <2> QED BY <1>3, <1>4, <2>1 DEF Alone
<1>7. Fresh'
  <2>1. /\ DOMAIN file' = 1..(Len(file) + 1) /\ DOMAIN file = 1..Len(file) /\ Len(file) \in Nat
        /\ file'[Len(file) + 1] = row /\ \A i \in 1..Len(file) : file'[i] = file[i]
      BY <1>1, <1>2, AppendProperties, LenProperties
  <2>2. \A i \in DOMAIN file : file[i].ok => file[i].point # row.point
      BY <1>2 DEF Fresh
  <2>3. \A other \in todo'[p] : other[2] # row.point
      BY <1>2, <1>5 DEF Fresh
  <2>4. \A i, k \in DOMAIN file' : file'[i].ok /\ file'[k].ok /\ file'[i].point = file'[k].point => i = k
      BY <2>1, <2>2 DEF Fresh
  <2>5. \A other \in todo'[p] : \A i \in DOMAIN file' : file'[i].ok => file'[i].point # other[2]
      BY <2>1, <2>3, <1>5 DEF Fresh
  <2>6. \A a, b \in todo'[p] : a[2] = b[2] => a = b
      BY <1>5 DEF Fresh
  <2> QED BY <1>5, <2>4, <2>5, <2>6 DEF Fresh
<1>8. Paid'
  <2>1. /\ IsFiniteSet(todo[p])
        /\ Table!SimulationsOf(file) + PerPoint * Cardinality(todo[p]) <= MaxSimulations
      BY <1>3 DEF Paid
  <2>2. Table!SimulationsOf(file') = Table!SimulationsOf(file) + PerPoint
      BY <1>1, <1>2, RowsOfTable, SimulationSetAppend, SimulationsCounted
  <2>3. IsFiniteSet(todo'[p]) /\ Cardinality(todo'[p]) = Cardinality(todo[p]) - 1 /\ Cardinality(todo[p]) \in Nat
      BY <1>5, <2>1, FS_RemoveElement, FS_CardinalityType
  <2>4. Cardinality(todo'[p]) \in Nat
      BY <2>3, FS_CardinalityType
  <2>5. Table!SimulationsOf(file) \in Nat
      BY <1>1, RowsOfTable, SimulationSetFinite, SimulationsCounted
  <2> DEFINE sims == Table!SimulationsOf(file)
             left == Cardinality(todo'[p])
  <2>6. PerPoint \in Nat /\ MaxSimulations \in Nat
      BY StoreAssumption
  <2>7. sims + PerPoint * (left + 1) <= MaxSimulations
      BY <2>1, <2>3
  <2> HIDE DEF sims, left
  <2>8. sims \in Nat /\ left \in Nat
      BY <2>4, <2>5 DEF sims, left
  <2>9. PerPoint * (left + 1) = PerPoint * left + PerPoint /\ PerPoint * left \in Nat
      BY <2>6, <2>8
  <2>10. sims + PerPoint + PerPoint * left <= MaxSimulations /\ sims + PerPoint <= MaxSimulations
      BY <2>6, <2>7, <2>8, <2>9
  <2>11. /\ BudgetKept'
         /\ Table!SimulationsOf(file') + PerPoint * Cardinality(todo'[p]) <= MaxSimulations
      BY <2>2, <2>10 DEF sims, left, BudgetKept
  <2>12. \A q \in Process \ {p} : pc'[q] # "batch"
      BY <1>3, <1>4
  <2> QED BY <2>3, <2>11, <2>12 DEF Paid
<1> QED BY <1>6, <1>7, <1>8

\* Every step of a run keeps the runs' invariant.
LEMMA RunsNext ==
    ASSUME Typed, Numbering, RunsInv, [Next]_vars
    PROVE  RunsInv'
<1>1. TypeOK
    BY DEF Typed
<1>2. kind' = kind
    BY DEF Next, vars, Start, TakeRunLock, RunLockRefused, Read, Learn, BeginBatch, BatchRefused, EndBatch, End,
           StartPoint, Record
<1> SUFFICES ASSUME OnlyRuns PROVE Alone' /\ Paid' /\ Fresh'
    BY <1>2 DEF RunsInv, OnlyRuns
<1>3. Alone /\ Paid /\ Fresh
    BY DEF RunsInv
<1>4. ASSUME NEW p \in Process, Start(p) \/ TakeRunLock(p) \/ EndBatch(p)
      PROVE  Alone' /\ UNCHANGED <<file, todo>> /\ \A q \in Process : pc'[q] = "batch" => pc[q] = "batch"
  <2>1. kind[p] = "run" /\ p # "nobody"
      BY StoreAssumption DEF OnlyRuns
  <2>2. CASE Start(p)
    <3>1. /\ pc[p] = "off" /\ pc' = [pc EXCEPT ![p] = "locking"] /\ UNCHANGED <<file, runLock, kept, rows, todo>>
        BY <2>1, <2>2 DEF Start, To
    <3>2. Alone'
        BY <1>1, <1>3, <3>1 DEF Alone, TypeOK
    <3> QED BY <1>1, <3>1, <3>2 DEF TypeOK
  <2>3. CASE TakeRunLock(p)
    <3>1. /\ pc[p] = "locking" /\ runLock = "nobody" /\ runLock' = p
          /\ pc' = [pc EXCEPT ![p] = "reading"] /\ UNCHANGED <<file, kept, rows, todo>>
        BY <2>1, <2>3 DEF TakeRunLock, To
    <3>2. \A q \in Process : pc[q] \notin {"reading", "ready", "batch"}
        BY <1>3, <3>1, StoreAssumption DEF Alone
    <3>3. Alone'
        BY <1>1, <1>3, <3>1, <3>2 DEF Alone, TypeOK
    <3> QED BY <1>1, <3>1, <3>3 DEF TypeOK
  <2>4. CASE EndBatch(p)
    <3>1. /\ pc[p] = "batch" /\ pc' = [pc EXCEPT ![p] = "ready"] /\ UNCHANGED <<file, runLock, kept, rows, todo>>
        BY <2>4 DEF EndBatch, To
    <3>2. Alone'
        BY <1>1, <1>3, <3>1 DEF Alone, TypeOK
    <3> QED BY <1>1, <3>1, <3>2 DEF TypeOK
  <2> QED BY <1>4, <2>2, <2>3, <2>4
<1>5. ASSUME NEW p \in Process, Gone(p), UNCHANGED <<kind, file, dirs, batches, starts>>
      PROVE  Alone' /\ Paid' /\ Fresh'
    BY <1>1, <1>3, <1>5, RunsGone
<1>6. ASSUME NEW p \in Process, Read(p) PROVE Alone' /\ Paid' /\ Fresh'
  <2>1. kind[p] = "run" /\ pc[p] = "reading" /\ p \notin kept /\ Seen(p) = file
      BY <1>3, <1>6 DEF OnlyRuns, Read, Alone, Seen
  <2>2. /\ pc' = [pc EXCEPT ![p] = "ready"] /\ kept' = kept \cup {p} /\ rows' = [rows EXCEPT ![p] = file]
        /\ UNCHANGED <<file, runLock, todo>>
      BY <1>6, <2>1 DEF Read, Keep, To
  <2>3. Alone'
      BY <1>1, <1>3, <2>1, <2>2 DEF Alone, TypeOK
  <2>4. \A q \in Process : pc'[q] = "batch" => pc[q] = "batch"
      BY <1>1, <2>2 DEF TypeOK
  <2> QED BY <1>3, <2>2, <2>3, <2>4, RunsQuiet
<1>7. ASSUME NEW p \in Process PROVE ~Learn(p)
    BY <1>3 DEF Learn, Alone
<1>8. ASSUME NEW p \in Process, BeginBatch(p) PROVE Alone' /\ Paid' /\ Fresh'
    BY <1>3, <1>8, RunsBegin
<1>9. ASSUME NEW p \in Process, NEW job \in todo[p], StartPoint(p, job) PROVE Alone' /\ Paid' /\ Fresh'
  <2>1. UNCHANGED <<file, runLock, pc, kept, rows, todo>>
      BY <1>9 DEF StartPoint
  <2> QED BY <1>3, <2>1, RunsQuiet DEF Alone
<1>10. ASSUME NEW p \in Process, NEW job \in todo[p], NEW ok \in BOOLEAN, Record(p, job, ok)
       PROVE  Alone' /\ Paid' /\ Fresh'
    BY <1>3, <1>10, RunsRecord
<1>11. CASE UNCHANGED vars
  <2>1. UNCHANGED <<file, runLock, pc, kept, rows, todo>>
      BY <1>11 DEF vars
  <2> QED BY <1>3, <2>1, RunsQuiet DEF Alone
<1>12. ASSUME NEW p \in Process, Start(p) \/ TakeRunLock(p) \/ EndBatch(p)
       PROVE  Alone' /\ Paid' /\ Fresh'
    BY <1>3, <1>4, <1>12, RunsQuiet
<1> QED
    BY <1>12, <1>5, <1>6, <1>7, <1>8, <1>9, <1>10, <1>11 DEF Next, RunLockRefused, BatchRefused, End

\* The three together hold in every reachable state.
LEMMA StoreInvCorrect == Spec => [](Typed /\ Numbering /\ RunsInv)
<1>1. Typed /\ Numbering /\ RunsInv /\ [Next]_vars => (Typed /\ Numbering /\ RunsInv)'
    BY TypedNext, NumberingNext, RunsNext
<1> QED
    BY TypedInit, NumberingInit, RunsInit, <1>1, PTL DEF Spec

\* Runs only: the rows a run plans from are the file's, however long ago it read them (store.py, run_lock).
THEOREM RowsFreshCorrect == Spec => []RowsFresh
<1>1. RunsInv => RowsFresh
    BY DEF RunsInv, Alone, RowsFresh
<1> QED BY StoreInvCorrect, <1>1, PTL

\* Runs only: however they end and begin again, the rows never hold more simulations than the budget (engine.py, run).
THEOREM RunsKeepBudgetCorrect == Spec => []RunsKeepBudget
<1>1. RunsInv => RunsKeepBudget
    BY DEF RunsInv, Paid, RunsKeepBudget
<1> QED BY StoreInvCorrect, <1>1, PTL

\* Runs only: no point has two ok rows (engine.py, reusable).
THEOREM RunsReuseOkPointsCorrect == Spec => []RunsReuseOkPoints
<1>1. RunsInv => RunsReuseOkPoints
    BY DEF RunsInv, Fresh, RunsReuseOkPoints
<1> QED BY StoreInvCorrect, <1>1, PTL
=============================================================================
