------------------------------ MODULE TableLemmas ------------------------------
(***************************************************************************)
(* Lemmas about the tables FactTable specifies, for rows of any kind that  *)
(* carry a number and a count of simulations: the numbers are finitely     *)
(* many, what follows their maximum is new, and appending a row adds its   *)
(* simulations.  The proofs about EvalBatch, ProjectStore and LibraryStore *)
(* cite them.                                                              *)
(***************************************************************************)
EXTENDS Integers, Sequences, FiniteSets, FiniteSetsExt, TLAPS, FiniteSetTheorems, SequenceTheorems, WellFoundedInduction

\* A set of rows with the two fields.
Rows(R) == \A r \in R : r.id \in Nat /\ r.simulations \in Nat

\* FactTable's Ids and Simulations.
IdSet(rows) == {rows[i].id : i \in DOMAIN rows}
SimulationSet(rows) == UNION {{i} \X (1..rows[i].simulations) : i \in DOMAIN rows}

\* A finite set of numbers has a largest one: what Max chooses.
LEMMA MaxOfNats ==
    ASSUME NEW S \in SUBSET Nat, IsFiniteSet(S), S # {}
    PROVE  Max(S) \in S /\ \A n \in S : n <= Max(S)
<1> DEFINE HasMax(U) == \E x \in U : \A y \in U : y <= x
           Bad == {U \in SUBSET S : U # {} /\ ~HasMax(U)}
<1>1. Bad = {}
  <2> SUFFICES ASSUME Bad # {} PROVE FALSE
      OBVIOUS
  <2>1. Bad \subseteq FiniteSubsetsOf(S)
      BY FS_Subset DEF FiniteSubsetsOf
  <2>2. PICK U \in Bad : \A V \in Bad : ~(<<V, U>> \in StrictSubsetOrdering(S))
      BY <2>1, FS_StrictSubsetOrderingWellFounded, WFMin
  <2>3. PICK x \in U : TRUE
      OBVIOUS
  <2>4. U \ {x} \notin Bad
      BY <2>2, <2>3 DEF StrictSubsetOrdering
  <2>5. CASE U = {x}
      BY <2>5, <2>3
  <2>6. CASE U \ {x} # {}
    <3>1. PICK m \in U \ {x} : \A y \in U \ {x} : y <= m
        BY <2>4, <2>6
    <3>2. \A y \in U : y <= x \/ y <= m
        BY <3>1, <2>3
    <3>3. x \in Nat /\ m \in Nat /\ U \subseteq Nat
        BY <3>1, <2>3
    <3>4. CASE x <= m
        BY <3>1, <3>3, <3>4
    <3>5. CASE m <= x
        BY <3>1, <3>3, <3>5
    <3> QED BY <3>3, <3>4, <3>5
  <2> QED BY <2>5, <2>6, <2>3
<1>2. PICK x \in S : \A y \in S : x >= y
    BY <1>1
<1> QED
    BY <1>2 DEF Max

\* And a smallest one: what Min chooses.
LEMMA MinOfNats ==
    ASSUME NEW S \in SUBSET Nat, IsFiniteSet(S), S # {}
    PROVE  Min(S) \in S /\ \A n \in S : Min(S) <= n
<1> DEFINE m == Max(S)
           T == {m - n : n \in S}
           f == [n \in S |-> m - n]
<1>1. m \in Nat /\ \A n \in S : n \in Nat /\ n <= m
    BY MaxOfNats
<1> HIDE DEF m
<1>2. T \subseteq Nat /\ T # {}
  <2>1. \A n \in S : m - n \in Nat
      BY <1>1
  <2> QED BY <2>1
<1>3. f \in Surjection(S, T)
    BY DEF Surjection
<1>4. IsFiniteSet(T)
    BY <1>3, FS_Surjection
<1>5. Max(T) \in T /\ \A n \in T : n <= Max(T)
    BY <1>2, <1>4, MaxOfNats
<1>6. PICK x \in S : Max(T) = m - x
    BY <1>5
<1>7. \A n \in S : x <= n
  <2> SUFFICES ASSUME NEW n \in S PROVE x <= n
      OBVIOUS
  <2>1. m - n <= m - x
      BY <1>5, <1>6
  <2> QED BY <2>1, <1>1
<1> QED
    BY <1>7 DEF Min

\* The numbers of a table's rows are finitely many.
LEMMA IdSetFinite ==
    ASSUME NEW R, Rows(R), NEW rows \in Seq(R)
    PROVE  IdSet(rows) \subseteq Nat /\ IsFiniteSet(IdSet(rows))
<1> DEFINE f == [i \in 1..Len(rows) |-> rows[i].id]
<1>1. Len(rows) \in Nat /\ DOMAIN rows = 1..Len(rows) /\ \A i \in DOMAIN rows : rows[i] \in R
    BY LenProperties
<1>2. f \in Surjection(1..Len(rows), IdSet(rows))
    BY <1>1 DEF IdSet, Surjection
<1>3. IsFiniteSet(1..Len(rows))
    BY <1>1, FS_Interval
<1> QED
    BY <1>1, <1>2, <1>3, FS_Surjection DEF IdSet, Rows

\* One more than the maximum of the rows' numbers and a finite set of others is a number none of them has.
LEMMA NextOfSets ==
    ASSUME NEW I \in SUBSET Nat, IsFiniteSet(I), NEW D \in SUBSET Nat, IsFiniteSet(D)
    PROVE  /\ 1 + Max({0} \cup I \cup D) \in Nat \ {0}
           /\ \A n \in I \cup D : n < 1 + Max({0} \cup I \cup D)
<1> DEFINE S == {0} \cup I \cup D
<1>1. IsFiniteSet({0})
    BY FS_Singleton
<1>2. IsFiniteSet({0} \cup I)
    BY <1>1, FS_Union
<1>3. IsFiniteSet(S)
    BY <1>2, FS_Union
<1>4. S \subseteq Nat /\ 0 \in S
  <2>1. 0 \in Nat
      OBVIOUS
  <2> QED BY <2>1, Zenon
<1>5. I \cup D \subseteq S
    OBVIOUS
<1> HIDE DEF S
<1>6. Max(S) \in S /\ \A n \in S : n <= Max(S)
    BY <1>3, <1>4, MaxOfNats
<1>7. Max(S) \in Nat
    BY <1>4, <1>6
<1>8. 1 + Max(S) \in Nat \ {0}
    BY <1>7
<1>9. \A n \in S : n < 1 + Max(S)
    BY <1>4, <1>6, <1>7
<1>10. \A n \in I \cup D : n < 1 + Max(S)
    BY <1>5, <1>9
<1> QED
    BY <1>8, <1>10 DEF S

\* The simulations of a table are finitely many.
LEMMA SimulationSetFinite ==
    ASSUME NEW R, Rows(R), NEW rows \in Seq(R)
    PROVE  IsFiniteSet(SimulationSet(rows)) /\ Cardinality(SimulationSet(rows)) \in Nat
<1> DEFINE Of(i) == {i} \X (1..rows[i].simulations)
           Parts == {Of(i) : i \in DOMAIN rows}
           f == [i \in 1..Len(rows) |-> Of(i)]
<1>1. Len(rows) \in Nat /\ DOMAIN rows = 1..Len(rows) /\ \A i \in DOMAIN rows : rows[i] \in R
    BY LenProperties
<1>2. \A i \in DOMAIN rows : IsFiniteSet(Of(i))
  <2> TAKE i \in DOMAIN rows
  <2>1. rows[i].simulations \in Int
      BY <1>1 DEF Rows
  <2>2. \A n \in Int : IsFiniteSet(1..n)
      BY FS_Interval
  <2>3. IsFiniteSet({i})
      BY FS_Singleton
  <2>4. IsFiniteSet(1..rows[i].simulations)
      BY <2>1, <2>2
  <2> QED BY <2>3, <2>4, FS_Product
<1>3. IsFiniteSet(Parts)
  <2>1. f \in Surjection(1..Len(rows), Parts)
      BY <1>1 DEF Surjection
  <2>2. IsFiniteSet(1..Len(rows))
      BY <1>1, FS_Interval
  <2> QED BY <2>1, <2>2, FS_Surjection
<1>4. IsFiniteSet(UNION Parts)
    BY <1>2, <1>3, FS_UNION
<1>5. SimulationSet(rows) = UNION Parts
    BY DEF SimulationSet
<1> HIDE DEF Parts
<1> QED
    BY <1>4, <1>5, FS_CardinalityType

\* Appending a row adds its simulations.
LEMMA SimulationSetAppend ==
    ASSUME NEW R, Rows(R), NEW rows \in Seq(R), NEW row \in R
    PROVE  Cardinality(SimulationSet(Append(rows, row))) = Cardinality(SimulationSet(rows)) + row.simulations
<1> DEFINE n == Len(rows)
           new == Append(rows, row)
           added == {n + 1} \X (1..row.simulations)
           S == SimulationSet(rows)
<1>1. /\ new \in Seq(R) /\ n \in Nat
      /\ DOMAIN new = 1..(n + 1) /\ DOMAIN rows = 1..n
      /\ new[n + 1] = row /\ \A i \in 1..n : new[i] = rows[i]
    BY AppendProperties, LenProperties
<1>2. row.simulations \in Nat
    BY DEF Rows
<1>3. SimulationSet(new) = S \cup added
  <2>1. 1..(n + 1) = 1..n \cup {n + 1}
      BY <1>1
  <2> HIDE DEF n, new
  <2> QED BY <1>1, <2>1 DEF SimulationSet
<1>4. S \cap added = {}
  <2>1. \A i \in 1..n : i # n + 1
      BY <1>1
  <2> HIDE DEF n
  <2> QED BY <1>1, <2>1 DEF SimulationSet
<1>5. IsFiniteSet(added) /\ Cardinality(added) = row.simulations
  <2>1. IsFiniteSet({n + 1}) /\ Cardinality({n + 1}) = 1
      BY FS_Singleton
  <2>2. IsFiniteSet(1..row.simulations) /\ Cardinality(1..row.simulations) = row.simulations
    <3>1. \A m \in Nat : IsFiniteSet(1..m) /\ Cardinality(1..m) = m
        BY FS_Interval
    <3> QED BY <1>2, <3>1
  <2>3. Cardinality(added) = 1 * row.simulations /\ IsFiniteSet(added)
      BY <2>1, <2>2, FS_Product
  <2> QED BY <1>2, <2>3
<1>6. IsFiniteSet(S) /\ Cardinality(S) \in Nat
    BY SimulationSetFinite
<1>7. Cardinality(S \cup added) = Cardinality(S) + row.simulations
  <2>1. Cardinality(S \cup added) = Cardinality(S) + Cardinality(added) - Cardinality(S \cap added)
      BY <1>5, <1>6, FS_Union
  <2>2. Cardinality(S \cap added) = 0
      BY <1>4, FS_EmptySet
  <2> QED BY <1>2, <1>5, <1>6, <2>1, <2>2
<1> QED
    BY <1>3, <1>7

\* What is appended is one more element, and the rest stays.
LEMMA AppendExtends ==
    ASSUME NEW R, NEW rows \in Seq(R), NEW row \in R
    PROVE  /\ Append(rows, row) \in Seq(R)
           /\ Len(Append(rows, row)) = Len(rows) + 1
           /\ SubSeq(Append(rows, row), 1, Len(rows)) = rows
           /\ Append(rows, row)[Len(Append(rows, row))] = row
<1> DEFINE new == Append(rows, row)
           t == SubSeq(new, 1, Len(rows))
<1>1. /\ new \in Seq(R) /\ Len(rows) \in Nat /\ Len(new) = Len(rows) + 1
      /\ new[Len(rows) + 1] = row /\ \A i \in 1..Len(rows) : new[i] = rows[i]
    BY AppendProperties, LenProperties
<1>2. \A i \in 1..Len(rows) : new[i] \in R
    BY <1>1, ElementOfSeq
<1> HIDE DEF new
<1>3. t \in Seq(R) /\ Len(t) = Len(rows) /\ \A i \in 1..Len(rows) : t[i] = new[i]
    BY <1>1, <1>2, SubSeqProperties
<1> HIDE DEF t
<1>4. \A i \in 1..Len(t) : t[i] = rows[i]
    BY <1>1, <1>3
<1>5. t = rows
    BY <1>3, <1>4, SeqEqual
<1> QED
    BY <1>1, <1>5 DEF new, t

\* What a function takes a finite set to is finite.
LEMMA ImageFinite ==
    ASSUME NEW S, IsFiniteSet(S), NEW f
    PROVE  IsFiniteSet({f[x] : x \in S})
<1> DEFINE g == [x \in S |-> f[x]]
<1>1. g \in Surjection(S, {f[x] : x \in S})
    BY DEF Surjection
<1> QED
    BY <1>1, FS_Surjection
=============================================================================
