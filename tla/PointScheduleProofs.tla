-------------------------- MODULE PointScheduleProofs --------------------------
(***************************************************************************)
(* Theorems about PointSchedule, for every set of specs, limit, set of     *)
(* values and count of simulations the stop starts from.                   *)
(***************************************************************************)
EXTENDS PointSchedule, TableLemmas, FunctionTheorems

----------------------------------------------------------------------------
(* Sequences without repetition *)

\* Two sequences without repetition that share nothing, one after the other: without repetition too.
LEMMA ConcatInjective ==
    ASSUME NEW S, NEW a \in Seq(S), NEW b \in Seq(S), IsInjective(a), IsInjective(b), Range(a) \cap Range(b) = {}
    PROVE  /\ a \o b \in Bijection(1..(Len(a) + Len(b)), Range(a) \cup Range(b))
           /\ a \o b \in Seq(S) /\ Len(a \o b) = Len(a) + Len(b)
           /\ Range(a \o b) = Range(a) \cup Range(b)
<1> DEFINE c == a \o b
           n == Len(a) + Len(b)
<1>1. Len(a) \in Nat /\ Len(b) \in Nat /\ DOMAIN a = 1..Len(a) /\ DOMAIN b = 1..Len(b)
    BY LenProperties
<1>2. /\ c \in Seq(S) /\ Len(c) = n /\ DOMAIN c = 1..n
      /\ \A i \in 1..n : c[i] = IF i <= Len(a) THEN a[i] ELSE b[i - Len(a)]
    BY <1>1, ConcatProperties, LenProperties
<1> HIDE DEF c
<1>3. \A i \in 1..n : \/ i \in 1..Len(a) /\ c[i] = a[i] /\ c[i] \in Range(a)
                      \/ i > Len(a) /\ i - Len(a) \in 1..Len(b) /\ c[i] = b[i - Len(a)] /\ c[i] \in Range(b)
  <2> TAKE i \in 1..n
  <2>1. CASE i <= Len(a)
      BY <1>1, <1>2, <2>1 DEF Range
  <2>2. CASE i > Len(a)
    <3>1. i - Len(a) \in 1..Len(b)
        BY <1>1, <2>2
    <3>2. c[i] = b[i - Len(a)]
        BY <1>1, <1>2, <2>2
    <3> QED BY <3>1, <3>2, <2>2, <1>1 DEF Range
  <2> QED BY <2>1, <2>2, <1>1
<1>4. IsInjective(c)
  <2> SUFFICES ASSUME NEW i \in 1..n, NEW k \in 1..n, c[i] = c[k] PROVE i = k
      BY <1>2 DEF IsInjective
  <2>1. CASE i \in 1..Len(a) /\ c[i] = a[i] /\ c[i] \in Range(a)
    <3>1. c[k] \notin Range(b)
        BY <2>1
    <3>2. k \in 1..Len(a) /\ c[k] = a[k]
        BY <1>3, <3>1
    <3> QED BY <2>1, <3>2, <1>1 DEF IsInjective
  <2>2. CASE i > Len(a) /\ i - Len(a) \in 1..Len(b) /\ c[i] = b[i - Len(a)] /\ c[i] \in Range(b)
    <3>1. c[k] \notin Range(a)
        BY <2>2
    <3>2. k - Len(a) \in 1..Len(b) /\ c[k] = b[k - Len(a)]
        BY <1>3, <3>1
    <3>3. i - Len(a) = k - Len(a)
        BY <2>2, <3>2, <1>1 DEF IsInjective
    <3> QED BY <3>3, <1>1
  <2> QED BY <2>1, <2>2, <1>3
<1>5. Range(c) = Range(a) \cup Range(b)
  <2>1. \A x \in Range(c) : x \in Range(a) \cup Range(b)
      BY <1>2, <1>3 DEF Range
  <2>2. \A x \in Range(a) : x \in Range(c)
    <3> TAKE x \in Range(a)
    <3>1. PICK i \in 1..Len(a) : a[i] = x
        BY <1>1 DEF Range
    <3>2. i \in 1..n /\ c[i] = x
        BY <3>1, <1>1, <1>2
    <3> QED BY <3>2, <1>2 DEF Range
  <2>3. \A x \in Range(b) : x \in Range(c)
    <3> TAKE x \in Range(b)
    <3>1. PICK i \in 1..Len(b) : b[i] = x
        BY <1>1 DEF Range
    <3>2. Len(a) + i \in 1..n /\ ~(Len(a) + i <= Len(a)) /\ (Len(a) + i) - Len(a) = i
        BY <3>1, <1>1
    <3>3. c[Len(a) + i] = x
        BY <3>1, <3>2, <1>2
    <3> QED BY <3>2, <3>3, <1>2 DEF Range
  <2> QED BY <2>1, <2>2, <2>3
<1>6. c \in [1..n -> Range(c)]
    BY <1>2 DEF Range
<1>7. \A y \in Range(c) : \E i \in 1..n : c[i] = y
    BY <1>2 DEF Range
<1> QED
    BY <1>2, <1>4, <1>5, <1>6, <1>7 DEF c, Bijection, Injection, Surjection

\* A function on 1..n is a sequence of n.
LEMMA FunctionIsSeq ==
    ASSUME NEW S, NEW n \in Nat, NEW f \in [1..n -> S]
    PROVE  f \in Seq(S) /\ Len(f) = n
<1>1. f \in Seq(S)
    BY SeqDef
<1>2. DOMAIN f = 1..n /\ DOMAIN f = 1..Len(f) /\ Len(f) \in Nat
    BY <1>1, LenProperties
<1> QED
    BY <1>1, <1>2

\* What numbers the pairs of a grid: quotient and remainder.
LEMMA Division ==
    ASSUME NEW n \in Nat \ {0}, NEW m \in Nat
    PROVE  /\ \A i \in 1..(m * n) : /\ (i - 1) \div n \in 0..(m - 1) /\ (i - 1) % n \in 0..(n - 1)
                                    /\ i - 1 = n * ((i - 1) \div n) + ((i - 1) % n)
           /\ \A q \in 0..(m - 1), r \in 0..(n - 1) :
                 /\ n * q + r + 1 \in 1..(m * n)
                 /\ (n * q + r) \div n = q /\ (n * q + r) % n = r
<1>1. \A k \in Nat : k = n * (k \div n) + (k % n) /\ k \div n \in Nat /\ k % n \in 0..(n - 1)
    OBVIOUS
<1>2. \A q \in Nat, r \in 0..(n - 1) : n * q + r < m * n <=> q < m
    OBVIOUS
<1>3. \A q, p \in Nat, r, s \in 0..(n - 1) : n * q + r = n * p + s => q = p /\ r = s
    OBVIOUS
<1>4. \A i \in 1..(m * n) : /\ (i - 1) \div n \in 0..(m - 1) /\ (i - 1) % n \in 0..(n - 1)
                            /\ i - 1 = n * ((i - 1) \div n) + ((i - 1) % n)
  <2> TAKE i \in 1..(m * n)
  <2> DEFINE k == i - 1
             q == k \div n
             r == k % n
  <2>0. m * n \in Nat
      OBVIOUS
  <2>1. k \in Nat /\ k < m * n
      BY <2>0
  <2>2. k = n * q + r /\ q \in Nat /\ r \in 0..(n - 1)
      BY <1>1, <2>1
  <2> HIDE DEF q, r, k
  <2>3. q < m
      BY <1>2, <2>1, <2>2
  <2>4. q \in 0..(m - 1)
      BY <2>2, <2>3
  <2> QED BY <2>2, <2>4 DEF q, r, k
<1>5. ASSUME NEW q \in 0..(m - 1), NEW r \in 0..(n - 1)
      PROVE  /\ n * q + r + 1 \in 1..(m * n)
             /\ (n * q + r) \div n = q /\ (n * q + r) % n = r
  <2> DEFINE k == n * q + r
             p == k \div n
             s == k % n
  <2>1. q \in Nat /\ q < m /\ r \in Nat
      OBVIOUS
  <2>2. k \in Nat /\ k < m * n
    <3>1. n * q \in Nat /\ m * n \in Nat
        BY <2>1
    <3>2. n * q + r < m * n
        BY <1>2, <2>1
    <3> QED BY <3>1, <3>2, <2>1
  <2>3. k = n * p + s /\ p \in Nat /\ s \in 0..(n - 1)
      BY <1>1, <2>2
  <2>4. n * q + r = n * p + s
      BY <2>3
  <2> HIDE DEF p, s
  <2>5. q = p /\ r = s
      BY <1>3, <2>1, <2>3, <2>4
  <2>6. k + 1 \in 1..(m * n)
    <3>1. m * n \in Nat
        OBVIOUS
    <3> HIDE DEF k
    <3> QED BY <2>2, <3>1
  <2> QED BY <2>5, <2>6 DEF p, s
<1> QED
    BY <1>4, <1>5

----------------------------------------------------------------------------
(* The children and their order *)

\* The specs of the constant.
LEMMA SpecFacts ==
    ASSUME spec \in Specs
    PROVE  /\ Testbenches \in Seq(STRING) /\ Devices \in Seq(STRING) /\ Corners \in Seq(STRING)
           /\ IsInjective(Testbenches) /\ IsInjective(Devices) /\ IsInjective(Corners)
           /\ Range(Testbenches) \cap Range(Devices) = {} /\ NoCorner \notin Range(Corners)
           /\ RunCorners \in Seq(Range(Corners) \cup {NoCorner}) /\ IsInjective(RunCorners) /\ RunCorners # <<>>
           /\ Range(RunCorners) = IF Corners = <<>> THEN {NoCorner} ELSE Range(Corners)
           /\ CornerIds \in Seq(Range(Corners) \cup {"nominal"}) /\ IsInjective(CornerIds) /\ CornerIds # <<>>
           /\ Range(CornerIds) = IF Corners = <<>> THEN {"nominal"} ELSE Range(Corners)
<1>1. /\ Testbenches \in Seq(STRING) /\ Devices \in Seq(STRING) /\ Corners \in Seq(STRING)
      /\ IsInjective(Testbenches) /\ IsInjective(Devices) /\ IsInjective(Corners)
      /\ Range(Testbenches) \cap Range(Devices) = {} /\ NoCorner \notin Range(Corners)
    BY ScheduleAssumption DEF Testbenches, Devices, Corners, SpecFields
<1>2. \A x : IsInjective(<<x>>) /\ Range(<<x>>) = {x} /\ <<x>> # <<>>
  <2> TAKE x
  <2>1. DOMAIN <<x>> = {1} /\ <<x>>[1] = x
      OBVIOUS
  <2> QED BY <2>1 DEF IsInjective, Range
<1>3. \A x : <<x>> \in Seq({x})
  <2> TAKE x
  <2>1. <<x>> \in [1..1 -> {x}]
      OBVIOUS
  <2> QED BY <2>1, FunctionIsSeq
<1>4. \A x : Corners \in Seq(Range(Corners) \cup {x}) /\ <<x>> \in Seq(Range(Corners) \cup {x})
  <2> TAKE x
  <2>1. Len(Corners) \in Nat /\ Corners \in [1..Len(Corners) -> Range(Corners) \cup {x}]
      BY <1>1, LenProperties, SeqDef DEF Range
  <2>2. <<x>> \in Seq(Range(Corners) \cup {x})
      BY <1>3, SeqMonotonic, LenProperties
  <2> QED BY <2>1, <2>2, FunctionIsSeq
<1> QED
    BY <1>1, <1>2, <1>4 DEF RunCorners, CornerIds

\* A grid has each testbench at each of the corners once.
LEMMA GridFacts ==
    ASSUME spec \in Specs, NEW S, NEW cs \in Seq(S), IsInjective(cs), cs # <<>>
    PROVE  LET cells == [kind : {"testbench"}, unit : Range(Testbenches), corner : Range(cs)]
           IN  /\ Grid(cs) \in Seq(cells) /\ Len(Grid(cs)) = Len(Testbenches) * Len(cs)
               /\ IsInjective(Grid(cs)) /\ Range(Grid(cs)) = cells
<1> DEFINE tb == Testbenches
           m == Len(tb)
           n == Len(cs)
           cells == [kind : {"testbench"}, unit : Range(tb), corner : Range(cs)]
           g == Grid(cs)
           at(i) == [kind |-> "testbench", unit |-> tb[1 + ((i - 1) \div n)], corner |-> cs[1 + ((i - 1) % n)]]
<1>1. /\ m \in Nat /\ n \in Nat \ {0} /\ DOMAIN tb = 1..m /\ DOMAIN cs = 1..n
      /\ tb \in Seq(STRING) /\ IsInjective(tb)
    BY SpecFacts, LenProperties, EmptySeq
<1>2. m * n \in Nat
    BY <1>1
<1>3. DOMAIN g = 1..(m * n) /\ \A i \in 1..(m * n) : g[i] = at(i)
    BY DEF Grid
<1>4. /\ \A i \in 1..(m * n) : /\ (i - 1) \div n \in 0..(m - 1) /\ (i - 1) % n \in 0..(n - 1)
                                /\ i - 1 = n * ((i - 1) \div n) + ((i - 1) % n)
      /\ \A q \in 0..(m - 1), r \in 0..(n - 1) :
            /\ n * q + r + 1 \in 1..(m * n)
            /\ (n * q + r) \div n = q /\ (n * q + r) % n = r
    BY <1>1, Division
<1> HIDE DEF tb, m, n, g
<1>5. \A q \in 0..(m - 1), r \in 0..(n - 1) : 1 + q \in 1..m /\ 1 + r \in 1..n
    BY <1>1
<1>6. \A i \in 1..(m * n) : at(i) \in cells
    BY <1>1, <1>4, <1>5 DEF Range
<1>7. g \in Seq(cells) /\ Len(g) = m * n
  <2>1. g = [i \in 1..(m * n) |-> g[i]]
      BY DEF g, Grid, m, tb, n
  <2>2. g \in [1..(m * n) -> cells]
      BY <1>3, <1>6, <2>1
  <2> QED BY <1>2, <2>2, FunctionIsSeq
<1>8. IsInjective(g)
  <2> SUFFICES ASSUME NEW i \in 1..(m * n), NEW k \in 1..(m * n), g[i] = g[k] PROVE i = k
      BY <1>3 DEF IsInjective
  <2> DEFINE q == (i - 1) \div n
             r == (i - 1) % n
             p == (k - 1) \div n
             s == (k - 1) % n
  <2>1. tb[1 + q] = tb[1 + p] /\ cs[1 + r] = cs[1 + s]
      BY <1>3
  <2>2. /\ q \in 0..(m - 1) /\ p \in 0..(m - 1) /\ r \in 0..(n - 1) /\ s \in 0..(n - 1)
        /\ i - 1 = n * q + r /\ k - 1 = n * p + s
      BY <1>4
  <2> HIDE DEF q, r, p, s
  <2>3. 1 + q = 1 + p
    <3>1. 1 + q \in DOMAIN tb /\ 1 + p \in DOMAIN tb
        BY <2>2, <1>1, <1>5
    <3> QED BY <3>1, <2>1, <1>1 DEF IsInjective
  <2>4. 1 + r = 1 + s
    <3>1. 1 + r \in DOMAIN cs /\ 1 + s \in DOMAIN cs
        BY <2>2, <1>1, <1>5
    <3> QED BY <3>1, <2>1 DEF IsInjective
  <2>5. q = p /\ r = s
      BY <2>2, <2>3, <2>4, <1>1
  <2>6. i - 1 = k - 1
      BY <2>2, <2>5
  <2> QED BY <2>6, <1>2
<1>9. \A c \in cells : \E i \in 1..(m * n) : g[i] = c
  <2> TAKE c \in cells
  <2>1. PICK t \in 1..m, d \in 1..n : tb[t] = c.unit /\ cs[d] = c.corner
      BY <1>1 DEF Range
  <2> DEFINE q == t - 1
             r == d - 1
             i == n * q + r + 1
  <2>2. q \in 0..(m - 1) /\ r \in 0..(n - 1) /\ 1 + q = t /\ 1 + r = d
      BY <1>1
  <2> HIDE DEF q, r
  <2>3. i \in 1..(m * n) /\ (n * q + r) \div n = q /\ (n * q + r) % n = r
      BY <1>4, <2>2
  <2>4. i - 1 = n * q + r
      BY <2>2, <1>1
  <2>5. at(i) = c
      BY <2>1, <2>2, <2>3, <2>4
  <2> QED BY <2>3, <2>5, <1>3
<1>10. Range(g) = cells
  <2>1. \A i \in DOMAIN g : g[i] \in cells
      BY <1>3, <1>6
  <2> HIDE DEF cells
  <2> QED BY <2>1, <1>3, <1>9 DEF Range
<1> QED
    BY <1>7, <1>8, <1>10 DEF g, m, n, tb

\* The devices' children.
LEMMA DeviceFacts ==
    ASSUME spec \in Specs
    PROVE  LET cells == [kind : {"device"}, unit : Range(Devices), corner : {NoCorner}]
           IN  /\ DeviceChildren \in Seq(cells) /\ Len(DeviceChildren) = Len(Devices)
               /\ IsInjective(DeviceChildren) /\ Range(DeviceChildren) = cells
<1> DEFINE cells == [kind : {"device"}, unit : Range(Devices), corner : {NoCorner}]
           f == DeviceChildren
           n == Len(Devices)
<1>1. n \in Nat /\ DOMAIN Devices = 1..n /\ IsInjective(Devices)
    BY SpecFacts, LenProperties
<1>2. f = [d \in 1..n |-> [kind |-> "device", unit |-> Devices[d], corner |-> NoCorner]]
    BY DEF DeviceChildren
<1> HIDE DEF f, n
<1>3. f \in [1..n -> cells]
    BY <1>1, <1>2 DEF Range
<1>4. f \in Seq(cells) /\ Len(f) = n
    BY <1>1, <1>3, FunctionIsSeq
<1>5. IsInjective(f)
    BY <1>1, <1>2 DEF IsInjective
<1>6. Range(f) = cells
  <2>1. \A c \in cells : \E d \in 1..n : f[d] = c
    <3> TAKE c \in cells
    <3>1. PICK d \in 1..n : Devices[d] = c.unit
        BY <1>1 DEF Range
    <3>2. f[d] = c
        BY <3>1, <1>2
    <3> QED BY <3>2
  <2> QED BY <2>1, <1>3 DEF Range
<1> QED
    BY <1>4, <1>5, <1>6 DEF f, n

\* The first place of a sequence that holds a member of a set holds one.
LEMMA FirstPlace ==
    ASSUME NEW T, NEW s \in Seq(T), NEW S, \E i \in DOMAIN s : s[i] \in S
    PROVE  LET n == Min({i \in DOMAIN s : s[i] \in S})
           IN  n \in DOMAIN s /\ s[n] \in S /\ \A i \in DOMAIN s : s[i] \in S => n <= i
<1> DEFINE I == {i \in DOMAIN s : s[i] \in S}
<1>1. Len(s) \in Nat /\ DOMAIN s = 1..Len(s)
    BY LenProperties
<1>2. I \in SUBSET Nat /\ I # {}
    BY <1>1
<1>3. IsFiniteSet(I)
  <2>1. IsFiniteSet(1..Len(s)) /\ I \in SUBSET (1..Len(s))
      BY <1>1, FS_Interval
  <2> QED BY <2>1, FS_Subset
<1> HIDE DEF I
<1>4. Min(I) \in I /\ \A i \in I : Min(I) <= i
    BY <1>2, <1>3, MinOfNats
<1> QED
    BY <1>4 DEF I

\* The first of a set of corners is one of them; so is its nominal one.
LEMMA FirstFacts ==
    ASSUME spec \in Specs, NEW S \in SUBSET Range(CornerIds), S # {}
    PROVE  First(S) \in S /\ NominalOf(S) \in S
<1>1. CornerIds \in Seq(Range(Corners) \cup {"nominal"})
    BY SpecFacts
<1>2. \E i \in DOMAIN CornerIds : CornerIds[i] \in S
    BY DEF Range
<1>3. First(S) \in S
    BY <1>1, <1>2, FirstPlace DEF First
<1> QED
    BY <1>3 DEF NominalOf

\* The nominal corner is one the run has.
LEMMA NominalFacts ==
    ASSUME spec \in Specs
    PROVE  Nominal \in Range(RunCorners)
<1>1. CASE Corners = <<>>
    BY <1>1, SpecFacts DEF Nominal
<1>2. CASE Corners # <<>>
  <2>1. Range(CornerIds) = Range(Corners) /\ Range(RunCorners) = Range(Corners)
      BY <1>2, SpecFacts
  <2>2. Range(Corners) # {}
    <3>1. Len(Corners) \in Nat \ {0} /\ DOMAIN Corners = 1..Len(Corners)
        BY <1>2, SpecFacts, EmptySeq, LenProperties
    <3>2. 1 \in DOMAIN Corners
        BY <3>1
    <3> QED BY <3>2 DEF Range
  <2>3. NominalOf(Range(Corners)) \in Range(Corners)
      BY <2>1, <2>2, FirstFacts
  <2> QED BY <1>2, <2>1, <2>3 DEF Nominal
<1> QED
    BY <1>1, <1>2

\* Moving the nominal corner to the front keeps every corner.
LEMMA NominalFirstFacts ==
    ASSUME spec \in Specs
    PROVE  /\ NominalFirst \in Seq(Range(RunCorners)) /\ Len(NominalFirst) = Len(RunCorners)
           /\ IsInjective(NominalFirst) /\ NominalFirst # <<>> /\ Range(NominalFirst) = Range(RunCorners)
<1> DEFINE c == RunCorners
           L == Len(c)
           n == CHOOSE i \in DOMAIN c : c[i] = Nominal
           p(i) == IF i = 1 THEN n ELSE IF i <= n THEN i - 1 ELSE i
           f == NominalFirst
<1>1. L \in Nat \ {0} /\ DOMAIN c = 1..L /\ IsInjective(c)
    BY SpecFacts, EmptySeq, LenProperties
<1>2. n \in 1..L
    BY <1>1, NominalFacts DEF Range
<1>3. DOMAIN f = 1..L /\ \A i \in 1..L : f[i] = c[p(i)]
    BY DEF NominalFirst
<1>4. f = [i \in 1..L |-> f[i]]
    BY DEF NominalFirst
<1> HIDE DEF c, L, n, f
<1>5. \A i \in 1..L : p(i) \in 1..L
    BY <1>1, <1>2
<1>6. \A i, k \in 1..L : p(i) = p(k) => i = k
    BY <1>1, <1>2
<1>7. \A j \in 1..L : \E i \in 1..L : p(i) = j
  <2> TAKE j \in 1..L
  <2>1. CASE j = n
    <3>1. 1 \in 1..L /\ p(1) = j
        BY <1>1, <2>1
    <3> QED BY <3>1
  <2>2. CASE j < n
    <3>1. j + 1 \in 1..L /\ p(j + 1) = j
        BY <1>1, <1>2, <2>2
    <3> QED BY <3>1
  <2>3. CASE j > n
    <3>1. p(j) = j
        BY <1>1, <1>2, <2>3
    <3> QED BY <3>1
  <2> QED BY <2>1, <2>2, <2>3, <1>1, <1>2
<1> HIDE DEF p
<1>8. f \in [1..L -> Range(c)]
  <2>1. \A i \in 1..L : f[i] \in Range(c)
      BY <1>1, <1>3, <1>5 DEF Range
  <2> QED BY <2>1, <1>4
<1>9. f \in Seq(Range(c)) /\ Len(f) = L
    BY <1>1, <1>8, FunctionIsSeq
<1>10. IsInjective(f)
    BY <1>1, <1>3, <1>5, <1>6 DEF IsInjective
<1>11. Range(f) = Range(c)
  <2>1. \A x \in Range(c) : \E i \in 1..L : f[i] = x
    <3> TAKE x \in Range(c)
    <3>1. PICK j \in 1..L : c[j] = x
        BY <1>1 DEF Range
    <3>2. PICK i \in 1..L : p(i) = j
        BY <1>7
    <3> QED BY <3>1, <3>2, <1>3
  <2> QED BY <2>1, <1>3, <1>8 DEF Range
<1>12. f # <<>>
    BY <1>9, <1>1, EmptySeq
<1> QED
    BY <1>9, <1>10, <1>11, <1>12 DEF f, c, L

\* Every testbench child and every device child, each once; a device's has no corner.
LEMMA ChildrenFacts ==
    ASSUME spec \in Specs
    PROVE  /\ TestbenchChildren \in Seq(Range(TestbenchChildren))
           /\ ChildrenOf \in Seq(Children) /\ ChildrenOf \in Bijection(1..Len(ChildrenOf), Children)
           /\ Len(ChildrenOf) \in Nat /\ Len(ChildrenOf) = Len(TestbenchChildren) + Len(DeviceChildren)
           /\ Children = Range(TestbenchChildren) \cup Range(DeviceChildren)
           /\ Range(TestbenchChildren) = [kind : {"testbench"}, unit : Range(Testbenches), corner : Range(RunCorners)]
           /\ Range(DeviceChildren) = [kind : {"device"}, unit : Range(Devices), corner : {NoCorner}]
           /\ Range(TestbenchChildren) \cap Range(DeviceChildren) = {}
<1> DEFINE T == [kind : {"testbench"}, unit : Range(Testbenches), corner : Range(RunCorners)]
           D == [kind : {"device"}, unit : Range(Devices), corner : {NoCorner}]
<1>1. TestbenchChildren \in Seq(T) /\ IsInjective(TestbenchChildren) /\ Range(TestbenchChildren) = T
    BY SpecFacts, GridFacts DEF TestbenchChildren
<1>2. DeviceChildren \in Seq(D) /\ IsInjective(DeviceChildren) /\ Range(DeviceChildren) = D
    BY DeviceFacts
<1>3. T \cap D = {}
    OBVIOUS
<1> HIDE DEF T, D
<1>4. TestbenchChildren \in Seq(T \cup D) /\ DeviceChildren \in Seq(T \cup D)
    BY <1>1, <1>2, SeqMonotonic
<1>5. /\ ChildrenOf \in Bijection(1..(Len(TestbenchChildren) + Len(DeviceChildren)), T \cup D)
      /\ ChildrenOf \in Seq(T \cup D) /\ Len(ChildrenOf) = Len(TestbenchChildren) + Len(DeviceChildren)
      /\ Range(ChildrenOf) = T \cup D
  <2>1. Range(TestbenchChildren) \cap Range(DeviceChildren) = {}
      BY <1>1, <1>2, <1>3
  <2>2. /\ ChildrenOf \in Bijection(1..(Len(TestbenchChildren) + Len(DeviceChildren)), Range(TestbenchChildren) \cup Range(DeviceChildren))
        /\ ChildrenOf \in Seq(T \cup D) /\ Len(ChildrenOf) = Len(TestbenchChildren) + Len(DeviceChildren)
        /\ Range(ChildrenOf) = Range(TestbenchChildren) \cup Range(DeviceChildren)
    <3> DEFINE a == TestbenchChildren
               b == DeviceChildren
               U == T \cup D
    <3>1. a \in Seq(U) /\ b \in Seq(U) /\ IsInjective(a) /\ IsInjective(b) /\ Range(a) \cap Range(b) = {}
        BY <1>1, <1>2, <1>4, <2>1
    <3> HIDE DEF a, b, U
    <3>2. a \o b \in Bijection(1..(Len(a) + Len(b)), Range(a) \cup Range(b))
        BY ONLY <3>1, ConcatInjective, Zenon
    <3>3. a \o b \in Seq(U) /\ Len(a \o b) = Len(a) + Len(b)
        BY ONLY <3>1, ConcatInjective, Zenon
    <3>4. Range(a \o b) = Range(a) \cup Range(b)
      <4> DEFINE c == a \o b
                 n == Len(a) + Len(b)
                 R == Range(a) \cup Range(b)
      <4>1. c \in Bijection(1..n, R)
          BY <3>2
      <4> HIDE DEF c, n, R
      <4>2. Range(c) = R
          BY <4>1 DEF Bijection, Injection, Surjection, Range
      <4> QED BY <4>2 DEF c, R
    <3> QED BY <3>2, <3>3, <3>4 DEF a, b, U, ChildrenOf
  <2> QED BY <2>2, <1>1, <1>2 DEF ChildrenOf
<1>6. Len(ChildrenOf) \in Nat
    BY <1>5, LenProperties
<1> QED
    BY <1>1, <1>2, <1>3, <1>5, <1>6 DEF Children, T, D

\* An order with the devices first has no testbench child before a device.
DevicesFirst(o) ==
    \A i, k \in DOMAIN o : i < k /\ o[k].kind = "device" => o[i].kind = "device"

\* The devices and then every testbench child once: every child once, the devices first.
LEMMA DevicesThen ==
    ASSUME spec \in Specs, NEW S, NEW t \in Seq(S), IsInjective(t), Range(t) = Range(TestbenchChildren)
    PROVE  LET o == DeviceChildren \o t
           IN  /\ o \in Seq(Children) /\ Len(o) = Len(DeviceChildren) + Len(t)
               /\ o \in Bijection(1..Len(o), Children) /\ DevicesFirst(o)
<1> DEFINE T == Range(TestbenchChildren)
           D == Range(DeviceChildren)
           o == DeviceChildren \o t
<1>1. T \cap D = {} /\ Children = T \cup D
    BY ChildrenFacts
<1>2. /\ \A c \in D : c.kind = "device"
      /\ \A c \in T : c.kind = "testbench"
  <2>1. /\ T = [kind : {"testbench"}, unit : Range(Testbenches), corner : Range(RunCorners)]
        /\ D = [kind : {"device"}, unit : Range(Devices), corner : {NoCorner}]
      BY ChildrenFacts
  <2> HIDE DEF T, D
  <2> QED BY <2>1
<1>3. DeviceChildren \in Seq(D) /\ IsInjective(DeviceChildren)
    BY DeviceFacts
<1>4. t \in Seq(T)
  <2>1. Len(t) \in Nat /\ DOMAIN t = 1..Len(t) /\ t \in [1..Len(t) -> S]
      BY LenProperties
  <2>2. t \in [1..Len(t) -> T]
      BY <2>1 DEF Range
  <2> QED BY <2>1, <2>2, FunctionIsSeq
<1> HIDE DEF T, D
<1>5. DeviceChildren \in Seq(T \cup D) /\ t \in Seq(T \cup D)
    BY <1>3, <1>4, SeqMonotonic
<1>6. /\ o \in Bijection(1..(Len(DeviceChildren) + Len(t)), T \cup D)
      /\ o \in Seq(T \cup D) /\ Len(o) = Len(DeviceChildren) + Len(t)
  <2>0. Range(DeviceChildren) \cap Range(t) = {}
      BY <1>1 DEF D, T
  <2>1. Range(DeviceChildren) = D /\ Range(t) = T
      BY DEF D, T
  <2>2. /\ o \in Bijection(1..(Len(DeviceChildren) + Len(t)), Range(DeviceChildren) \cup Range(t))
        /\ o \in Seq(T \cup D) /\ Len(o) = Len(DeviceChildren) + Len(t)
    <3> DEFINE a == DeviceChildren
               U == T \cup D
    <3>1. a \in Seq(U) /\ t \in Seq(U) /\ IsInjective(a) /\ IsInjective(t) /\ Range(a) \cap Range(t) = {}
        BY <1>3, <1>5, <2>0
    <3> HIDE DEF a, U
    <3>2. /\ a \o t \in Bijection(1..(Len(a) + Len(t)), Range(a) \cup Range(t))
          /\ a \o t \in Seq(U) /\ Len(a \o t) = Len(a) + Len(t)
        BY ONLY <3>1, ConcatInjective, Zenon
    <3> QED BY <3>2 DEF a, U
  <2>3. Range(DeviceChildren) \cup Range(t) = T \cup D
      BY <2>1
  <2> QED BY <2>2, <2>3
<1>7. DevicesFirst(o)
  <2>1. /\ Len(DeviceChildren) \in Nat /\ Len(t) \in Nat /\ DOMAIN o = 1..(Len(DeviceChildren) + Len(t))
        /\ DOMAIN t = 1..Len(t) /\ DOMAIN DeviceChildren = 1..Len(DeviceChildren)
      BY <1>5, <1>6, LenProperties
  <2>2. \A i \in DOMAIN o : o[i] = IF i <= Len(DeviceChildren) THEN DeviceChildren[i] ELSE t[i - Len(DeviceChildren)]
      BY <1>5, <2>1, ConcatProperties
  <2>3. \A i \in DOMAIN o : i <= Len(DeviceChildren) => o[i].kind = "device"
    <3>1. \A i \in 1..Len(DeviceChildren) : DeviceChildren[i] \in D
        BY <1>3, ElementOfSeq
    <3> QED BY <2>1, <2>2, <3>1, <1>2
  <2>4. \A i \in DOMAIN o : i > Len(DeviceChildren) => o[i].kind = "testbench"
    <3>1. \A i \in 1..Len(t) : t[i] \in T
        BY <1>4, ElementOfSeq
    <3>2. \A i \in DOMAIN o : i > Len(DeviceChildren) => i - Len(DeviceChildren) \in 1..Len(t) /\ ~(i <= Len(DeviceChildren))
        BY <2>1
    <3> QED BY <2>2, <3>1, <3>2, <1>2
  <2> HIDE DEF o
  <2>5. \A i, k \in DOMAIN o : i < k /\ o[k].kind = "device" => o[i].kind = "device"
    <3> TAKE i, k \in DOMAIN o
    <3> HAVE i < k /\ o[k].kind = "device"
    <3>1. i \in Nat /\ k \in Nat
        BY <2>1
    <3>2. k <= Len(DeviceChildren)
        BY <2>4, <2>1, <3>1
    <3>3. i <= Len(DeviceChildren)
        BY <3>1, <3>2, <2>1
    <3> QED BY <3>3, <2>3
  <2> QED BY <2>5 DEF DevicesFirst
<1> QED
    BY <1>1, <1>6, <1>7

\* So has every order a schedule may give.
LEMMA OrdersFacts ==
    ASSUME spec \in Specs, NEW stops, NEW o \in Orders(stops)
    PROVE  /\ o \in Seq(Children) /\ Len(o) = Len(ChildrenOf)
           /\ o \in Bijection(1..Len(ChildrenOf), Children) /\ DevicesFirst(o)
<1> DEFINE T == Range(TestbenchChildren)
           n == Len(TestbenchChildren)
<1>1. n \in Nat /\ Len(DeviceChildren) \in Nat /\ Len(ChildrenOf) = Len(DeviceChildren) + n
  <2>1. n \in Nat
      BY ChildrenFacts, LenProperties
  <2>2. Len(DeviceChildren) \in Nat
      BY DeviceFacts, LenProperties
  <2> QED BY <2>1, <2>2, ChildrenFacts
<1>2. \E S : \E t \in Seq(S) : o = DeviceChildren \o t /\ IsInjective(t) /\ Range(t) = T /\ Len(t) = n
  <2>1. CASE "testbench" \in stops
    <3>1. PICK t \in Bijection(1..n, T) : o = DeviceChildren \o t
        BY <2>1 DEF Orders
    <3>2. t \in [1..n -> T] /\ IsInjective(t) /\ \A x \in T : \E i \in 1..n : t[i] = x
        BY <3>1 DEF Bijection, Injection, Surjection
    <3>3. t \in Seq(T) /\ Len(t) = n
        BY <1>1, <3>2, FunctionIsSeq
    <3>4. Range(t) = T
        BY <3>2 DEF Range
    <3> QED BY <3>1, <3>2, <3>3, <3>4
  <2>2. CASE "testbench" \notin stops
    <3> DEFINE t == Grid(NominalFirst)
               cells == [kind : {"testbench"}, unit : Range(Testbenches), corner : Range(RunCorners)]
    <3>1. o = DeviceChildren \o t
        BY <2>2 DEF Orders, SpecOrder
    <3>2. t \in Seq(cells) /\ IsInjective(t) /\ Range(t) = cells /\ Len(t) = Len(Testbenches) * Len(RunCorners)
        BY NominalFirstFacts, GridFacts
    <3>3. T = cells
        BY ChildrenFacts
    <3>4. n = Len(Testbenches) * Len(RunCorners)
        BY SpecFacts, GridFacts DEF TestbenchChildren
    <3> QED BY <3>1, <3>2, <3>3, <3>4
  <2> QED BY <2>1, <2>2
<1>3. PICK S : \E t \in Seq(S) : o = DeviceChildren \o t /\ IsInjective(t) /\ Range(t) = T /\ Len(t) = n
    BY <1>2
<1>4. PICK t \in Seq(S) : o = DeviceChildren \o t /\ IsInjective(t) /\ Range(t) = T /\ Len(t) = n
    BY <1>3
<1>5. /\ o \in Seq(Children) /\ Len(o) = Len(DeviceChildren) + Len(t)
      /\ o \in Bijection(1..Len(o), Children) /\ DevicesFirst(o)
    BY <1>4, DevicesThen
<1> QED
    BY <1>1, <1>4, <1>5

----------------------------------------------------------------------------
(* The inductive invariant *)

\* The child at a place of the order stops the point.
Stops(i) == order[i].kind \in kinds /\ Fails(order[i])

\* With a schedule the devices are first.
OrderKept == kinds # {} => DevicesFirst(order)

\* The two rules of stop_kinds hang together: testbenches stop a point only where its devices do too.
KindsRule ==
    /\ "device" \in kinds => Testbenches # <<>>
    /\ "testbench" \in kinds /\ Devices # <<>> /\ Testbenches # <<>> => "device" \in kinds

\* Up to place no child stops the point but the reason, after which only devices were passed.
FirstFailure ==
    /\ reason = NoChild => \A i \in 1..place : i < Len(ChildrenOf) => ~Stops(i)
    /\ reason # NoChild =>
          \E r \in 1..place :
             /\ r < Len(ChildrenOf) /\ reason = order[r] /\ Stops(r)
             /\ \A i \in 1..(r - 1) : ~Stops(i)
             /\ \A k \in (r + 1)..place : order[k].kind = "device"

\* A verdict is given when every child ran or the point is stopped, and it is aggregate's.
JudgedRight ==
    Judged => /\ place = Len(ChildrenOf) \/ StopsHere
              /\ verdict = Aggregate(ran)

Inv == TypeOK /\ OrderKept /\ KindsRule /\ FirstFailure /\ JudgedRight

\* What a spec and its outcomes say stays what it was while they do.
LEMMA Frozen ==
    ASSUME spec' = spec, outcome' = outcome
    PROVE  /\ ChildrenOf' = ChildrenOf /\ Children' = Children
           /\ \A c : Fails(c)' <=> Fails(c)
           /\ \A set : Aggregate(set)' = Aggregate(set)
           /\ Complete' = Complete
<1>1. /\ Testbenches' = Testbenches /\ Devices' = Devices /\ Corners' = Corners
    BY DEF Testbenches, Devices, Corners
<1>2. ChildrenOf' = ChildrenOf /\ Children' = Children
    BY <1>1 DEF ChildrenOf, Children, TestbenchChildren, DeviceChildren, Grid, RunCorners
<1>3. CornerIds' = CornerIds /\ \A S : NominalOf(S)' = NominalOf(S) /\ First(S)' = First(S)
    BY <1>1 DEF CornerIds, NominalOf, First
<1>4. Nominal' = Nominal
    BY <1>1, <1>3 DEF Nominal
<1>5. \A c : Violates(c)' = Violates(c) /\ InScope(c)' = InScope(c)
    BY <1>1, <1>4 DEF Violates, InScope
<1>6. \A c : Fails(c)' <=> Fails(c)
    BY <1>5 DEF Fails
<1>7. \A set, corner : /\ Present(set)' = Present(set) /\ At(corner, set)' = At(corner, set)
                       /\ ViolatesAt(corner, set)' = ViolatesAt(corner, set) /\ Scope(set)' = Scope(set)
    BY <1>1, <1>3, <1>5 DEF Present, At, ViolatesAt, Scope
<1>8. \A set, corner : Penalty(corner, set)' = Penalty(corner, set) /\ Violating(set)' = Violating(set)
    BY <1>7 DEF Penalty, Violating
<1>9. \A set : Violated(set)' = Violated(set)
    BY <1>3, <1>8 DEF Violated
<1>10. \A set, status : Some(set, status)' = Some(set, status)
    BY DEF Some
<1>11. \A set : Incomplete(set)' = Incomplete(set)
    BY <1>8, <1>9, <1>10 DEF Incomplete
<1>12. \A corner : ObjectiveAt(corner)' = ObjectiveAt(corner) /\ HasObjective(corner)' = HasObjective(corner)
    BY <1>2, <1>7 DEF ObjectiveAt, HasObjective
<1>13. WorstObjective' = WorstObjective
    BY <1>2, <1>3, <1>7, <1>12 DEF WorstObjective
<1>14. Complete' = Complete
    BY <1>2, <1>7, <1>8, <1>9, <1>10, <1>13 DEF Complete
<1>15. \A set : Aggregate(set)' = Aggregate(set)
    BY <1>2, <1>11, <1>14 DEF Aggregate
<1> QED
    BY <1>2, <1>6, <1>14, <1>15

\* The order passes every child once.
LEMMA OrderFacts ==
    ASSUME TypeOK
    PROVE  /\ spec \in Specs /\ Len(ChildrenOf) \in Nat
           /\ DOMAIN order = 1..Len(ChildrenOf) /\ Len(order) = Len(ChildrenOf)
           /\ \A i \in 1..Len(ChildrenOf) : order[i] \in Children
           /\ \A i, k \in 1..Len(ChildrenOf) : order[i] = order[k] => i = k
           /\ \A c \in Children : \E i \in 1..Len(ChildrenOf) : order[i] = c
           /\ NoChild \notin Children
           /\ \A c \in Children : \/ c.kind = "device" /\ c.corner = NoCorner /\ Devices # <<>>
                                  \/ /\ c.kind = "testbench" /\ Testbenches # <<>>
                                     /\ c.corner \in IF Corners = <<>> THEN {NoCorner} ELSE Range(Corners)
<1>1. spec \in Specs
    BY DEF TypeOK
<1>2. Len(ChildrenOf) \in Nat
    BY <1>1, ChildrenFacts
<1>3. /\ order \in [1..Len(ChildrenOf) -> Children] /\ IsInjective(order)
      /\ \A c \in Children : \E i \in 1..Len(ChildrenOf) : order[i] = c
    BY DEF TypeOK, Bijection, Injection, Surjection
<1>4. Len(order) = Len(ChildrenOf)
    BY <1>2, <1>3, FunctionIsSeq
<1>5. ASSUME NEW c \in Children
      PROVE  /\ c # NoChild
             /\ \/ c.kind = "device" /\ c.corner = NoCorner /\ Devices # <<>>
                \/ /\ c.kind = "testbench" /\ Testbenches # <<>>
                   /\ c.corner \in IF Corners = <<>> THEN {NoCorner} ELSE Range(Corners)
  <2>1. \/ c \in [kind : {"testbench"}, unit : Range(Testbenches), corner : Range(RunCorners)]
        \/ c \in [kind : {"device"}, unit : Range(Devices), corner : {NoCorner}]
      BY <1>1, ChildrenFacts
  <2>2. Range(<<>>) = {}
      BY DEF Range
  <2>3. CASE c \in [kind : {"testbench"}, unit : Range(Testbenches), corner : Range(RunCorners)]
    <3>1. c.kind = "testbench" /\ c.unit \in Range(Testbenches) /\ c.corner \in Range(RunCorners)
        BY <2>3
    <3>2. Testbenches # <<>>
        BY <2>2, <3>1
    <3> QED BY <1>1, <3>1, <3>2, SpecFacts DEF NoChild
  <2>4. CASE c \in [kind : {"device"}, unit : Range(Devices), corner : {NoCorner}]
    <3>1. c.kind = "device" /\ c.unit \in Range(Devices) /\ c.corner = NoCorner
        BY <2>4
    <3> QED BY <2>2, <3>1 DEF NoChild
  <2> QED BY <2>1, <2>3, <2>4
<1> QED
    BY <1>1, <1>2, <1>3, <1>4, <1>5 DEF IsInjective

LEMMA InitInv == Init => Inv
<1> SUFFICES ASSUME Init PROVE Inv
    OBVIOUS
<1>1. PICK override \in Switch, switch \in Switch : kinds = StopKinds(override, switch)
    BY DEF Init
<1>2. spec \in Specs /\ place = 0 /\ reason = NoChild /\ ran = {} /\ verdict = NoVerdict /\ outcome \in [Children -> Result]
    BY DEF Init
<1>3. kinds \subseteq {"testbench", "device"}
    BY <1>1 DEF StopKinds
<1>4. KindsRule
    BY <1>1 DEF KindsRule, StopKinds, StopWanted, Switch
<1>5. order \in Bijection(1..Len(ChildrenOf), Children) /\ OrderKept
  <2>1. CASE kinds = {}
      BY <2>1, <1>2, ChildrenFacts DEF Init, OrderKept
  <2>2. CASE kinds # {}
    <3>1. order \in Orders(kinds)
        BY <2>2 DEF Init
    <3> QED BY <3>1, <1>2, OrdersFacts DEF OrderKept
  <2> QED BY <2>1, <2>2
<1>6. TypeOK
  <2>1. order \in [1..Len(ChildrenOf) -> Children] /\ Len(ChildrenOf) \in Nat
      BY <1>2, <1>5, ChildrenFacts DEF Bijection, Injection
  <2>2. Len(order) \in Nat
      BY <2>1, FunctionIsSeq
  <2>3. ran = {order[i] : i \in 1..place}
      BY <1>2
  <2> QED BY <1>2, <1>3, <1>5, <2>2, <2>3 DEF TypeOK
<1>7. FirstFailure
    BY <1>2 DEF FirstFailure
<1>8. JudgedRight
    BY <1>2 DEF JudgedRight, Judged
<1> QED
    BY <1>4, <1>5, <1>6, <1>7, <1>8 DEF Inv

LEMMA RunChildInv == Inv /\ RunChild => Inv'
<1> SUFFICES ASSUME Inv, RunChild PROVE Inv'
    OBVIOUS
<1> DEFINE n == Len(ChildrenOf)
           child == order[place + 1]
           p == place + 1
           hit == reason = NoChild /\ p < n /\ child.kind \in kinds /\ Fails(child)
<1>0. TypeOK /\ OrderKept /\ KindsRule /\ FirstFailure
    BY DEF Inv
<1>1. /\ spec' = spec /\ outcome' = outcome /\ order' = order /\ kinds' = kinds /\ verdict' = verdict
      /\ verdict = NoVerdict /\ ~StopsHere /\ place' = p
    BY DEF RunChild
<1>2. /\ n \in Nat /\ Len(order) = n /\ DOMAIN order = 1..n
      /\ \A i \in 1..n : order[i] \in Children /\ order[i] # NoChild
    BY <1>0, OrderFacts
<1>3. place \in 0..n /\ place < n /\ place \in Nat
    BY <1>0, <1>2 DEF TypeOK, RunChild
<1>4. p \in 1..n /\ p \in Nat /\ \A i : i \in 1..p <=> i \in 1..place \/ i = p
    BY <1>2, <1>3
<1>5. ran' = ran \cup {child} /\ reason' = IF hit THEN child ELSE reason
    BY <1>2 DEF RunChild
<1>6. ChildrenOf' = ChildrenOf /\ Children' = Children /\ \A c : Fails(c)' <=> Fails(c)
    BY <1>1, Frozen
<1>7. TypeOK'
  <2>1. ran' = {order[i] : i \in 1..p}
    <3>1. ran = {order[i] : i \in 1..place}
        BY <1>0 DEF TypeOK
    <3> HIDE DEF p
    <3>2. ran' = {order[i] : i \in 1..place} \cup {order[p]}
        BY <3>1, <1>5 DEF p
    <3> QED BY <3>2, <1>4
  <2>2. reason' \in ran' \cup {NoChild}
      BY <1>0, <1>5 DEF TypeOK
  <2>3. spec' \in Specs /\ outcome' \in [Children' -> Result] /\ kinds' \subseteq {"testbench", "device"}
        /\ order' \in Bijection(1..Len(ChildrenOf'), Children')
      BY <1>0, <1>1, <1>6 DEF TypeOK
  <2>4. place' \in 0..Len(order') /\ ran' = {order'[i] : i \in 1..place'}
      BY <1>1, <1>2, <1>4, <2>1
  <2> QED BY <2>2, <2>3, <2>4 DEF TypeOK, Result, Failed, Lost, Gave
<1>8. OrderKept' /\ KindsRule'
    BY <1>0, <1>1 DEF OrderKept, KindsRule, DevicesFirst, Testbenches, Devices
<1>9. \A i : Stops(i)' <=> Stops(i)
    BY <1>1, <1>6 DEF Stops
<1>10. FirstFailure'
  <2> HIDE DEF n, p
  <2>1. CASE reason # NoChild
    <3>1. PICK r \in 1..place : /\ r < n /\ reason = order[r] /\ Stops(r)
                                /\ \A i \in 1..(r - 1) : ~Stops(i)
                                /\ \A k \in (r + 1)..place : order[k].kind = "device"
        BY <1>0, <2>1 DEF FirstFailure, n
    <3>2. child.kind = "device"
        BY <1>1, <2>1 DEF StopsHere
    <3>3. \A k \in (r + 1)..p : order[k].kind = "device"
      <4> TAKE k \in (r + 1)..p
      <4>1. k = p \/ k \in (r + 1)..place
          BY <1>3, <1>4 DEF p
      <4>2. CASE k = p
          BY <4>2, <3>2 DEF p
      <4>3. CASE k \in (r + 1)..place
          BY <4>3, <3>1
      <4> QED BY <4>1, <4>2, <4>3
    <3>4. r \in 1..p
        BY <1>4
    <3>5. reason' = reason
        BY <1>5, <2>1
    <3> QED BY <3>1, <3>3, <3>4, <3>5, <2>1, <1>1, <1>6, <1>9 DEF FirstFailure, n
  <2>2. CASE reason = NoChild /\ ~hit
    <3>1. \A i \in 1..p : i < n => ~Stops(i)
      <4>1. \A i \in 1..place : i < n => ~Stops(i)
          BY <1>0, <2>2 DEF FirstFailure, n
      <4>2. p < n => ~Stops(p)
          BY <2>2 DEF Stops, p
      <4> QED BY <4>1, <4>2, <1>4
    <3>2. reason' = NoChild
        BY <1>5, <2>2
    <3> QED BY <3>1, <3>2, <1>1, <1>6, <1>9 DEF FirstFailure, n, NoChild
  <2>3. CASE hit
    <3>1. reason' = order[p] /\ order[p] # NoChild
        BY <1>2, <1>4, <1>5, <2>3 DEF p
    <3>2. p < n /\ Stops(p) /\ \A i \in 1..place : i < n => ~Stops(i)
        BY <1>0, <2>3 DEF FirstFailure, Stops, n, p
    <3>3. \A i \in 1..(p - 1) : ~Stops(i)
        BY <3>2, <1>2, <1>3 DEF p
    <3>4. (p + 1)..p = {} /\ p \in 1..p
        BY <1>4
    <3> QED BY <3>1, <3>2, <3>3, <3>4, <1>1, <1>6, <1>9 DEF FirstFailure, n, NoChild
  <2> QED BY <2>1, <2>2, <2>3
<1>11. JudgedRight'
    BY <1>1 DEF JudgedRight, Judged, NoVerdict, Verdict
<1> QED
    BY <1>7, <1>8, <1>10, <1>11 DEF Inv

\* Whatever leaves a point's state alone but its verdict keeps all but the verdict's part.
LEMMA StillInv ==
    ASSUME TypeOK, OrderKept, KindsRule, FirstFailure, UNCHANGED <<spec, outcome, order, kinds, place, reason, ran>>
    PROVE  /\ TypeOK' /\ OrderKept' /\ KindsRule' /\ FirstFailure'
           /\ ChildrenOf' = ChildrenOf /\ Children' = Children /\ Aggregate(ran)' = Aggregate(ran) /\ StopsHere' = StopsHere
<1>1. ChildrenOf' = ChildrenOf /\ Children' = Children /\ \A c : Fails(c)' <=> Fails(c)
    BY Frozen
<1>2. \A i : Stops(i)' <=> Stops(i)
    BY <1>1 DEF Stops
<1>3. TypeOK'
    BY <1>1 DEF TypeOK, Result, Failed, Lost, Gave, NoChild
<1>4. OrderKept' /\ KindsRule'
    BY DEF OrderKept, KindsRule, DevicesFirst, Testbenches, Devices
<1>5. FirstFailure'
    BY <1>1, <1>2 DEF FirstFailure, NoChild
<1>6. Aggregate(ran)' = Aggregate(ran)
  <2>1. \A set : Aggregate(set)' = Aggregate(set)
      BY Frozen
  <2> QED BY <2>1
<1>7. StopsHere' = StopsHere
    BY DEF StopsHere, NoChild
<1> QED
    BY <1>1, <1>3, <1>4, <1>5, <1>6, <1>7

LEMMA JudgeInv == Inv /\ Judge => Inv'
<1> SUFFICES ASSUME Inv, Judge PROVE Inv'
    OBVIOUS
<1>1. TypeOK /\ OrderKept /\ KindsRule /\ FirstFailure
    BY DEF Inv
<1>2. /\ TypeOK' /\ OrderKept' /\ KindsRule' /\ FirstFailure'
      /\ ChildrenOf' = ChildrenOf /\ Aggregate(ran)' = Aggregate(ran) /\ StopsHere' = StopsHere
    BY <1>1, StillInv DEF Judge
<1>3. JudgedRight'
  <2>1. verdict' = Aggregate(ran)' /\ place' = place /\ (place = Len(ChildrenOf) \/ StopsHere)
      BY <1>1, <1>2, OrderFacts DEF Judge
  <2> QED BY <2>1, <1>2 DEF JudgedRight
<1> QED
    BY <1>2, <1>3 DEF Inv

LEMMA NextInv == Inv /\ [Next]_vars => Inv'
<1> SUFFICES ASSUME Inv, [Next]_vars PROVE Inv'
    OBVIOUS
<1>1. CASE RunChild
    BY <1>1, RunChildInv
<1>2. CASE Judge
    BY <1>2, JudgeInv
<1>3. CASE UNCHANGED vars
  <2>1. UNCHANGED <<spec, outcome, order, kinds, place, reason, ran>> /\ verdict' = verdict
      BY <1>3 DEF vars
  <2>2. TypeOK /\ OrderKept /\ KindsRule /\ FirstFailure /\ JudgedRight
      BY DEF Inv
  <2>3. /\ TypeOK' /\ OrderKept' /\ KindsRule' /\ FirstFailure'
        /\ ChildrenOf' = ChildrenOf /\ Aggregate(ran)' = Aggregate(ran) /\ StopsHere' = StopsHere
      BY <2>1, <2>2, StillInv
  <2>4. JudgedRight'
      BY <2>1, <2>2, <2>3 DEF JudgedRight, Judged, NoVerdict, Verdict
  <2> QED BY <2>3, <2>4 DEF Inv
<1> QED
    BY <1>1, <1>2, <1>3 DEF Next

LEMMA InvHolds == Spec => []Inv
<1> QED
    BY InitInv, NextInv, PTL DEF Spec

\* The types of the schedule's state hold: the order passes every child once, and what ran is what was passed.
THEOREM TypeCorrect == Spec => []TypeOK
<1>1. Inv => TypeOK
    BY DEF Inv
<1> QED
    BY <1>1, InvHolds, PTL

----------------------------------------------------------------------------
(* The verdict *)

\* A sum of finitely many numbers is a number.
LEMMA SumIsNat ==
    ASSUME NEW f, IsFiniteSet(DOMAIN f), \A x \in DOMAIN f : f[x] \in Nat
    PROVE  SumOver(f) \in Nat
<1> DEFINE Of(x) == {x} \X (1..f[x])
           g == [x \in DOMAIN f |-> Of(x)]
           Parts == {Of(x) : x \in DOMAIN f}
<1>1. \A x \in DOMAIN f : IsFiniteSet(Of(x))
  <2> TAKE x \in DOMAIN f
  <2>1. IsFiniteSet({x})
      BY FS_Singleton
  <2>2. f[x] \in Int
      OBVIOUS
  <2>3. IsFiniteSet(1..f[x])
      BY <2>2, FS_Interval
  <2> QED BY <2>1, <2>3, FS_Product
<1>2. g \in Surjection(DOMAIN f, Parts)
    BY DEF Surjection
<1>3. IsFiniteSet(Parts)
    BY <1>2, FS_Surjection
<1>4. \A P \in Parts : IsFiniteSet(P)
    BY <1>1
<1>5. IsFiniteSet(UNION Parts)
    BY <1>3, <1>4, FS_UNION
<1> QED
    BY <1>5, FS_CardinalityType DEF SumOver

\* The children are finitely many.
LEMMA ChildrenFinite ==
    ASSUME spec \in Specs
    PROVE  IsFiniteSet(Children) /\ IsFiniteSet(Range(CornerIds)) /\ Range(CornerIds) # {}
<1>1. IsFiniteSet(Children)
  <2>1. Len(ChildrenOf) \in Nat /\ ChildrenOf \in Surjection(1..Len(ChildrenOf), Children)
      BY ChildrenFacts DEF Bijection
  <2>2. IsFiniteSet(1..Len(ChildrenOf))
      BY <2>1, FS_Interval
  <2> QED BY <2>1, <2>2, FS_Surjection
<1>2. Len(CornerIds) \in Nat \ {0} /\ DOMAIN CornerIds = 1..Len(CornerIds)
    BY SpecFacts, EmptySeq, LenProperties
<1>3. IsFiniteSet(Range(CornerIds))
  <2> DEFINE c == CornerIds
  <2>1. c \in [1..Len(c) -> Range(c)]
      BY <1>2, SpecFacts, LenProperties DEF Range
  <2>2. c \in Surjection(1..Len(c), Range(c))
      BY <1>2, <2>1 DEF Surjection, Range
  <2>3. IsFiniteSet(1..Len(c))
      BY <1>2, FS_Interval
  <2> HIDE DEF c
  <2>4. IsFiniteSet(Range(c))
      BY <2>2, <2>3, FS_Surjection
  <2> QED BY <2>4 DEF c
<1>4. Range(CornerIds) # {}
  <2>1. 1 \in DOMAIN CornerIds
      BY <1>2
  <2> QED BY <2>1 DEF Range
<1> QED
    BY <1>1, <1>3, <1>4

\* The corners present are the run's; with a testbench there is one.
LEMMA PresentFacts ==
    ASSUME TypeOK, NEW set \in SUBSET Children
    PROVE  /\ Present(set) \subseteq Range(CornerIds)
           /\ Testbenches # <<>> => Present(set) # {}
           /\ Present(set) # {} => Scope(set) # {} /\ Scope(set) \subseteq Present(set)
<1>1. spec \in Specs
    BY OrderFacts
<1>2. Range(CornerIds) = IF Corners = <<>> THEN {"nominal"} ELSE Range(Corners)
    BY <1>1, SpecFacts
<1>3. Range(CornerIds) # {}
    BY <1>1, ChildrenFinite
<1>4. \A c \in set : c.corner = NoCorner \/ (Corners # <<>> /\ c.corner \in Range(Corners))
    BY OrderFacts
<1>5. Present(set) \subseteq Range(CornerIds)
    BY <1>2, <1>4 DEF Present
<1>6. Testbenches # <<>> => Present(set) # {}
    BY <1>2, <1>3 DEF Present
<1>7. Present(set) # {} => NominalOf(Present(set)) \in Present(set)
    BY <1>1, <1>5, FirstFacts
<1> QED
    BY <1>5, <1>6, <1>7 DEF Scope

\* A penalty is a number.
LEMMA PenaltyIsNat ==
    ASSUME TypeOK, NEW set \in SUBSET Children, NEW corner
    PROVE  Penalty(corner, set) \in Nat
<1> DEFINE V == ViolatesAt(corner, set)
           f == [c \in V |-> (outcome[c].value - Limit) * (outcome[c].value - Limit)]
<1>1. V \in SUBSET Children
    BY DEF ViolatesAt, At
<1>2. IsFiniteSet(V)
    BY <1>1, OrderFacts, ChildrenFinite, FS_Subset
<1>3. \A c \in V : f[c] \in Nat
  <2> TAKE c \in V
  <2>1. outcome[c] \in Result /\ outcome[c].status = "ok" /\ outcome[c].value > Limit
      BY <1>1 DEF TypeOK, ViolatesAt, Violates
  <2>2. outcome[c].value \in Nat
      BY <2>1, ScheduleAssumption DEF Result, Failed, Lost, Gave
  <2> DEFINE d == outcome[c].value - Limit
  <2>3. d \in Nat
      BY <2>1, <2>2, ScheduleAssumption
  <2> HIDE DEF d
  <2>4. d * d \in Nat
      BY <2>3
  <2> QED BY <2>4 DEF d
<1> HIDE DEF V
<1>4. DOMAIN f = V
    OBVIOUS
<1>5. SumOver(f) \in Nat
    BY <1>2, <1>3, <1>4, SumIsNat
<1> QED
    BY <1>5 DEF Penalty, V

\* The corner of the verdict is one whose violations fail the point.
LEMMA ViolatedFacts ==
    ASSUME TypeOK, NEW set \in SUBSET Children, Present(set) # {}, Violating(set) # {}
    PROVE  Violated(set) \in Violating(set)
<1> DEFINE V == Violating(set)
           W == {corner \in V : \A k \in V : Penalty(k, set) <= Penalty(corner, set)}
           f == [corner \in V |-> Penalty(corner, set)]
           P == {Penalty(corner, set) : corner \in V}
<1>1. spec \in Specs /\ V \in SUBSET Range(CornerIds)
    BY OrderFacts, PresentFacts DEF Violating
<1>2. IsFiniteSet(V)
    BY <1>1, ChildrenFinite, FS_Subset
<1>3. f \in Surjection(V, P)
    BY DEF Surjection
<1>4. IsFiniteSet(P)
    BY <1>2, <1>3, FS_Surjection
<1>5. P \in SUBSET Nat /\ P # {}
    BY PenaltyIsNat
<1>6. Max(P) \in P /\ \A x \in P : x <= Max(P)
    BY <1>4, <1>5, MaxOfNats
<1>7. W # {}
    BY <1>6
<1>8. First(W) \in W
    BY <1>1, <1>7, FirstFacts
<1> QED
    BY <1>8 DEF Violated

\* A result's status.
LEMMA StatusFacts ==
    ASSUME TypeOK, NEW c \in Children
    PROVE  outcome[c].status \in {"failed", "metric_failed", "ok"}
<1> QED
    BY DEF TypeOK, Result, Failed, Lost, Gave

\* Something in a set of children fails the point.
Failing(set) == Some(set, "failed") \/ Some(set, "metric_failed") \/ Violating(set) # {}

\* A child that shows the point cannot be feasible fails it in every set it is in, when a corner is present.
LEMMA FailsCounts ==
    ASSUME TypeOK, NEW set \in SUBSET Children, NEW c \in set, Fails(c), Present(set) # {}
    PROVE  /\ Failing(set)
           /\ outcome[c].status = "ok" =>
                 /\ Violates(c)
                 /\ c.corner # NoCorner => c.corner \in Violating(set)
                 /\ c.corner # NoCorner /\ spec.constraints = "nominal" => NominalOf(Present(set)) = Nominal
<1>1. c \in Children /\ spec \in Specs
    BY OrderFacts
<1>2. CASE outcome[c].status # "ok"
    BY <1>1, <1>2, StatusFacts DEF Failing, Some
<1>3. CASE outcome[c].status = "ok"
  <2>1. InScope(c) /\ Violates(c)
      BY <1>3 DEF Fails
  <2>2. CASE c.corner = NoCorner
    <3>1. PICK d \in Scope(set) : TRUE
        BY PresentFacts
    <3>2. c \in ViolatesAt(d, set)
        BY <2>1, <2>2 DEF ViolatesAt, At
    <3> QED BY <3>1, <3>2, <2>1, <2>2 DEF Failing, Violating
  <2>3. CASE c.corner # NoCorner
    <3>1. Corners # <<>> /\ c.corner \in Range(Corners)
        BY <1>1, <2>3, OrderFacts
    <3>2. c.corner \in Present(set)
        BY <2>3, <3>1 DEF Present
    <3>3. c \in ViolatesAt(c.corner, set)
        BY <2>1 DEF ViolatesAt, At
    <3>4. spec.constraints = "nominal" => c.corner = Nominal /\ NominalOf(Present(set)) = Nominal
      <4> SUFFICES ASSUME spec.constraints = "nominal"
                   PROVE  c.corner = Nominal /\ NominalOf(Present(set)) = Nominal
          OBVIOUS
      <4>1. c.corner = Nominal
          BY <2>1, <2>3 DEF InScope
      <4>2. Nominal = NominalOf(Range(Corners)) /\ CornerIds = Corners
          BY <3>1 DEF Nominal, CornerIds
      <4>3. Present(set) \subseteq Range(Corners)
          BY <1>1, <3>1, PresentFacts, SpecFacts
      <4>4. CASE "nominal" \in Range(Corners)
          BY <3>2, <4>1, <4>2, <4>4 DEF NominalOf
      <4>5. CASE "nominal" \notin Range(Corners)
        <5>1. Nominal = First(Range(Corners)) /\ NominalOf(Present(set)) = First(Present(set))
            BY <4>2, <4>3, <4>5 DEF NominalOf
        <5> DEFINE n == Min({i \in DOMAIN CornerIds : CornerIds[i] \in Range(Corners)})
                   m == Min({i \in DOMAIN CornerIds : CornerIds[i] \in Present(set)})
        <5>2. CornerIds \in Seq(Range(Corners) \cup {"nominal"})
            BY <1>1, SpecFacts
        <5>3. \E i \in DOMAIN CornerIds : CornerIds[i] \in Present(set)
            BY <3>1, <3>2, <4>2 DEF Range
        <5>4. /\ m \in DOMAIN CornerIds /\ CornerIds[m] \in Present(set)
              /\ \A i \in DOMAIN CornerIds : CornerIds[i] \in Present(set) => m <= i
            BY <5>2, <5>3, FirstPlace
        <5>5. /\ n \in DOMAIN CornerIds
              /\ \A i \in DOMAIN CornerIds : CornerIds[i] \in Range(Corners) => n <= i
          <6>1. \E i \in DOMAIN CornerIds : CornerIds[i] \in Range(Corners)
              BY <5>3, <4>3
          <6> QED BY <5>2, <6>1, FirstPlace
        <5> HIDE DEF n, m
        <5>6. CornerIds[n] = c.corner /\ CornerIds[n] \in Present(set)
            BY <3>2, <4>1, <5>1 DEF First, n
        <5>7. n <= m /\ m <= n
            BY <5>4, <5>5, <5>6, <4>3
        <5>8. DOMAIN CornerIds \subseteq Nat
            BY <5>2, LenProperties
        <5>9. n = m
            BY <5>4, <5>5, <5>7, <5>8
        <5> QED BY <4>1, <5>1, <5>6, <5>9 DEF First, n, m
      <4> QED BY <4>1, <4>4, <4>5
    <3>5. c.corner \in Scope(set)
        BY <3>2, <3>4 DEF Scope
    <3> QED BY <2>1, <2>3, <3>3, <3>4, <3>5 DEF Failing, Violating
  <2> QED BY <2>2, <2>3
<1> QED
    BY <1>2, <1>3

FailStatus == {"failed", "metric_failed", "constraint_failed"}

\* What fails a point is its verdict's status, stopped or not.
LEMMA FailingVerdict ==
    ASSUME NEW set, Failing(set)
    PROVE  /\ Incomplete(set).status \in FailStatus
           /\ set = Children /\ Present(set) # {} => Complete.status \in FailStatus
<1> QED
    BY DEF Failing, Incomplete, Complete, Verdict, FailStatus

\* A stopped point: not every child was passed, and the reason is one that was.
LEMMA StoppedFacts ==
    ASSUME Inv, Stopped
    PROVE  /\ ran \in SUBSET Children /\ place < Len(ChildrenOf) /\ StopsHere
           /\ verdict = Incomplete(ran) /\ Testbenches # <<>>
           /\ reason \in ran /\ reason # NoChild /\ Fails(reason) /\ reason.kind \in kinds
           /\ Present(ran) # {} /\ Present(Children) # {}
<1>1. TypeOK /\ OrderKept /\ KindsRule /\ FirstFailure /\ JudgedRight
    BY DEF Inv
<1>2. /\ Len(ChildrenOf) \in Nat /\ Len(order) = Len(ChildrenOf) /\ place \in 0..Len(ChildrenOf)
      /\ \A i \in 1..Len(ChildrenOf) : order[i] \in Children
      /\ \A c \in Children : \E i \in 1..Len(ChildrenOf) : order[i] = c
      /\ ran = {order[i] : i \in 1..place}
    BY <1>1, OrderFacts DEF TypeOK
<1>3. ran \in SUBSET Children
    BY <1>2
<1>4. place # Len(ChildrenOf)
  <2> SUFFICES ASSUME place = Len(ChildrenOf) PROVE FALSE
      OBVIOUS
  <2>1. ran = Children
      BY <1>2
  <2> QED BY <2>1 DEF Stopped
<1>5. StopsHere /\ verdict = Incomplete(ran)
    BY <1>1, <1>4 DEF JudgedRight, Stopped, Aggregate
<1>6. reason # NoChild
    BY <1>5 DEF StopsHere
<1>7. reason \in ran /\ Fails(reason) /\ reason.kind \in kinds
    BY <1>1, <1>2, <1>6 DEF FirstFailure, Stops
<1>8. Testbenches # <<>>
  <2>1. reason \in Children
      BY <1>3, <1>7
  <2>2. reason.kind = "device" \/ (reason.kind = "testbench" /\ Testbenches # <<>>)
      BY <1>1, <2>1, OrderFacts
  <2> QED BY <1>1, <1>7, <2>2 DEF KindsRule
<1>9. Present(ran) # {} /\ Present(Children) # {}
  <2>1. Children \in SUBSET Children
      OBVIOUS
  <2> QED BY <1>1, <1>3, <1>8, <2>1, PresentFacts
<1>10. place < Len(ChildrenOf)
    BY <1>2, <1>4
<1> QED
    BY <1>3, <1>5, <1>6, <1>7, <1>8, <1>9, <1>10

\* A stop is sound.
LEMMA SoundStop == Inv => StopIsSound
<1> SUFFICES ASSUME Inv, Stopped
             PROVE  {verdict.status, Complete.status} \subseteq FailStatus
    BY DEF StopIsSound, FailStatus
<1>1. TypeOK
    BY DEF Inv
<1>2. Failing(ran)
    BY <1>1, StoppedFacts, FailsCounts
<1>3. Failing(Children)
  <2>1. Children \in SUBSET Children /\ reason \in Children
      BY StoppedFacts
  <2> QED BY <1>1, <2>1, StoppedFacts, FailsCounts
<1>4. verdict.status \in FailStatus
    BY <1>2, StoppedFacts, FailingVerdict
<1>5. Complete.status \in FailStatus
    BY <1>3, StoppedFacts, FailingVerdict
<1> QED
    BY <1>4, <1>5

\* The corner policies that can be judged: constraints at the nominal corner and the objective at the worst one only of a
\* run at one corner; and a run of devices alone only with a corner named nominal, or none.
PoliciesAgree ==
    \A s \in Specs :
       /\ s.constraints = "nominal" /\ s.objective = "worst_case" => Len(s.corners) <= 1
       /\ s.testbenches = <<>> /\ s.corners # <<>> => "nominal" \in Range(s.corners)

\* A point whose children all ran has a verdict.
LEMMA CompleteJudged ==
    ASSUME TypeOK, PoliciesAgree
    PROVE  Complete.status \notin {"ValueError", "TypeError", "IndexError"}
<1>1. spec \in Specs /\ Children \in SUBSET Children
    BY OrderFacts
<1>2. Present(Children) # {}
  <2>1. CASE Testbenches # <<>>
      BY <1>1, <2>1, PresentFacts
  <2>2. CASE Testbenches = <<>>
    <3>1. Corners # <<>> => "nominal" \in Range(Corners)
        BY <1>1, <2>2 DEF PoliciesAgree, Testbenches, Corners
    <3> QED BY <3>1, <2>2 DEF Present
  <2> QED BY <2>1, <2>2
<1>3. CASE Failing(Children)
    BY <1>2, <1>3, FailingVerdict DEF FailStatus
<1>4. CASE ~Failing(Children)
  <2>1. Complete = WorstObjective /\ Violating(Children) = {}
      BY <1>2, <1>4 DEF Complete, Failing
  <2> DEFINE all == Present(Children)
             corners == IF spec.objective = "nominal" THEN {NominalOf(all)} ELSE all
  <2>2. ~(spec.objective # "none" /\ \E c, d \in corners : c # d /\ ~HasObjective(c))
    <3> SUFFICES ASSUME spec.objective # "none", NEW c \in corners, NEW d \in corners, c # d, ~HasObjective(c)
                 PROVE  FALSE
        OBVIOUS
    <3>1. spec.objective = "worst_case" /\ c \in all /\ d \in all
      <4>1. spec.objective \in {"worst_case", "nominal", "none"}
          BY <1>1, ScheduleAssumption DEF SpecFields
      <4> QED BY <4>1
    <3>2. ViolatesAt(c, Children) # {}
        BY DEF HasObjective
    <3>3. c \notin Scope(Children)
        BY <2>1, <3>2 DEF Violating
    <3>4. spec.constraints = "nominal"
        BY <3>1, <3>3 DEF Scope
    <3>5. Len(Corners) <= 1
        BY <1>1, <3>1, <3>4 DEF PoliciesAgree, Corners
    <3>6. \A i, k \in DOMAIN CornerIds : i = k
      <4>1. Len(Corners) \in Nat /\ DOMAIN Corners = 1..Len(Corners)
          BY <1>1, SpecFacts, LenProperties
      <4>2. DOMAIN <<"nominal">> = {1}
          OBVIOUS
      <4> QED BY <3>5, <4>1, <4>2 DEF CornerIds
    <3>7. all \subseteq Range(CornerIds)
        BY <1>1, PresentFacts
    <3> QED BY <3>1, <3>6, <3>7 DEF Range
  <2>3. WorstObjective.status = "ok"
      BY <2>2 DEF WorstObjective, Verdict
  <2> QED BY <2>1, <2>3
<1> QED
    BY <1>3, <1>4

LEMMA JudgedPoint == PoliciesAgree /\ Inv => EveryPointJudged
<1> SUFFICES ASSUME PoliciesAgree, Inv, Judged
             PROVE  verdict.status \notin {"ValueError", "TypeError", "IndexError"}
    BY DEF EveryPointJudged
<1>1. CASE Stopped
    BY <1>1, SoundStop DEF StopIsSound
<1>2. CASE ~Stopped
  <2>1. verdict = Complete /\ TypeOK
      BY <1>2 DEF Stopped, Inv, JudgedRight, Aggregate
  <2> QED BY <2>1, CompleteJudged
<1> QED
    BY <1>1, <1>2

\* No simulation of a judged point came after one that failed it, or after a device that did; every device was measured.
LEMMA NothingAfter == Inv => NothingAfterFailure
<1> SUFFICES ASSUME Inv, Judged
             PROVE  /\ \A c \in Children : c.kind = "device" => c \in ran
                    /\ \A i, k \in 1..place :
                          i < k /\ order[i].kind \in kinds /\ Fails(order[i]) => order[k].kind = "device"
    BY DEF NothingAfterFailure
<1>1. TypeOK /\ OrderKept /\ KindsRule /\ FirstFailure /\ JudgedRight
    BY DEF Inv
<1>2. /\ Len(ChildrenOf) \in Nat /\ place \in 0..Len(ChildrenOf) /\ DOMAIN order = 1..Len(ChildrenOf)
      /\ \A c \in Children : \E i \in 1..Len(ChildrenOf) : order[i] = c
      /\ ran = {order[i] : i \in 1..place}
    BY <1>1, OrderFacts DEF TypeOK
<1> DEFINE n == Len(ChildrenOf)
<1> HIDE DEF n
<1>3. place \in Nat /\ n \in Nat /\ place <= n
    BY <1>2 DEF n
<1>4. ASSUME NEW c \in Children, c.kind = "device" PROVE c \in ran
  <2>1. PICK i \in 1..n : order[i] = c
      BY <1>2 DEF n
  <2>2. CASE i <= place
    <3>1. i \in 1..place
        BY <2>2, <1>3
    <3> QED BY <2>1, <3>1, <1>2
  <2>3. CASE i > place
    <3>1. StopsHere /\ place < n
        BY <1>1, <1>3, <2>3 DEF JudgedRight, n
    <3>2. reason # NoChild /\ (reason.kind # "device" \/ order[place + 1].kind # "device")
        BY <3>1 DEF StopsHere
    <3>3. PICK r \in 1..place : reason = order[r] /\ Stops(r)
        BY <1>1, <3>2 DEF FirstFailure
    <3>4. DevicesFirst(order)
        BY <1>1, <3>3 DEF OrderKept, Stops
    <3>5. i \in DOMAIN order /\ r \in DOMAIN order /\ place + 1 \in DOMAIN order /\ r < i /\ (place + 1 < i \/ place + 1 = i)
        BY <1>2, <1>3, <2>3 DEF n
    <3>6. order[r].kind = "device" /\ order[place + 1].kind = "device"
        BY <2>1, <1>4, <3>4, <3>5 DEF DevicesFirst
    <3> QED BY <3>2, <3>3, <3>6
  <2> QED BY <2>2, <2>3, <1>3
<1>5. ASSUME NEW i \in 1..place, NEW k \in 1..place, i < k, order[i].kind \in kinds, Fails(order[i])
      PROVE  order[k].kind = "device"
  <2>1. Stops(i) /\ i < n
      BY <1>3, <1>5 DEF Stops
  <2>2. reason # NoChild
      BY <1>1, <2>1 DEF FirstFailure, n
  <2>3. PICK r \in 1..place : /\ \A j \in 1..(r - 1) : ~Stops(j)
                              /\ \A j \in (r + 1)..place : order[j].kind = "device"
      BY <1>1, <2>2 DEF FirstFailure
  <2>4. ~(i < r)
      BY <2>1, <2>3, <1>3
  <2>5. k \in (r + 1)..place
      BY <2>4, <1>3, <1>5
  <2> QED BY <2>3, <2>5
<1> QED
    BY <1>4, <1>5

\* The first of a set of children is one of them.
LEMMA FirstChildFacts ==
    ASSUME spec \in Specs, NEW S \in SUBSET Children, S # {}
    PROVE  FirstChild(S) \in S
<1>1. ChildrenOf \in Seq(Children)
    BY ChildrenFacts
<1>2. \E i \in DOMAIN ChildrenOf : ChildrenOf[i] \in S
    BY DEF Children, Range
<1> QED
    BY <1>1, <1>2, FirstPlace DEF FirstChild

\* Where something fails a stopped point the child its record names is among the children of one sort that did.
LEMMA StopperFacts ==
    ASSUME TypeOK, NEW set \in SUBSET Children, Failing(set), Present(set) # {}
    PROVE  \E S \in SUBSET set :
              /\ S # {} /\ Stopper(set) = FirstChild(S) /\ Stopper(set) \in S
              /\ \/ S = {c \in set : outcome[c].status = "failed"}
                 \/ S = {c \in set : outcome[c].status = "metric_failed"}
                 \/ /\ \A c \in set : outcome[c].status = "ok"
                    /\ S = ViolatesAt(Violated(set), set) /\ Violated(set) \in Violating(set)
<1>1. spec \in Specs
    BY OrderFacts
<1> DEFINE With(status) == {c \in set : outcome[c].status = status}
<1>2. CASE Some(set, "failed")
  <2>1. With("failed") # {} /\ Stopper(set) = FirstChild(With("failed"))
      BY <1>2 DEF Some, Stopper
  <2>2. FirstChild(With("failed")) \in With("failed")
      BY <1>1, <2>1, FirstChildFacts
  <2> QED BY <2>1, <2>2
<1>3. CASE ~Some(set, "failed") /\ Some(set, "metric_failed")
  <2>1. With("metric_failed") # {} /\ Stopper(set) = FirstChild(With("metric_failed"))
      BY <1>3 DEF Some, Stopper
  <2>2. FirstChild(With("metric_failed")) \in With("metric_failed")
      BY <1>1, <2>1, FirstChildFacts
  <2> QED BY <2>1, <2>2
<1>4. CASE ~Some(set, "failed") /\ ~Some(set, "metric_failed")
  <2> DEFINE V == ViolatesAt(Violated(set), set)
  <2>1. Violating(set) # {}
      BY <1>4 DEF Failing
  <2>2. Violated(set) \in Violating(set)
      BY <2>1, ViolatedFacts
  <2>3. V # {} /\ V \in SUBSET set
      BY <2>2 DEF Violating, ViolatesAt, At
  <2>4. Stopper(set) = FirstChild(V)
      BY <1>4, <2>1 DEF Stopper
  <2>5. FirstChild(V) \in V
      BY <1>1, <2>3, FirstChildFacts
  <2>6. \A c \in set : outcome[c].status = "ok"
      BY <1>4, StatusFacts DEF Some
  <2> QED BY <2>2, <2>3, <2>4, <2>5, <2>6
<1> QED
    BY <1>2, <1>3, <1>4

\* The child the record names is the one that stopped the point, a device for a device.
LEMMA NamedRight == Inv => StopperNamed
<1> SUFFICES ASSUME Inv, Stopped
             PROVE  /\ Stopper(ran).kind = reason.kind
                    /\ reason.kind = "testbench" => Stopper(ran) = reason
    BY DEF StopperNamed
<1>1. TypeOK /\ OrderKept /\ KindsRule /\ FirstFailure
    BY DEF Inv
<1> DEFINE n == Len(ChildrenOf)
<1> HIDE DEF n
<1>2. /\ n \in Nat /\ place \in Nat /\ place < n /\ DOMAIN order = 1..n
      /\ ran = {order[i] : i \in 1..place} /\ ran \in SUBSET Children
    BY <1>1, StoppedFacts, OrderFacts DEF TypeOK, n
<1>3. /\ StopsHere /\ Present(ran) # {} /\ Testbenches # <<>> /\ Fails(reason) /\ reason \in ran
      /\ reason.kind \in kinds /\ reason # NoChild
    BY StoppedFacts
<1>4. PICK r \in 1..place : /\ reason = order[r] /\ \A i \in 1..(r - 1) : ~Stops(i)
                            /\ \A k \in (r + 1)..place : order[k].kind = "device"
    BY <1>1, <1>3 DEF FirstFailure
<1>5. DevicesFirst(order)
    BY <1>1, <1>3 DEF OrderKept
<1>6. Failing(ran)
    BY <1>1, <1>2, <1>3, FailsCounts
<1>7. PICK S \in SUBSET ran :
              /\ S # {} /\ Stopper(ran) = FirstChild(S) /\ Stopper(ran) \in S
              /\ \/ S = {c \in ran : outcome[c].status = "failed"}
                 \/ S = {c \in ran : outcome[c].status = "metric_failed"}
                 \/ /\ \A c \in ran : outcome[c].status = "ok"
                    /\ S = ViolatesAt(Violated(ran), ran) /\ Violated(ran) \in Violating(ran)
    BY <1>1, <1>2, <1>3, <1>6, StopperFacts
<1>8. \A c \in Children : c.kind \in {"device", "testbench"} /\ (c.kind = "device" => Devices # <<>> /\ c.corner = NoCorner)
    BY <1>1, OrderFacts
<1>9. CASE reason.kind = "device"
  <2>1. \A i \in 1..place : order[i].kind = "device"
    <3> TAKE i \in 1..place
    <3>1. i < r \/ i = r \/ i \in (r + 1)..place
        BY <1>2
    <3>2. i \in DOMAIN order /\ r \in DOMAIN order
        BY <1>2
    <3> QED BY <3>1, <3>2, <1>4, <1>5, <1>9 DEF DevicesFirst
  <2>2. \A c \in ran : c.kind = "device"
      BY <2>1, <1>2
  <2> QED BY <2>2, <1>7, <1>9
<1>10. CASE reason.kind = "testbench"
  <2>1. r = place
    <3> SUFFICES ASSUME r < place PROVE FALSE
        BY <1>2
    <3>1. place \in (r + 1)..place /\ place \in DOMAIN order /\ r \in DOMAIN order
        BY <1>2
    <3>2. order[place].kind = "device"
        BY <3>1, <1>4
    <3>3. order[r].kind = "device"
        BY <3>1, <3>2, <1>5 DEF DevicesFirst
    <3> QED BY <3>3, <1>4, <1>10
  <2>2. \A c \in ran : c # reason => ~Fails(c)
    <3> TAKE c \in ran
    <3> HAVE c # reason
    <3>1. PICK i \in 1..place : order[i] = c
        BY <1>2
    <3>2. i \in 1..(r - 1)
        BY <2>1, <3>1, <1>2, <1>4
    <3>3. c.kind \in kinds
        BY <1>1, <1>2, <1>3, <1>8, <1>10 DEF KindsRule
    <3> QED BY <3>1, <3>2, <3>3, <1>4 DEF Stops
  <2>3. \A c \in S : c = reason
    <3> SUFFICES ASSUME NEW c \in S, c # reason PROVE FALSE
        OBVIOUS
    <3>1. ~Fails(c)
        BY <2>2
    <3>2. outcome[c].status = "ok" /\ ~(InScope(c) /\ Violates(c))
        BY <3>1 DEF Fails
    <3>3. /\ \A d \in ran : outcome[d].status = "ok"
          /\ S = ViolatesAt(Violated(ran), ran) /\ Violated(ran) \in Violating(ran)
        BY <3>2, <1>7
    <3>4. Violates(c) /\ c.corner \in {NoCorner, Violated(ran)} /\ ~InScope(c)
        BY <3>2, <3>3 DEF ViolatesAt, At
    <3>5. spec.constraints = "nominal" /\ c.corner \notin {NoCorner, Nominal}
        BY <3>4 DEF InScope
    <3>6. c.corner = NominalOf(Present(ran))
        BY <3>3, <3>4, <3>5 DEF Violating, Scope
    <3>7. outcome[reason].status = "ok"
        BY <3>3, <1>3
    <3>8. CASE reason.corner # NoCorner
      <4>1. NominalOf(Present(ran)) = Nominal
          BY <3>5, <3>7, <3>8, <1>1, <1>2, <1>3, FailsCounts
      <4> QED BY <4>1, <3>5, <3>6
    <3>9. CASE reason.corner = NoCorner
      <4>1. reason \in Children /\ c \in Children
          BY <1>2, <1>3
      <4>2. Corners = <<>>
        <5>1. spec \in Specs
            BY <1>1, OrderFacts
        <5>2. NoCorner \notin Range(Corners)
            BY <5>1, SpecFacts
        <5> QED BY <4>1, <3>9, <5>2, <1>1, <1>10, OrderFacts
      <4>3. c.corner = NoCorner
          BY <4>1, <4>2, <1>1, OrderFacts
      <4> QED BY <4>3, <3>5
    <3> QED BY <3>8, <3>9
  <2> QED BY <2>3, <1>7, <1>10
<1> QED
    BY <1>2, <1>3, <1>8, <1>9, <1>10

----------------------------------------------------------------------------
(* Theorems *)

\* A point the schedule stopped fails, and would have failed had its other children run (schedule.py, failure).
THEOREM StopIsSoundCorrect == Spec => []StopIsSound
<1> QED
    BY SoundStop, InvHolds, PTL

\* Where the corner policies agree, every point whose children ran has a verdict (corner.py, aggregate).
THEOREM EveryPointJudgedCorrect == PoliciesAgree => (Spec => []EveryPointJudged)
<1> SUFFICES ASSUME PoliciesAgree PROVE Spec => []EveryPointJudged
    OBVIOUS
<1>1. Inv => EveryPointJudged
    BY JudgedPoint
<1> QED
    BY <1>1, InvHolds, PTL

\* No simulation runs after one that fails the point, none after a device that does, and every device is measured.
THEOREM NothingAfterFailureCorrect == Spec => []NothingAfterFailure
<1> QED
    BY NothingAfter, InvHolds, PTL

\* The child a stopped point's record names is the one that stopped it -- for a device, one of the devices (corner.py, stopper).
THEOREM StopperNamedCorrect == Spec => []StopperNamed
<1> QED
    BY NamedRight, InvHolds, PTL
=============================================================================
