-------------------------- MODULE Compiler_proofs --------------------------
(***************************************************************************)
(* Theorems about the generator, for every set of specs and spec files,    *)
(* any edits of specs and generated files and any deaths of a generate.    *)
(***************************************************************************)
EXTENDS Compiler, FiniteSetTheorems, SequenceTheorems, TLAPS

\* One step of the generator or of whoever edits its files, or a step beside it, which may
\* still be the death of another process.
Step == CompilerNext \/ UNCHANGED <<specs, tree, todo, settled>>

CompilerTypeOK ==
    /\ specs \in [File -> Version \cup {NoFile}]
    /\ tree = [p \in Path |-> tree[p]]
    /\ settled \in BOOLEAN

LEMMA InitTypes == CompilerInit => CompilerTypeOK
BY CompilerAssumption DEF CompilerInit, CompilerTypeOK

LEMMA StepTypes == ASSUME CompilerTypeOK, Step PROVE CompilerTypeOK'
<1>1. ASSUME NEW w \in Written, EditSpec(w[1], w[2])
      PROVE  CompilerTypeOK'
  <2>1. w[1] \in File /\ w[2] \in Version \cup {NoFile}
    BY CompilerAssumption
  <2> QED BY <1>1, <2>1 DEF EditSpec, CompilerTypeOK
<1>2. ASSUME NEW p \in Touched, TouchFile(p, Edited) \/ TouchFile(p, NoFile)
      PROVE  CompilerTypeOK'
  BY <1>2 DEF TouchFile, CompilerTypeOK
<1>3. CASE StartGenerate
  BY <1>3 DEF StartGenerate, CompilerTypeOK
<1>4. CASE WriteFile
  BY <1>4 DEF WriteFile, CompilerTypeOK
<1>5. CASE GenerateDies
  BY <1>5 DEF GenerateDies, CompilerTypeOK
<1>6. CASE UNCHANGED <<specs, tree, todo, settled>>
  BY <1>6 DEF CompilerTypeOK
<1> QED BY <1>1, <1>2, <1>3, <1>4, <1>5, <1>6 DEF Step, CompilerNext

LEMMA StepOfCompiler == [CompilerNext]_compilerVars => Step
BY DEF Step, compilerVars

LEMMA LoadedSpec ==
    ASSUME CompilerTypeOK, NEW f \in Loaded
    PROVE  f \in File /\ specs[f] \in Version /\ specs[f] # NoFile
BY DEF CompilerTypeOK, Loaded

-----------------------------------------------------------------------------
(***************************************************************************)
(* What validation lets pass.                                              *)
(***************************************************************************)

\* A stored column aggregates a column of the source that does not move with the as-of date.
LEMMA StoredIsTimeInvariant ==
    ASSUME NEW s, Accepted(s), NEW c \in Stored(s)
    PROVE  c.alias \in DOMAIN s.columns /\ ~s.columns[c.alias].dated
<1>1. PICK x \in Features(s) : c \in StoredFor(s, x)
  BY DEF Stored
<1>2. x.field \in Fields(s)
  BY <1>1 DEF Features
<1>3. ColumnOK(s, x.field)
  BY <1>2 DEF Accepted
<1>4. CASE IsDerived(s, x.field)
  <2>1. c.alias = DerivedFrom(s, x.field)
    BY <1>1, <1>4 DEF StoredFor, Column
  <2> QED BY <1>3, <1>4, <2>1 DEF ColumnOK
<1>5. CASE ~IsDerived(s, x.field)
  <2>1. c.alias = x.field.name
    BY <1>1, <1>5 DEF StoredFor, Column
  <2> QED BY <1>3, <1>5, <2>1 DEF ColumnOK
<1> QED BY <1>4, <1>5

\* So does the timestamp.
LEMMA AggregatedIsTimeInvariant ==
    ASSUME NEW s, Accepted(s), NEW alias \in AggregatedColumns(s)
    PROVE  alias \in DOMAIN s.columns /\ ~s.columns[alias].dated
<1>1. s.timestamp \in DOMAIN s.columns /\ ~s.columns[s.timestamp].dated
  BY DEF Accepted, TimestampOK
<1> QED BY <1>1, StoredIsTimeInvariant DEF AggregatedColumns

LEMMA AcceptedIsStaged == ASSUME CompilerTypeOK PROVE AggregatesAreStaged
<1> SUFFICES ASSUME NEW f \in Loaded, CompilesOf[specs[f]]
             PROVE  LET s == SpecOf[specs[f]]
                        Rebuilt(alias) ==
                            \E g \in Fields(s) :
                                IsDerived(s, g) /\ g.name = alias /\ ~s.columns[alias].dated
                    IN \A alias \in AggregatedColumns(s) : alias \in Projection(s) \/ Rebuilt(alias)
  BY DEF AggregatesAreStaged
<1> DEFINE s == SpecOf[specs[f]]
<1>1. Accepted(s)
  BY LoadedSpec DEF CompilesOf, Compiles
<1> HIDE DEF s
<1>2. ASSUME NEW alias \in AggregatedColumns(s)
      PROVE  \/ alias \in Projection(s)
             \/ \E g \in Fields(s) :
                    IsDerived(s, g) /\ g.name = alias /\ ~s.columns[alias].dated
  BY <1>1, <1>2, AggregatedIsTimeInvariant DEF Projection
<1> QED BY <1>2 DEF s

\* What validation does not ask of a spec: that entities and the columns in conditions stay as
\* they are, and that nothing the partial layer uses is the name of a field rebuilt later.
StaysPut(s) ==
    /\ \A alias \in s.entities \cup ConditionColumns(s) :
          alias \in DOMAIN s.columns /\ ~s.columns[alias].dated
    /\ \A g \in Fields(s) : IsDerived(s, g) => g.name \notin ColumnsUsed(s)

\* Of a spec that is accepted and keeps to this as well, the view has all that is used.
LEMMA AllColumnsAreThere ==
    ASSUME NEW s, Accepted(s), StaysPut(s)
    PROVE  ColumnsUsed(s) \subseteq Projection(s)
<1> SUFFICES ASSUME NEW alias \in ColumnsUsed(s) PROVE alias \in Projection(s)
  OBVIOUS
<1>1. alias \in DOMAIN s.columns /\ ~s.columns[alias].dated
  BY AggregatedIsTimeInvariant DEF ColumnsUsed, StaysPut
<1>2. \A g \in Fields(s) : IsDerived(s, g) => g.name # alias
  BY DEF StaysPut
<1> QED BY <1>1, <1>2 DEF Projection

-----------------------------------------------------------------------------
(***************************************************************************)
(* Flattening and sorting.                                                 *)
(***************************************************************************)

LEMMA LeastNat ==
    ASSUME NEW S, S \subseteq Nat, S # {}
    PROVE  \E n \in S : \A m \in S : n <= m
<1> DEFINE R == {ss \in Nat \X Nat : ss[1] < ss[2]}
<1>1. IsWellFoundedOn(R, Nat)
  BY NatLessThanWellFounded DEF OpToRel
<1>2. PICK n \in S : \A m \in S : ~(<<m, n>> \in R)
  BY <1>1, WFMin
<1>3. \A m \in S : ~(m < n)
  BY <1>2
<1> QED BY <1>3

\* Flattening is appending, from the first to the last.
Appended(ss, n, f) == \A i \in 1 .. n : f[i] = IF i = 1 THEN ss[i] ELSE f[i - 1] \o ss[i]

LEMMA FlattenIsAppend ==
    ASSUME NEW X, NEW n \in Nat \ {0}, NEW ss \in [1 .. n -> Seq(X)]
    PROVE  \E f : Appended(ss, n, f) /\ FlattenSeq(ss) = f[n]
<1> DEFINE Eq(f) == f = [i \in 1 .. n |-> IF i = 1 THEN ss[i] ELSE f[i - 1] \o ss[i]]
           Found(k) == \E f \in [1 .. k -> Seq(X)] : Appended(ss, k, f)
<1>1. Len(ss) = n
  OBVIOUS
<1>2. FlattenSeq(ss) = (CHOOSE f : Eq(f))[n]
  BY <1>1 DEF FlattenSeq
<1>3. Found(n)
  <2> DEFINE bad == {k \in 1 .. n : ~Found(k)}
  <2> SUFFICES ASSUME bad # {} PROVE FALSE
    BY DEF bad
  <2>1. PICK k \in bad : \A m \in bad : k <= m
    <3> HIDE DEF Found
    <3>1. bad \subseteq Nat
      OBVIOUS
    <3> HIDE DEF bad
    <3> QED BY <3>1, LeastNat
  <2>2. CASE k = 1
    <3>1. [i \in 1 .. 1 |-> ss[1]] \in [1 .. 1 -> Seq(X)] /\ Appended(ss, 1, [i \in 1 .. 1 |-> ss[1]])
      BY DEF Appended
    <3> QED BY <2>1, <2>2, <3>1
  <2>3. CASE k # 1
    <3>1. k \in 1 .. n /\ k - 1 \in 1 .. n /\ Found(k - 1)
      <4> HIDE DEF Found
      <4> QED BY <2>1, <2>3
    <3>2. PICK f \in [1 .. (k - 1) -> Seq(X)] : Appended(ss, k - 1, f)
      BY <3>1
    <3> DEFINE g == [i \in 1 .. k |-> IF i = k THEN f[k - 1] \o ss[k] ELSE f[i]]
    <3>3. f[k - 1] \in Seq(X) /\ ss[k] \in Seq(X) /\ f[k - 1] \o ss[k] \in Seq(X)
      BY <3>1, <2>1
    <3>4. g \in [1 .. k -> Seq(X)]
      BY <3>1, <3>2, <3>3
    <3>5. ASSUME NEW i \in 1 .. k
          PROVE  g[i] = IF i = 1 THEN ss[i] ELSE g[i - 1] \o ss[i]
      <4>1. CASE i = k
        <5>1. g[i] = f[k - 1] \o ss[k] /\ g[i - 1] = f[k - 1]
          BY <2>3, <3>1, <4>1
        <5> QED BY <2>3, <4>1, <5>1
      <4>2. CASE i # k
        <5>1. i \in 1 .. (k - 1)
          BY <3>1, <4>2
        <5>2. g[i] = f[i] /\ (i # 1 => g[i - 1] = f[i - 1])
          BY <3>1, <5>1
        <5> QED BY <3>2, <5>1, <5>2 DEF Appended
      <4> QED BY <4>1, <4>2
    <3> QED BY <2>1, <3>4, <3>5 DEF Appended
  <2> QED BY <2>2, <2>3
<1>4. PICK f \in [1 .. n -> Seq(X)] : Appended(ss, n, f)
  BY <1>3
<1>5. Eq(f)
  BY <1>4 DEF Appended
<1>6. Eq(CHOOSE g : Eq(g))
  BY <1>5
<1>7. Appended(ss, n, CHOOSE g : Eq(g))
  BY <1>6 DEF Appended
<1> QED BY <1>2, <1>7

\* Where each element of a flattened sequence of sequences comes from: the rows in their order.
Rows(n, ss, flat, row) ==
    /\ row \in [1 .. Len(flat) -> 1 .. n]
    /\ \A m \in 1 .. Len(flat) : \E k \in 1 .. Len(ss[row[m]]) : flat[m] = ss[row[m]][k]
    /\ \A i \in 1 .. n : \A k \in 1 .. Len(ss[i]) :
           \E m \in 1 .. Len(flat) : row[m] = i /\ flat[m] = ss[i][k]
    /\ \A m, l \in 1 .. Len(flat) : m <= l => row[m] <= row[l]

LEMMA AppendRow ==
    ASSUME NEW X, NEW n \in Nat, NEW ss, NEW flat \in Seq(X), ss[n + 1] \in Seq(X),
           NEW row, Rows(n, ss, flat, row)
    PROVE  \E r : Rows(n + 1, ss, flat \o ss[n + 1], r)
<1> DEFINE F == Len(flat)
           last == ss[n + 1]
           L == Len(last)
           both == flat \o last
           r == [m \in 1 .. (F + L) |-> IF m <= F THEN row[m] ELSE n + 1]
<1>1. /\ F \in Nat /\ L \in Nat /\ both \in Seq(X) /\ Len(both) = F + L
      /\ \A m \in 1 .. (F + L) : both[m] = IF m <= F THEN flat[m] ELSE last[m - F]
  BY ConcatProperties
<1>2. /\ row \in [1 .. F -> 1 .. n]
      /\ \A m \in 1 .. F : \E k \in 1 .. Len(ss[row[m]]) : flat[m] = ss[row[m]][k]
      /\ \A i \in 1 .. n : \A k \in 1 .. Len(ss[i]) :
             \E m \in 1 .. F : row[m] = i /\ flat[m] = ss[i][k]
      /\ \A m, l \in 1 .. F : m <= l => row[m] <= row[l]
  BY DEF Rows
<1> HIDE DEF F, L, both, last
<1>3. r \in [1 .. (F + L) -> 1 .. (n + 1)]
  BY <1>1, <1>2
<1>4. ASSUME NEW m \in 1 .. (F + L)
      PROVE  \E k \in 1 .. Len(ss[r[m]]) : both[m] = ss[r[m]][k]
  <2>1. CASE m <= F
    <3>1. m \in 1 .. F /\ r[m] = row[m] /\ both[m] = flat[m]
      BY <1>1, <2>1
    <3> QED BY <1>2, <3>1
  <2>2. CASE ~(m <= F)
    <3>1. r[m] = n + 1 /\ both[m] = last[m - F] /\ m - F \in 1 .. L
      BY <1>1, <2>2
    <3> QED BY <3>1 DEF last, L
  <2> QED BY <2>1, <2>2
<1>5. ASSUME NEW i \in 1 .. (n + 1), NEW k \in 1 .. Len(ss[i])
      PROVE  \E m \in 1 .. (F + L) : r[m] = i /\ both[m] = ss[i][k]
  <2>1. CASE i = n + 1
    <3>1. k \in 1 .. L /\ k \in Nat /\ k > 0
      BY <1>1, <2>1 DEF last, L
    <3>2. F + k \in 1 .. (F + L) /\ ~(F + k <= F) /\ (F + k) - F = k
      BY <1>1, <3>1
    <3>3. r[F + k] = n + 1 /\ both[F + k] = last[k]
      BY <1>1, <3>2
    <3> QED BY <2>1, <3>2, <3>3 DEF last
  <2>2. CASE i # n + 1
    <3>1. i \in 1 .. n
      BY <2>2
    <3>2. PICK m \in 1 .. F : row[m] = i /\ flat[m] = ss[i][k]
      BY <1>2, <3>1
    <3>3. m \in 1 .. (F + L) /\ r[m] = row[m] /\ both[m] = flat[m]
      BY <1>1, <3>2
    <3> QED BY <3>2, <3>3
  <2> QED BY <2>1, <2>2
<1>6. ASSUME NEW m \in 1 .. (F + L), NEW l \in 1 .. (F + L), m <= l
      PROVE  r[m] <= r[l]
  <2>1. CASE l <= F
    BY <1>1, <1>2, <1>6, <2>1
  <2>2. CASE ~(l <= F)
    <3>1. r[l] = n + 1 /\ r[m] \in 1 .. (n + 1)
      BY <1>3, <2>2
    <3> QED BY <3>1
  <2> QED BY <2>1, <2>2
<1>7. Rows(n + 1, ss, both, r)
  BY <1>1, <1>3, <1>4, <1>5, <1>6 DEF Rows
<1> QED BY <1>7 DEF both, last

\* A flattened sequence of sequences has their elements, those of earlier sequences first.
LEMMA FlattenedRows ==
    ASSUME NEW X, NEW n \in Nat, NEW ss \in [1 .. n -> Seq(X)]
    PROVE  FlattenSeq(ss) \in Seq(X) /\ \E row : Rows(n, ss, FlattenSeq(ss), row)
<1>1. CASE n = 0
  <2>1. ss = << >> /\ FlattenSeq(ss) = << >>
    BY <1>1 DEF FlattenSeq
  <2>2. Rows(n, ss, << >>, << >>)
    BY <1>1 DEF Rows
  <2>3. << >> \in Seq(X) /\ \E row : Rows(n, ss, << >>, row)
    BY <2>2
  <2> QED BY <2>1, <2>3
<1>2. CASE n # 0
  <2>1. PICK f : Appended(ss, n, f) /\ FlattenSeq(ss) = f[n]
    BY <1>2, FlattenIsAppend
  <2> DEFINE Good(k) == f[k] \in Seq(X) /\ \E row : Rows(k, ss, f[k], row)
             bad == {k \in 1 .. n : ~Good(k)}
  <2>2. Good(1)
    <3>1. f[1] = ss[1] /\ ss[1] \in Seq(X) /\ Len(ss[1]) \in Nat
      BY <1>2, <2>1 DEF Appended
    <3>2. Rows(1, ss, ss[1], [m \in 1 .. Len(ss[1]) |-> 1])
      BY <3>1 DEF Rows
    <3> QED BY <3>1, <3>2
  <2>3. ASSUME NEW k \in 1 .. n, k # 1, Good(k - 1)
        PROVE  Good(k)
    <3>1. f[k] = f[k - 1] \o ss[k] /\ ss[k] \in Seq(X) /\ f[k - 1] \in Seq(X)
      BY <2>1, <2>3 DEF Appended
    <3>2. PICK row : Rows(k - 1, ss, f[k - 1], row)
      BY <2>3
    <3>3. k - 1 \in Nat /\ (k - 1) + 1 = k
      BY <2>3
    <3>4. \E r : Rows((k - 1) + 1, ss, f[k - 1] \o ss[(k - 1) + 1], r)
      BY <3>1, <3>2, <3>3, AppendRow
    <3> QED BY <3>1, <3>3, <3>4
  <2> HIDE DEF Good
  <2>4. bad = {}
    <3> SUFFICES ASSUME bad # {} PROVE FALSE
      OBVIOUS
    <3>1. PICK k \in bad : \A m \in bad : k <= m
      <4>1. bad \subseteq Nat
        OBVIOUS
      <4> HIDE DEF bad
      <4> QED BY <4>1, LeastNat
    <3>2. k \in 1 .. n /\ k # 1 /\ ~Good(k)
      BY <2>2
    <3>3. k - 1 \in 1 .. n /\ k - 1 \notin bad
      BY <3>1, <3>2
    <3> QED BY <2>3, <3>2, <3>3
  <2>5. Good(n)
    BY <1>2, <2>4
  <2> QED BY <2>1, <2>5 DEF Good
<1> QED BY <1>1, <1>2

\* A finite set of numbers has a greatest element, and can be put in order.
LEMMA GreatestNat ==
    ASSUME NEW S, S \subseteq Nat, IsFiniteSet(S), S # {}
    PROVE  \E n \in S : \A m \in S : m <= n
<1> DEFINE Bad(k) == \E T \in SUBSET Nat : /\ IsFiniteSet(T) /\ T # {} /\ Cardinality(T) = k
                                           /\ ~\E n \in T : \A m \in T : m <= n
           bad == {k \in Nat : Bad(k)}
<1>1. bad = {}
  <2> SUFFICES ASSUME bad # {} PROVE FALSE
    OBVIOUS
  <2>1. PICK k \in bad : \A m \in bad : k <= m
    <3> HIDE DEF Bad
    <3>1. bad \subseteq Nat
      OBVIOUS
    <3> HIDE DEF bad
    <3> QED BY <3>1, LeastNat
  <2>2. PICK T \in SUBSET Nat : /\ IsFiniteSet(T) /\ T # {} /\ Cardinality(T) = k
                                /\ ~\E n \in T : \A m \in T : m <= n
    OBVIOUS
  <2>3. PICK x : x \in T
    BY <2>2
  <2>4. /\ IsFiniteSet(T \ {x}) /\ Cardinality(T \ {x}) = k - 1
        /\ Cardinality(T \ {x}) \in Nat
    BY <2>2, <2>3, FS_RemoveElement, FS_CardinalityType
  <2>5. T \ {x} # {}
    <3> SUFFICES ASSUME T \ {x} = {} PROVE FALSE
      OBVIOUS
    <3>1. x \in Nat /\ \A m \in T : m = x
      BY <2>3
    <3> QED BY <2>2, <2>3, <3>1
  <2>6. \E n \in T \ {x} : \A m \in T \ {x} : m <= n
    <3>1. k - 1 \in Nat /\ k - 1 \notin bad
      <4> HIDE DEF Bad
      <4> QED BY <2>1, <2>4
    <3>2. ~Bad(k - 1)
      <4> HIDE DEF Bad
      <4> QED BY <3>1
    <3>3. T \ {x} \in SUBSET Nat
      OBVIOUS
    <3> QED BY <2>4, <2>5, <3>2, <3>3
  <2>7. PICK n \in T \ {x} : \A m \in T \ {x} : m <= n
    BY <2>6
  <2>8. n \in Nat /\ x \in Nat /\ \A m \in T : m \in Nat
    BY <2>3
  <2>9. CASE x <= n
    BY <2>2, <2>7, <2>8, <2>9
  <2>10. CASE ~(x <= n)
    <3>1. \A m \in T : m <= x
      BY <2>7, <2>8, <2>10
    <3> QED BY <2>2, <2>3, <3>1
  <2> QED BY <2>8, <2>9, <2>10
<1>2. Cardinality(S) \in Nat /\ ~Bad(Cardinality(S))
  <2> HIDE DEF Bad
  <2> QED BY <1>1, FS_CardinalityType
<1> QED BY <1>2

Ascending(n, order) == \A i, j \in 1 .. n : i < j => order[i] < order[j]

LEMMA AscendingOrder ==
    ASSUME NEW S, S \subseteq Nat, IsFiniteSet(S)
    PROVE  \E order \in [1 .. Cardinality(S) -> S] : Ascending(Cardinality(S), order)
<1> DEFINE Can(T)  == \E order \in [1 .. Cardinality(T) -> T] : Ascending(Cardinality(T), order)
           Bad(k) == \E T \in SUBSET Nat : IsFiniteSet(T) /\ Cardinality(T) = k /\ ~Can(T)
           bad == {k \in Nat : Bad(k)}
<1>1. bad = {}
  <2> SUFFICES ASSUME bad # {} PROVE FALSE
    OBVIOUS
  <2>1. PICK k \in bad : \A m \in bad : k <= m
    <3> HIDE DEF Bad
    <3>1. bad \subseteq Nat
      OBVIOUS
    <3> HIDE DEF bad
    <3> QED BY <3>1, LeastNat
  <2>2. PICK T \in SUBSET Nat : IsFiniteSet(T) /\ Cardinality(T) = k /\ ~Can(T)
    <3> HIDE DEF Can
    <3> QED OBVIOUS
  <2>3. CASE T = {}
    <3>1. << >> \in [1 .. 0 -> T] /\ Ascending(0, << >>) /\ Cardinality(T) = 0
      BY <2>3, FS_EmptySet DEF Ascending
    <3> QED BY <2>2, <3>1
  <2>4. CASE T # {}
    <3>1. PICK x \in T : \A m \in T : m <= x
      BY <2>2, <2>4, GreatestNat
    <3> DEFINE rest == T \ {x}
    <3>2. /\ IsFiniteSet(rest) /\ Cardinality(rest) = k - 1 /\ Cardinality(rest) \in Nat
          /\ rest \in SUBSET Nat
      BY <2>2, FS_RemoveElement, FS_CardinalityType
    <3>3. Can(rest)
      <4>1. k - 1 \in Nat /\ k - 1 \notin bad
        <5> HIDE DEF Bad
        <5> QED BY <2>1, <3>2
      <4>2. ~Bad(k - 1)
        <5> HIDE DEF Bad
        <5> QED BY <4>1
      <4> HIDE DEF Can, rest
      <4> QED BY <3>2, <4>2
    <3>4. k \in Nat /\ k - 1 \in Nat
      BY <2>1, <3>2
    <3>5. PICK order \in [1 .. (k - 1) -> rest] : Ascending(k - 1, order)
      BY <3>2, <3>3
    <3> DEFINE longer == [i \in 1 .. k |-> IF i = k THEN x ELSE order[i]]
    <3>6. longer \in [1 .. k -> T]
      BY <3>4, <3>5
    <3>7. ASSUME NEW i \in 1 .. k, NEW j \in 1 .. k, i < j
          PROVE  longer[i] < longer[j]
      <4>1. i \in 1 .. (k - 1) /\ longer[i] = order[i] /\ order[i] \in rest
        BY <3>4, <3>5, <3>7
      <4>2. CASE j = k
        <5>1. order[i] \in Nat /\ x \in Nat /\ order[i] <= x /\ order[i] # x
          BY <3>1, <4>1
        <5> QED BY <4>1, <4>2, <5>1
      <4>3. CASE j # k
        <5>1. j \in 1 .. (k - 1) /\ longer[j] = order[j]
          BY <3>4, <4>3
        <5> QED BY <3>5, <3>7, <4>1, <5>1 DEF Ascending
      <4> QED BY <4>2, <4>3
    <3>8. Ascending(k, longer)
      BY <3>7 DEF Ascending
    <3> QED BY <2>2, <3>6, <3>8
  <2> QED BY <2>3, <2>4
<1>2. Cardinality(S) \in Nat /\ ~Bad(Cardinality(S))
  <2> HIDE DEF Bad
  <2> QED BY <1>1, FS_CardinalityType
<1>3. Can(S)
  <2> HIDE DEF Can
  <2> QED BY <1>2
<1> QED BY <1>3

-----------------------------------------------------------------------------
(***************************************************************************)
(* What generate plans to write.                                           *)
(***************************************************************************)

\* The order of the spec files: ascending, and none is left out.
LEMMA InOrderType ==
    /\ Cardinality(Loaded) \in Nat
    /\ InOrder \in [1 .. Cardinality(Loaded) -> Loaded]
    /\ Ascending(Cardinality(Loaded), InOrder)
    /\ \A f \in Loaded : \E i \in 1 .. Cardinality(Loaded) : InOrder[i] = f
    /\ Loaded \subseteq Nat
<1> DEFINE n == Cardinality(Loaded)
           Sorted(order) == \A i, j \in DOMAIN order : i < j => order[i] < order[j]
<1>1. Loaded \subseteq Nat /\ IsFiniteSet(Loaded) /\ n \in Nat
  <2>1. Loaded \in SUBSET File
    BY DEF Loaded
  <2> QED BY <2>1, CompilerAssumption, FS_Subset, FS_CardinalityType
<1>2. PICK order \in [1 .. n -> Loaded] : Ascending(n, order)
  BY <1>1, AscendingOrder
<1>3. Sorted(order)
  BY <1>2 DEF Ascending
<1>4. InOrder = CHOOSE o \in [1 .. n -> Loaded] : Sorted(o)
  BY DEF InOrder
<1>5. InOrder \in [1 .. n -> Loaded] /\ Sorted(InOrder)
  <2> HIDE DEF Sorted
  <2> QED BY <1>3, <1>4
<1>6. Ascending(n, InOrder)
  BY <1>5 DEF Ascending
<1>7. \A i, j \in 1 .. n : i # j => InOrder[i] # InOrder[j]
  <2>1. \A i \in 1 .. n : InOrder[i] \in Nat
    BY <1>1, <1>5
  <2> QED BY <1>1, <1>6, <2>1 DEF Ascending
<1>8. InOrder \in Injection(1 .. n, Loaded)
  BY <1>5, <1>7 DEF Injection, IsInjective
<1>9. Cardinality(1 .. n) = n
  BY <1>1, FS_Interval
<1>10. InOrder \in Surjection(1 .. n, Loaded)
  BY <1>1, <1>8, <1>9, FS_Injection
<1> QED BY <1>1, <1>5, <1>6, <1>10 DEF Surjection

\* A file of version v: the spec's path, and the version in it.
FileOf(v) == [path : [feature : {SpecOf[v].feature}, kind : Kind], content : {v}]

LEMMA FilesOfType == ASSUME NEW v \in Version PROVE FilesOf[v] \in Seq(FileOf(v))
<1> DEFINE s == SpecOf[v]
<1>1. KindsOf(s) \in Seq(Kind)
  <2> DEFINE Only(needed, kinds) == IF needed THEN kinds ELSE << >>
  <2>1. \A needed : /\ Only(needed, <<"rollup">>) \in Seq(Kind) /\ Only(needed, <<"state">>) \in Seq(Kind)
                    /\ Only(needed, <<"recent">>) \in Seq(Kind) /\ Only(needed, <<"state_test">>) \in Seq(Kind)
    <3>1. /\ <<"rollup">> \in Seq(Kind) /\ <<"state">> \in Seq(Kind) /\ <<"recent">> \in Seq(Kind)
          /\ <<"state_test">> \in Seq(Kind) /\ << >> \in Seq(Kind)
      BY DEF Kind
    <3>2. \A needed, kinds : Only(needed, kinds) \in {kinds, << >>}
      OBVIOUS
    <3> HIDE DEF Only
    <3> QED BY <3>1, <3>2
  <2>2. <<"partials">> \in Seq(Kind) /\ <<"mart", "tests">> \in Seq(Kind) /\ <<"registry">> \in Seq(Kind)
    BY DEF Kind
  <2> HIDE DEF Only
  <2>3. <<"partials">> \o Only(HasBounded(s), <<"rollup">>) \in Seq(Kind)
    BY <2>1, <2>2, ConcatProperties
  <2>4. <<"partials">> \o Only(HasBounded(s), <<"rollup">>) \o Only(HasAllTime(s), <<"state">>) \in Seq(Kind)
    BY <2>1, <2>3, ConcatProperties
  <2>5. <<"partials">> \o Only(HasBounded(s), <<"rollup">>) \o Only(HasAllTime(s), <<"state">>)
            \o Only(HasAllTime(s) /\ s.late > 0, <<"recent">>) \in Seq(Kind)
    BY <2>1, <2>4, ConcatProperties
  <2>6. <<"partials">> \o Only(HasBounded(s), <<"rollup">>) \o Only(HasAllTime(s), <<"state">>)
            \o Only(HasAllTime(s) /\ s.late > 0, <<"recent">>) \o <<"mart", "tests">> \in Seq(Kind)
    BY <2>2, <2>5, ConcatProperties
  <2>7. <<"partials">> \o Only(HasBounded(s), <<"rollup">>) \o Only(HasAllTime(s), <<"state">>)
            \o Only(HasAllTime(s) /\ s.late > 0, <<"recent">>) \o <<"mart", "tests">>
            \o Only(HasAllTime(s), <<"state_test">>) \in Seq(Kind)
    BY <2>1, <2>6, ConcatProperties
  <2> QED BY <2>2, <2>7, ConcatProperties DEF KindsOf, Only
<1>2. FilesOf[v] = [i \in DOMAIN KindsOf(s) |->
                       [path |-> [feature |-> s.feature, kind |-> KindsOf(s)[i]], content |-> v]]
  BY DEF FilesOf
<1> HIDE DEF s
<1>3. KindsOf(s) \in [1 .. Len(KindsOf(s)) -> Kind] /\ Len(KindsOf(s)) \in Nat
  BY <1>1
<1>4. FilesOf[v] \in [1 .. Len(KindsOf(s)) -> FileOf(v)]
  BY <1>2, <1>3 DEF FileOf, s
<1> QED BY <1>3, <1>4

\* Which spec file each file but the last is planned for: the spec files in ascending order,
\* all files of each.
PlannedFor(from) ==
    /\ from \in [1 .. (Len(Planned) - 1) -> Loaded]
    /\ \A m \in 1 .. (Len(Planned) - 1) : Planned[m] \in Range(FilesOf[specs[from[m]]])
    /\ \A f \in Loaded : \A x \in Range(FilesOf[specs[f]]) :
           \E m \in 1 .. (Len(Planned) - 1) : from[m] = f /\ Planned[m] = x
    /\ \A m, l \in 1 .. (Len(Planned) - 1) : m <= l => from[m] <= from[l]

SourcesFile == [path |-> Sources, content |-> SourcesContent]
AnyFile     == (UNION {FileOf(v) : v \in Version}) \cup {SourcesFile}

LEMMA PlannedType ==
    ASSUME CompilerTypeOK
    PROVE  /\ Planned \in Seq(AnyFile) /\ Len(Planned) \in Nat \ {0}
           /\ Planned[Len(Planned)] = SourcesFile
           /\ \E from : PlannedFor(from)
<1> DEFINE n  == Cardinality(Loaded)
           ss == [i \in DOMAIN InOrder |-> FilesOf[specs[InOrder[i]]]]
           flat == FlattenSeq(ss)
<1>1. n \in Nat /\ InOrder \in [1 .. n -> Loaded] /\ DOMAIN InOrder = 1 .. n
  BY InOrderType
<1>2. \A f \in Loaded : specs[f] \in Version /\ FilesOf[specs[f]] \in Seq(AnyFile)
  <2> SUFFICES ASSUME NEW f \in Loaded
               PROVE  specs[f] \in Version /\ FilesOf[specs[f]] \in Seq(AnyFile)
    OBVIOUS
  <2>1. specs[f] \in Version
    BY LoadedSpec
  <2>2. FileOf(specs[f]) \subseteq AnyFile
    BY <2>1 DEF AnyFile
  <2> QED BY <2>1, <2>2, FilesOfType, SeqMonotonic
<1>3. ss \in [1 .. n -> Seq(AnyFile)]
  BY <1>1, <1>2
<1> HIDE DEF ss
<1>4. flat \in Seq(AnyFile) /\ \E row : Rows(n, ss, flat, row)
  BY <1>1, <1>3, FlattenedRows
<1>5. PICK row : Rows(n, ss, flat, row)
  BY <1>4
<1>6. Planned = flat \o <<SourcesFile>>
  BY DEF Planned, SourcesFile, ss
<1> DEFINE L == Len(flat)
<1> HIDE DEF flat, L
<1>7. /\ <<SourcesFile>> \in Seq(AnyFile) /\ Len(<<SourcesFile>>) = 1
      /\ L \in Nat /\ flat \in Seq(AnyFile)
  BY <1>4 DEF AnyFile, L
<1>8. /\ Planned \in Seq(AnyFile) /\ Len(Planned) = L + 1
      /\ \A m \in 1 .. L : Planned[m] = flat[m]
      /\ Planned[L + 1] = SourcesFile
  BY <1>6, <1>7, ConcatProperties DEF L
<1>9. /\ row \in [1 .. L -> 1 .. n]
      /\ \A m \in 1 .. L : \E k \in 1 .. Len(ss[row[m]]) : flat[m] = ss[row[m]][k]
      /\ \A i \in 1 .. n : \A k \in 1 .. Len(ss[i]) :
             \E m \in 1 .. L : row[m] = i /\ flat[m] = ss[i][k]
      /\ \A m, l \in 1 .. L : m <= l => row[m] <= row[l]
  BY <1>5 DEF Rows, L
<1> DEFINE from == [m \in 1 .. L |-> InOrder[row[m]]]
<1>10. from \in [1 .. L -> Loaded]
  BY <1>1, <1>9
<1>11. \A i \in 1 .. n : /\ ss[i] = FilesOf[specs[InOrder[i]]]
                         /\ ss[i] \in Seq(AnyFile) /\ DOMAIN ss[i] = 1 .. Len(ss[i])
  BY <1>1, <1>3 DEF ss
<1>12. ASSUME NEW m \in 1 .. L
       PROVE  Planned[m] \in Range(FilesOf[specs[from[m]]])
  <2>1. row[m] \in 1 .. n /\ from[m] = InOrder[row[m]]
    BY <1>9
  <2>2. PICK k \in 1 .. Len(ss[row[m]]) : flat[m] = ss[row[m]][k]
    BY <1>9
  <2> QED BY <1>8, <1>11, <2>1, <2>2 DEF Range
<1>13. ASSUME NEW f \in Loaded, NEW x \in Range(FilesOf[specs[f]])
       PROVE  \E m \in 1 .. L : from[m] = f /\ Planned[m] = x
  <2>1. PICK i \in 1 .. n : InOrder[i] = f
    BY InOrderType
  <2>2. PICK k \in 1 .. Len(ss[i]) : x = ss[i][k]
    BY <1>11, <2>1 DEF Range
  <2>3. PICK m \in 1 .. L : row[m] = i /\ flat[m] = ss[i][k]
    BY <1>9
  <2> QED BY <1>8, <2>1, <2>2, <2>3
<1>14. ASSUME NEW m \in 1 .. L, NEW l \in 1 .. L, m <= l
       PROVE  from[m] <= from[l]
  <2>1. row[m] \in 1 .. n /\ row[l] \in 1 .. n /\ row[m] <= row[l]
    BY <1>9, <1>14
  <2>2. \A i, j \in 1 .. n : i < j => InOrder[i] < InOrder[j]
    BY InOrderType DEF Ascending
  <2>3. \A i \in 1 .. n : InOrder[i] \in Nat
    BY InOrderType
  <2>4. InOrder[row[m]] <= InOrder[row[l]]
    <3>1. CASE row[m] = row[l]
      BY <2>1, <2>3, <3>1
    <3>2. CASE row[m] # row[l]
      <4>1. row[m] < row[l]
        BY <1>1, <2>1, <3>2
      <4>2. InOrder[row[m]] < InOrder[row[l]]
        BY <2>1, <2>2, <4>1
      <4> QED BY <2>1, <2>3, <4>2
    <3> QED BY <3>1, <3>2
  <2> QED BY <2>4
<1>15. Len(Planned) - 1 = L
  BY <1>7, <1>8
<1>16. PlannedFor(from)
  <2> HIDE DEF from
  <2> QED BY <1>10, <1>12, <1>13, <1>14, <1>15 DEF PlannedFor
<1> QED BY <1>7, <1>8, <1>16

\* The spec in file f has a generated file at p.
Gives(f, p) == [path |-> p, content |-> specs[f]] \in Range(FilesOf[specs[f]])

LEMMA GivenIsPlanned ==
    ASSUME NEW from, PlannedFor(from), NEW f \in Loaded, NEW p, Gives(f, p)
    PROVE  \E m \in 1 .. (Len(Planned) - 1) :
               from[m] = f /\ Planned[m] = [path |-> p, content |-> specs[f]]
<1> DEFINE x == [path |-> p, content |-> specs[f]]
<1>1. x \in Range(FilesOf[specs[f]])
  BY DEF Gives
<1> HIDE DEF x
<1>2. \E m \in 1 .. (Len(Planned) - 1) : from[m] = f /\ Planned[m] = x
  BY <1>1 DEF PlannedFor
<1> QED BY <1>2 DEF x

LEMMA GivenFile ==
    ASSUME CompilerTypeOK, NEW f \in Loaded, NEW x \in Range(FilesOf[specs[f]])
    PROVE  /\ x = [path |-> x.path, content |-> specs[f]] /\ x.content = specs[f]
           /\ x.path \in Path /\ x.path # Sources /\ x.path.feature = SpecOf[specs[f]].feature
           /\ Gives(f, x.path)
<1> DEFINE v == specs[f]
<1>1. v \in Version /\ FilesOf[v] \in Seq(FileOf(v))
  BY LoadedSpec, FilesOfType
<1>2. x \in FileOf(v)
  BY <1>1 DEF Range
<1>3. x = [path |-> x.path, content |-> v] /\ x.content = v
  BY <1>2 DEF FileOf
<1>4. /\ x.path.feature = SpecOf[v].feature /\ x.path.kind \in Kind
      /\ x.path \in [feature : Feature, kind : Kind]
  BY <1>1, <1>2 DEF FileOf, Feature
<1>5. x.path # Sources
  BY <1>4 DEF Sources, Kind
<1> QED BY <1>3, <1>4, <1>5 DEF Path, Gives

LEMMA WantedFile ==
    ASSUME CompilerTypeOK, NEW p \in Path, p # Sources
    PROVE  \/ Wanted(p) = NoFile /\ \A f \in Loaded : ~Gives(f, p)
           \/ \E f \in Loaded : /\ Gives(f, p) /\ Wanted(p) = specs[f]
                                /\ \A g \in Loaded : Gives(g, p) => g <= f
<1> DEFINE files == {f \in Loaded : Gives(f, p)}
           Latest(f) == \A g \in files : g <= f
<1>1. Wanted(p) = IF files = {} THEN NoFile ELSE specs[CHOOSE f \in files : Latest(f)]
  BY DEF Wanted, Gives
<1>2. CASE files = {}
  BY <1>1, <1>2
<1>3. CASE files # {}
  <2>1. files \in SUBSET File
    BY DEF Loaded
  <2>2. files \subseteq Nat /\ IsFiniteSet(files)
    BY <2>1, CompilerAssumption, FS_Subset
  <2>3. PICK f \in files : Latest(f)
    <3> HIDE DEF files
    <3> QED BY <1>3, <2>2, GreatestNat
  <2> DEFINE c == CHOOSE g \in files : Latest(g)
  <2>4. c \in files /\ Latest(c)
    <3> HIDE DEF files, Latest
    <3> QED BY <2>3
  <2>5. Wanted(p) = specs[c]
    BY <1>1, <1>3
  <2> HIDE DEF c
  <2> QED BY <2>4, <2>5
<1> QED BY <1>2, <1>3

\* A generated file is planned for exactly when a spec gives it.
LEMMA PlannedPaths ==
    ASSUME CompilerTypeOK, NEW p \in Path, p \notin {w.path : w \in Range(Planned)}
    PROVE  p # Sources /\ Wanted(p) = NoFile
<1> DEFINE L == Len(Planned)
<1>1. /\ Planned \in Seq(AnyFile) /\ L \in Nat \ {0} /\ DOMAIN Planned = 1 .. L
      /\ Planned[L] = SourcesFile
  BY PlannedType
<1>2. PICK from : PlannedFor(from)
  BY PlannedType
<1> HIDE DEF L
<1>3. \A m \in 1 .. L : Planned[m].path # p
  BY <1>1 DEF Range
<1>4. p # Sources
  BY <1>1, <1>3 DEF SourcesFile
<1>5. ASSUME NEW f \in Loaded, Gives(f, p) PROVE FALSE
  <2>1. PICK m \in 1 .. (L - 1) : Planned[m] = [path |-> p, content |-> specs[f]]
    BY <1>2, <1>5, GivenIsPlanned DEF L
  <2> QED BY <1>1, <1>3, <2>1
<1> QED BY <1>4, <1>5, WantedFile

-----------------------------------------------------------------------------
(***************************************************************************)
(* The check.                                                              *)
(***************************************************************************)

LEMMA GreenIsRight == ASSUME CompilerTypeOK PROVE GreenMeansGenerated
<1> SUFFICES ASSUME CheckIsGreen, NEW p \in Path
             PROVE  \/ tree[p] = Wanted(p)
                    \/ Wanted(p) = NoFile /\ p.kind \in {"tests", "state_test", "registry"}
  BY DEF GreenMeansGenerated, CheckIsGreen
<1> DEFINE L == Len(Planned)
<1>1. /\ Planned \in Seq(AnyFile) /\ L \in Nat \ {0} /\ DOMAIN Planned = 1 .. L
      /\ Planned[L] = SourcesFile
  BY PlannedType
<1>2. PICK from : PlannedFor(from)
  BY PlannedType
<1> HIDE DEF L
<1>3. \A m \in 1 .. L : tree[Planned[m].path] = Planned[m].content
  BY <1>1 DEF CheckIsGreen, Drifted, Range
<1>4. CASE p = Sources
  BY <1>1, <1>3, <1>4 DEF Wanted, SourcesFile
<1>5. ASSUME p # Sources, NEW f \in Loaded, Gives(f, p), Wanted(p) = specs[f]
      PROVE  tree[p] = Wanted(p)
  <2>1. PICK m \in 1 .. (L - 1) : Planned[m] = [path |-> p, content |-> specs[f]]
    BY <1>2, <1>5, GivenIsPlanned DEF L
  <2> QED BY <1>1, <1>3, <1>5, <2>1
<1>6. CASE p # Sources /\ Wanted(p) = NoFile /\ \A f \in Loaded : ~Gives(f, p)
  <2>1. ASSUME NEW m \in 1 .. L PROVE Planned[m].path # p
    <3>1. CASE m = L
      BY <1>1, <1>6, <3>1 DEF SourcesFile
    <3>2. CASE m # L
      <4>1. m \in 1 .. (L - 1)
        BY <1>1, <3>2
      <4>2. from[m] \in Loaded /\ Planned[m] \in Range(FilesOf[specs[from[m]]])
        BY <1>2, <4>1 DEF PlannedFor, L
      <4>3. Gives(from[m], Planned[m].path)
        BY <4>2, GivenFile
      <4> QED BY <1>6, <4>2, <4>3
    <3> QED BY <3>1, <3>2
  <2>2. p \notin {w.path : w \in Range(Planned)}
    BY <1>1, <2>1 DEF Range
  <2>3. tree[p] = NoFile \/ ~Searched(p)
    BY <2>2 DEF CheckIsGreen, Drifted
  <2>4. p.kind \in Kind
    BY <1>6 DEF Path
  <2> QED BY <1>6, <2>3, <2>4 DEF Searched, Kind
<1> QED BY <1>4, <1>5, <1>6, WantedFile

-----------------------------------------------------------------------------
(***************************************************************************)
(* A generate that goes through heals the tree.                            *)
(***************************************************************************)

\* Of the first k files planned, the last one for each path is what the path holds.
WrittenUpTo(k) ==
    \A m \in 1 .. k :
        (\A l \in (m + 1) .. k : Planned[l].path # Planned[m].path) =>
            tree[Planned[m].path] = Planned[m].content

\* As long as nobody has interfered, what is left to write is the rest of what the specs give,
\* and all before it has been written.
GenerateOnTrack ==
    settled => \E k \in 0 .. Len(Planned) :
                   todo = SubSeq(Planned, k + 1, Len(Planned)) /\ WrittenUpTo(k)

LEMMA PlannedFrame == ASSUME UNCHANGED specs PROVE Planned' = Planned
<1>1. Loaded' = Loaded
  BY DEF Loaded
<1>2. InOrder' = InOrder
  BY <1>1 DEF InOrder
<1>3. SourcesContent' = SourcesContent
  BY <1>1 DEF SourcesContent
<1> QED BY <1>2, <1>3 DEF Planned

LEMMA PlannedInPath ==
    ASSUME CompilerTypeOK, NEW m \in 1 .. Len(Planned)
    PROVE  Planned[m].path \in Path
<1>1. Planned[m] \in AnyFile
  BY PlannedType
<1>2. CASE Planned[m] = SourcesFile
  BY <1>2 DEF SourcesFile, Path
<1>3. ASSUME NEW v \in Version, Planned[m] \in FileOf(v)
      PROVE  Planned[m].path \in Path
  BY <1>3 DEF FileOf, Path, Feature
<1> QED BY <1>1, <1>2, <1>3 DEF AnyFile

LEMMA WriteKeepsTrack ==
    ASSUME CompilerTypeOK, GenerateOnTrack, WriteFile, settled
    PROVE  GenerateOnTrack'
<1> DEFINE L == Len(Planned)
<1>1. Planned \in Seq(AnyFile) /\ L \in Nat /\ Planned' = Planned
  BY PlannedType, PlannedFrame DEF WriteFile
<1>2. PICK k \in 0 .. L : todo = SubSeq(Planned, k + 1, L) /\ WrittenUpTo(k)
  BY DEF GenerateOnTrack
<1>3. k \in Nat /\ k < L /\ k + 1 \in 1 .. L
  <2>1. todo # << >>
    BY DEF WriteFile
  <2>2. ~(L < k + 1)
    BY <1>1, <1>2, <2>1, SubSeqEmpty
  <2> QED BY <1>1, <2>2
<1>4. Head(todo) = Planned[k + 1] /\ Tail(todo) = SubSeq(Planned, (k + 1) + 1, L)
  BY <1>1, <1>2, <1>3, HeadTailOfSubSeq DEF L
<1> DEFINE w == Planned[k + 1]
<1>5. w.path \in Path /\ tree' = [tree EXCEPT ![w.path] = w.content] /\ todo' = Tail(todo)
  BY <1>3, <1>4, PlannedInPath DEF WriteFile, L
<1> HIDE DEF L, w
<1>6. ASSUME NEW m \in 1 .. (k + 1), \A l \in (m + 1) .. (k + 1) : Planned[l].path # Planned[m].path
      PROVE  tree'[Planned[m].path] = Planned[m].content
  <2>1. CASE m = k + 1
    BY <1>5, <2>1 DEF CompilerTypeOK, w
  <2>2. CASE m # k + 1
    <3>1. m \in 1 .. k /\ k + 1 \in (m + 1) .. (k + 1)
      BY <1>3, <2>2
    <3>2. \A l \in (m + 1) .. k : Planned[l].path # Planned[m].path
      BY <1>3, <1>6
    <3>3. tree[Planned[m].path] = Planned[m].content
      BY <1>2, <3>1, <3>2 DEF WrittenUpTo
    <3>4. w.path # Planned[m].path
      BY <1>6, <3>1 DEF w
    <3>5. m \in 1 .. Len(Planned)
      BY <1>1, <1>3, <3>1 DEF L
    <3>6. Planned[m].path \in Path
      BY <3>5, PlannedInPath
    <3> QED BY <1>5, <3>3, <3>4, <3>6 DEF CompilerTypeOK
  <2> QED BY <2>1, <2>2
<1>7. WrittenUpTo(k + 1)'
  BY <1>1, <1>6 DEF WrittenUpTo
<1>8. k + 1 \in 0 .. Len(Planned') /\ todo' = SubSeq(Planned', (k + 1) + 1, Len(Planned'))
  BY <1>1, <1>3, <1>4, <1>5 DEF L
<1> QED BY <1>7, <1>8 DEF GenerateOnTrack

LEMMA NextOnTrack ==
    ASSUME CompilerTypeOK, GenerateOnTrack, Step
    PROVE  GenerateOnTrack'
<1>1. CASE \E w \in Written : EditSpec(w[1], w[2])
  BY <1>1 DEF EditSpec, GenerateOnTrack
<1>2. CASE \E p \in Touched : TouchFile(p, Edited) \/ TouchFile(p, NoFile)
  BY <1>2 DEF TouchFile, GenerateOnTrack
<1>3. CASE StartGenerate
  <2>1. Planned' = Planned /\ todo' = Planned
    BY <1>3, PlannedFrame DEF StartGenerate
  <2>2. Planned = SubSeq(Planned, 0 + 1, Len(Planned)) /\ 0 \in 0 .. Len(Planned)
    BY PlannedType, SubSeqFull
  <2>3. WrittenUpTo(0)'
    BY DEF WrittenUpTo
  <2> QED BY <2>1, <2>2, <2>3 DEF GenerateOnTrack
<1>4. CASE WriteFile
  <2>1. settled' = settled
    BY <1>4 DEF WriteFile
  <2> QED BY <1>4, <2>1, WriteKeepsTrack DEF GenerateOnTrack
<1>5. CASE GenerateDies
  BY <1>5 DEF GenerateDies, GenerateOnTrack
<1>6. CASE UNCHANGED <<specs, tree, todo, settled>>
  <2>1. Planned' = Planned
    BY <1>6, PlannedFrame
  <2> QED BY <1>6, <2>1 DEF GenerateOnTrack, WrittenUpTo
<1> QED BY <1>1, <1>2, <1>3, <1>4, <1>5, <1>6 DEF Step, CompilerNext

\* After all has been written each path holds what the last file planned for it says.
LEMMA LastWritten ==
    ASSUME CompilerTypeOK, WrittenUpTo(Len(Planned)), NEW m \in 1 .. Len(Planned)
    PROVE  \E l \in m .. Len(Planned) :
               /\ Planned[l].path = Planned[m].path
               /\ tree[Planned[m].path] = Planned[l].content
<1> DEFINE L == Len(Planned)
           S == {l \in m .. L : Planned[l].path = Planned[m].path}
<1>1. L \in Nat /\ m \in 1 .. L
  BY PlannedType
<1> HIDE DEF L
<1>2. S \in SUBSET Nat /\ m \in S /\ \A l \in S : l <= L
  BY <1>1
<1>3. IsFiniteSet(S)
  <2> HIDE DEF S
  <2> QED BY <1>1, <1>2, FS_BoundedSetOfNaturals
<1>4. PICK l \in S : \A k \in S : k <= l
  <2> HIDE DEF S
  <2> QED BY <1>2, <1>3, GreatestNat
<1>5. \A k \in (l + 1) .. L : Planned[k].path # Planned[l].path
  <2> SUFFICES ASSUME NEW k \in (l + 1) .. L, Planned[k].path = Planned[l].path PROVE FALSE
    OBVIOUS
  <2>1. l \in Nat /\ m <= l /\ Planned[l].path = Planned[m].path
    BY <1>1, <1>4
  <2>2. k \in S /\ ~(k <= l)
    BY <1>1, <2>1
  <2> QED BY <1>4, <2>2
<1>6. l \in 1 .. L
  BY <1>1
<1>7. tree[Planned[l].path] = Planned[l].content
  BY <1>5, <1>6 DEF WrittenUpTo, L
<1> QED BY <1>7 DEF L

LEMMA HealedTree ==
    ASSUME CompilerTypeOK, WrittenUpTo(Len(Planned)), NEW p \in Path, Wanted(p) # NoFile
    PROVE  tree[p] = Wanted(p)
<1> DEFINE L == Len(Planned)
<1>1. L \in Nat \ {0} /\ Planned[L] = SourcesFile
  BY PlannedType
<1>2. PICK from : PlannedFor(from)
  BY PlannedType
<1>3. CASE p = Sources
  <2>1. PICK l \in L .. L : tree[Planned[L].path] = Planned[l].content
    BY <1>1, LastWritten
  <2> QED BY <1>1, <1>3, <2>1 DEF SourcesFile, Wanted
<1>4. CASE p # Sources
  <2>1. PICK f \in Loaded : /\ Gives(f, p) /\ Wanted(p) = specs[f]
                            /\ \A g \in Loaded : Gives(g, p) => g <= f
    BY <1>4, WantedFile
  <2>2. PICK m \in 1 .. (L - 1) : from[m] = f /\ Planned[m] = [path |-> p, content |-> specs[f]]
    BY <1>2, <2>1, GivenIsPlanned
  <2>3. PICK l \in m .. L : Planned[l].path = p /\ tree[p] = Planned[l].content
    <3>1. m \in 1 .. L
      BY <1>1
    <3>2. PICK l \in m .. L : /\ Planned[l].path = Planned[m].path
                              /\ tree[Planned[m].path] = Planned[l].content
      BY <3>1, LastWritten
    <3> QED BY <2>2, <3>2
  <2> HIDE DEF L
  <2>4. l \in 1 .. (L - 1)
    <3>1. l # L
      BY <1>1, <1>4, <2>3 DEF SourcesFile
    <3> QED BY <1>1, <3>1
  <2>5. /\ from[l] \in Loaded /\ Planned[l] \in Range(FilesOf[specs[from[l]]])
        /\ from[m] <= from[l]
    BY <1>2, <2>4 DEF PlannedFor, L
  <2>6. Gives(from[l], p) /\ Planned[l].content = specs[from[l]]
    BY <2>3, <2>5, GivenFile
  <2>7. from[l] = f
    <3>1. from[l] <= f /\ f <= from[l]
      BY <2>1, <2>2, <2>5, <2>6
    <3>2. f \in Nat /\ from[l] \in Nat
      BY <2>5, InOrderType
    <3> QED BY <3>1, <3>2
  <2> QED BY <2>1, <2>3, <2>6, <2>7
<1> QED BY <1>3, <1>4

LEMMA GeneratedIsHealed == ASSUME CompilerTypeOK, GenerateOnTrack PROVE GenerateHeals
<1> SUFFICES ASSUME settled, todo = << >>
             PROVE  /\ \A p \in Path : Wanted(p) # NoFile => tree[p] = Wanted(p)
                    /\ FeatureNamesDiffer => \A p \in Drifted : Wanted(p) = NoFile
  BY DEF GenerateHeals
<1>1. /\ Len(Planned) \in Nat /\ Planned \in Seq(AnyFile)
      /\ \A m \in DOMAIN Planned : m \in 1 .. Len(Planned)
  BY PlannedType
<1>2. WrittenUpTo(Len(Planned))
  <2>1. PICK k \in 0 .. Len(Planned) : todo = SubSeq(Planned, k + 1, Len(Planned)) /\ WrittenUpTo(k)
    BY DEF GenerateOnTrack
  <2>2. Len(SubSeq(Planned, k + 1, Len(Planned))) = 0
    <3>1. SubSeq(Planned, k + 1, Len(Planned)) = << >>
      BY <2>1
    <3> HIDE <2>1
    <3> QED BY <3>1, EmptySeq
  <2>3. k = Len(Planned)
    <3>1. \A i \in (k + 1) .. Len(Planned) : Planned[i] \in AnyFile
      BY <1>1
    <3>2. Len(SubSeq(Planned, k + 1, Len(Planned))) =
              IF k + 1 <= Len(Planned) THEN Len(Planned) - (k + 1) + 1 ELSE 0
      BY <1>1, <3>1, SubSeqProperties
    <3> QED BY <1>1, <2>2, <3>2
  <2> QED BY <2>1, <2>3
<1>3. \A p \in Path : Wanted(p) # NoFile => tree[p] = Wanted(p)
  BY <1>2, HealedTree
<1>4. ASSUME FeatureNamesDiffer, NEW p \in Drifted
      PROVE  Wanted(p) = NoFile
  <2>1. CASE p \in Path /\ p \notin {w.path : w \in Range(Planned)}
    BY <2>1, PlannedPaths
  <2>2. ASSUME NEW m \in 1 .. Len(Planned), tree[Planned[m].path] # Planned[m].content
        PROVE  FALSE
    <3>1. PICK l \in m .. Len(Planned) : /\ Planned[l].path = Planned[m].path
                                         /\ tree[Planned[m].path] = Planned[l].content
      BY <1>2, LastWritten
    <3>2. PICK from : PlannedFor(from)
      BY PlannedType
    <3>3. Planned[Len(Planned)] = SourcesFile
      BY PlannedType
    <3>4. m # l
      BY <2>2, <3>1
    <3>5. m \in 1 .. (Len(Planned) - 1)
      BY <1>1, <3>4
    <3>6. from[m] \in Loaded /\ Planned[m] \in Range(FilesOf[specs[from[m]]])
      BY <3>2, <3>5 DEF PlannedFor
    <3>7. /\ Planned[m].path # Sources /\ Planned[m].content = specs[from[m]]
          /\ Planned[m].path.feature = SpecOf[specs[from[m]]].feature
      BY <3>6, GivenFile
    <3>8. l \in 1 .. (Len(Planned) - 1)
      <4>1. l # Len(Planned)
        BY <3>1, <3>3, <3>7 DEF SourcesFile
      <4> QED BY <1>1, <4>1
    <3>9. from[l] \in Loaded /\ Planned[l] \in Range(FilesOf[specs[from[l]]])
      BY <3>2, <3>8 DEF PlannedFor
    <3>10. /\ Planned[l].content = specs[from[l]]
           /\ Planned[l].path.feature = SpecOf[specs[from[l]]].feature
      BY <3>9, GivenFile
    <3>11. from[l] = from[m]
      BY <1>4, <3>1, <3>6, <3>7, <3>9, <3>10 DEF FeatureNamesDiffer
    <3> QED BY <2>2, <3>1, <3>7, <3>10, <3>11
  <2> QED BY <1>1, <2>1, <2>2 DEF Drifted, Range
<1> QED BY <1>3, <1>4

-----------------------------------------------------------------------------
(***************************************************************************)
(* The theorems.                                                           *)
(***************************************************************************)

GeneratorInv == CompilerTypeOK /\ GenerateOnTrack

LEMMA GeneratorInit == CompilerInit => GeneratorInv
BY InitTypes DEF GeneratorInv, GenerateOnTrack, CompilerInit

LEMMA GeneratorNext == GeneratorInv /\ Step => GeneratorInv'
BY StepTypes, NextOnTrack DEF GeneratorInv

LEMMA GeneratorInvariance == CompilerSpec => []GeneratorInv
BY GeneratorInit, GeneratorNext, StepOfCompiler, PTL DEF CompilerSpec

\* For every spec that compiles the staging view has the timestamp and the columns that the
\* partial layer aggregates, but for one that is itself the name of a derived field: on those
\* the rules that accept a spec and the renderer agree about what moves with the as-of date.
THEOREM AcceptedSpecsAreStaged == CompilerSpec => []AggregatesAreStaged
<1>1. GeneratorInv => AggregatesAreStaged
  BY AcceptedIsStaged DEF GeneratorInv
<1> QED BY <1>1, GeneratorInvariance, PTL

\* If in addition no spec has an entity, or a column in a condition, that moves with the as-of
\* date, or uses the name of a derived field, the partial model finds all columns it uses.
THEOREM StagingIsComplete ==
    ASSUME \A v \in Version : StaysPut(SpecOf[v])
    PROVE  CompilerSpec => []PartialsFindTheirColumns
<1>1. GeneratorInv => PartialsFindTheirColumns
  <2> SUFFICES ASSUME GeneratorInv, NEW f \in Loaded, CompilesOf[specs[f]]
               PROVE  ColumnsUsed(SpecOf[specs[f]]) \subseteq Projection(SpecOf[specs[f]])
    BY DEF PartialsFindTheirColumns
  <2>1. specs[f] \in Version
    BY LoadedSpec DEF GeneratorInv
  <2>2. Accepted(SpecOf[specs[f]]) /\ StaysPut(SpecOf[specs[f]])
    BY <2>1 DEF CompilesOf, Compiles
  <2> QED BY <2>2, AllColumnsAreThere
<1> QED BY <1>1, GeneratorInvariance, PTL

\* A green check, whatever was generated, cut short, edited and touched before: every
\* generated file is the one its spec gives, and no model is left that has no spec.
THEOREM GreenChecksAreRight == CompilerSpec => []GreenMeansGenerated
<1>1. GeneratorInv => GreenMeansGenerated
  BY GreenIsRight DEF GeneratorInv
<1> QED BY <1>1, GeneratorInvariance, PTL

\* A generate that goes through leaves every file of every spec right, whatever edits, deletions
\* and generates that died before had left; and if the features have different names, all that
\* a check could still report are files that no spec has any more.
THEOREM GenerateHealsTheTree == CompilerSpec => []GenerateHeals
<1>1. GeneratorInv => GenerateHeals
  BY GeneratedIsHealed DEF GeneratorInv
<1> QED BY <1>1, GeneratorInvariance, PTL

=============================================================================
