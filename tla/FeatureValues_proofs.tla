------------------------ MODULE FeatureValues_proofs ------------------------
(***************************************************************************)
(* Theorems about FeatureValues, for every set of rows, calendar, lateness *)
(* and list of windows.                                                    *)
(***************************************************************************)
EXTENDS FeatureValues, Aggregates_proofs

-----------------------------------------------------------------------------
(***************************************************************************)
(* What the tables hold.                                                   *)
(***************************************************************************)

Quantity(c)    == [r \in Row |-> Guarded(c, r)]
Relevant(c, R) == {r \in R : Guarded(c, r) # Null}

\* The state x of column c is that of the rows R.
Holds(c, x, R) == Stands(c.agg, x, Quantity(c), Relevant(c, R))

OnDay(d) == {r \in counted : r.day = d}
Upto(n)  == {r \in counted : r.day <= n}

\* Each partial row is that of the rows counted on its day, and the accumulator's that of the
\* rows up to the watermark.
LayerIsRight ==
    \A d \in Day : /\ partials[d] = NoRow <=> OnDay(d) = {}
                   /\ partials[d] # NoRow => \A c \in Column : Holds(c, partials[d][c], OnDay(d))
SealIsRight == \A c \in Column : Holds(c, Sealed(c), Upto(watermark))

ValuesTypeOK ==
    /\ counted \subseteq Row
    /\ watermark \in Nat
    /\ partials = [d \in Day |-> partials[d]]

StateInv == ValuesTypeOK /\ LayerIsRight /\ SealIsRight

LEMMA RowType ==
    ASSUME NEW r \in Row
    PROVE  /\ r.day \in Day /\ r.day \in Nat /\ r.hit \in BOOLEAN /\ r.val \in Int \cup {Null}
           /\ r.val # Null => r.val \in Int /\ r.val \in DOMAIN Hash
BY RowAssumption, SpecAssumption DEF RowShape, Day

LEMMA ColumnType ==
    ASSUME NEW c \in Column
    PROVE  /\ c.agg \in Aggregate
           /\ c.field \in {"amount", "event_date"} /\ c.combo \in {"all", "hit"}
           /\ c.agg \in Sets => c.field = "amount"
<1>1. PICK f \in Feature : c \in Inputs(f)
  BY DEF Column
<1>2. CASE f.field = "days_since"
  BY <1>1, <1>2 DEF Inputs, Feature, Aggregate, Sets
<1>3. CASE f.field # "days_since"
  <2>1. f.field = "amount" /\ f.agg \in Aggs /\ f.combo \in {"all", "hit"}
    BY <1>3 DEF Feature
  <2>2. PICK a \in IF f.agg = "avg" THEN {"sum", "count"} ELSE {f.agg} :
            c = [field |-> "amount", agg |-> a, combo |-> f.combo]
    BY <1>1, <1>3 DEF Inputs
  <2>3. a \in Aggregate
    BY <2>1, <2>2, SpecAssumption DEF Aggregate
  <2> QED BY <2>1, <2>2, <2>3
<1> QED BY <1>2, <1>3

LEMMA ColumnNonEmpty == Column # {}
<1>1. PICK i \in DOMAIN TimeCat : TimeCat[i] = AllTime
  BY SpecAssumption
<1> DEFINE f == [field |-> "days_since", agg |-> "min", combo |-> "all", win |-> AllTime]
<1>2. f \in Feature
  BY <1>1 DEF Feature, Windows
<1>3. [field |-> "event_date", agg |-> "max", combo |-> "all"] \in Inputs(f)
  BY DEF Inputs
<1> QED BY <1>2, <1>3 DEF Column

LEMMA RelevantFits ==
    ASSUME NEW c \in Column, NEW R \in SUBSET Row
    PROVE  Fits(c.agg, Quantity(c), Relevant(c, R))
<1>1. IsFiniteSet(Relevant(c, R))
  BY RowAssumption, FS_Subset DEF Relevant
<1>2. ASSUME NEW r \in Relevant(c, R)
      PROVE  Quantity(c)[r] \in Int /\ (c.agg \in Sets => Quantity(c)[r] \in DOMAIN Hash)
  <2>1. r \in Row /\ Guarded(c, r) # Null /\ Quantity(c)[r] = Guarded(c, r)
    BY DEF Relevant, Quantity
  <2>2. Guarded(c, r) = IF c.field = "amount" THEN r.val ELSE r.day
    BY <2>1 DEF Guarded
  <2> QED BY <2>1, <2>2, RowType, ColumnType
<1> QED BY <1>1, <1>2, ColumnType DEF Fits

\* The fold over the partial rows of some days is the state of the rows of these days.
LEMMA FoldHolds ==
    ASSUME StateInv, NEW c \in Column, NEW days \in SUBSET Day
    PROVE  Holds(c, FoldOver(c, days), {r \in counted : r.day \in days})
<1> DEFINE rows   == {r \in counted : r.day \in days}
           stored == {d \in days : partials[d] # NoRow}
           part   == [d \in stored |-> Relevant(c, OnDay(d))]
           state  == [d \in stored |-> partials[d][c]]
           v      == Quantity(c)
<1> USE DEF StateInv, ValuesTypeOK, LayerIsRight
<1>1. \A r : r \in Relevant(c, rows) <=> \E d \in stored : r \in part[d]
  <2>1. ASSUME NEW r \in Relevant(c, rows) PROVE r.day \in stored /\ r \in part[r.day]
    <3>1. r \in counted /\ r.day \in days /\ Guarded(c, r) # Null
      BY DEF Relevant
    <3>2. r \in OnDay(r.day)
      BY <3>1 DEF OnDay
    <3> QED BY <3>1, <3>2 DEF Relevant
  <2>2. ASSUME NEW d \in stored, NEW r \in part[d] PROVE r \in Relevant(c, rows)
    BY DEF Relevant, OnDay
  <2> HIDE DEF stored, rows, part
  <2> QED BY <2>1, <2>2
<1>2. CASE stored = {}
  <2>1. Relevant(c, rows) = {}
    BY <1>1, <1>2
  <2>2. FoldOver(c, days) = Null
    BY <1>2 DEF FoldOver
  <2> QED BY <2>1, <2>2, NoRows, ColumnType DEF Holds
<1>3. CASE stored # {}
  <2>1. FoldOver(c, days) = StateAgg(c.agg, state)
    BY <1>3 DEF FoldOver
  <2>2. IsFiniteSet(stored)
    <3>1. stored \in SUBSET (1 .. LastDay) /\ LastDay \in Int
      BY SpecAssumption DEF Day
    <3>2. IsFiniteSet(1 .. LastDay)
      BY ONLY <3>1, FS_Interval
    <3> HIDE DEF stored
    <3> QED BY <3>1, <3>2, FS_Subset
  <2>3. ASSUME NEW d \in stored
        PROVE  Fits(c.agg, v, part[d]) /\ Stands(c.agg, state[d], v, part[d])
    <3>1. OnDay(d) \in SUBSET Row
      BY DEF OnDay
    <3>2. Holds(c, partials[d][c], OnDay(d))
      OBVIOUS
    <3> QED BY <3>1, <3>2, RelevantFits DEF Holds
  <2>4. \A d, e \in stored : d # e => part[d] \cap part[e] = {}
    BY DEF Relevant, OnDay
  <2>5. DOMAIN state = stored
    OBVIOUS
  <2> HIDE DEF stored, part, state, v, rows
  <2>6. Stands(c.agg, StateAgg(c.agg, state), v, Relevant(c, rows))
    <3> DEFINE agg == c.agg
    <3>1. agg \in Aggregate
      BY ColumnType
    <3>2. \A d \in stored : Fits(agg, v, part[d]) /\ Stands(agg, state[d], v, part[d])
      BY <2>3
    <3> HIDE DEF agg
    <3>3. Stands(agg, StateAgg(agg, state), v, Relevant(c, rows))
      BY ONLY <1>1, <2>2, <2>4, <2>5, <3>1, <3>2, StateAggStands
    <3> QED BY <3>3 DEF agg
  <2> QED BY <1>1, <2>1, <2>6 DEF Holds, v, rows
<1> QED BY <1>2, <1>3

LEMMA InitState == Init => StateInv
<1> SUFFICES ASSUME Init PROVE StateInv
  OBVIOUS
<1>1. ValuesTypeOK
  BY DEF Init, ValuesTypeOK, None
<1>2. LayerIsRight
  BY DEF Init, LayerIsRight, OnDay
<1>3. SealIsRight
  <2>1. \A c \in Column : Relevant(c, Upto(watermark)) = {} /\ Sealed(c) = Null
    BY DEF Init, Relevant, Upto, Sealed
  <2> QED BY <2>1, NoRows, ColumnType DEF SealIsRight, Holds
<1> QED BY <1>1, <1>2, <1>3 DEF StateInv

LEMMA PartialsKeepState ==
    ASSUME StateInv, NEW d \in Day, NEW rows \in SUBSET {r \in Row : r.day = d},
           BuildPartials(d, rows)
    PROVE  StateInv'
<1> USE DEF StateInv, ValuesTypeOK
<1>1. ValuesTypeOK'
  BY DEF BuildPartials
<1>2. OnDay(d)' = rows /\ \A e \in Day \ {d} : OnDay(e)' = OnDay(e)
  BY DEF BuildPartials, OnDay
<1> DEFINE new == [c \in Column |-> Partial(c.agg, rows, [r \in rows |-> Guarded(c, r)])]
<1>3. partials'[d] = new /\ \A e \in Day \ {d} : partials'[e] = partials[e]
  BY DEF BuildPartials
<1>4. new # NoRow
  BY ColumnNonEmpty DEF NoRow
<1>5. ASSUME NEW c \in Column PROVE Holds(c, new[c], rows)
  <2> DEFINE val == [r \in rows |-> Guarded(c, r)]
             S   == {r \in rows : val[r] # Null}
  <2>1. S = Relevant(c, rows)
    BY DEF Relevant
  <2>2. \A r \in S : Quantity(c)[r] = val[r]
    BY DEF Quantity
  <2>3. Fits(c.agg, Quantity(c), S)
    <3>1. rows \in SUBSET Row
      OBVIOUS
    <3> QED BY <2>1, <3>1, RelevantFits
  <2>4. Fits(c.agg, val, S)
    <3> HIDE DEF val, S
    <3> QED BY <2>2, <2>3 DEF Fits
  <2>5. Stands(c.agg, Partial(c.agg, rows, val), val, S)
    BY <2>4, PartialStands
  <2>6. Stands(c.agg, Partial(c.agg, rows, val), Quantity(c), S)
    <3> HIDE DEF val, S
    <3> QED BY <2>2, <2>4, <2>5, StandsSame
  <2> QED BY <2>1, <2>6 DEF Holds
<1>6. LayerIsRight'
  <2> SUFFICES ASSUME NEW e \in Day
               PROVE  /\ partials'[e] = NoRow <=> OnDay(e)' = {}
                      /\ partials'[e] # NoRow =>
                            \A c \in Column : Holds(c, partials'[e][c], OnDay(e)')
    BY DEF LayerIsRight, Holds, Relevant, Quantity
  <2>1. CASE e = d
    <3> HIDE DEF new
    <3> QED BY <1>2, <1>3, <1>4, <1>5, <2>1 DEF BuildPartials
  <2>2. CASE e # d
    BY <1>2, <1>3, <2>2 DEF LayerIsRight
  <2> QED BY <2>1, <2>2
<1>7. SealIsRight'
  <2>1. Upto(watermark)' = Upto(watermark)
    <3>1. \A r \in rows : ~(r.day <= watermark)
      BY DEF BuildPartials, Day
    <3> QED BY <3>1 DEF BuildPartials, Upto
  <2>2. \A c \in Column : Sealed(c)' = Sealed(c)
    BY DEF BuildPartials, Sealed
  <2> QED BY <2>1, <2>2 DEF SealIsRight, Holds, Relevant, Quantity
<1> QED BY <1>1, <1>6, <1>7

LEMMA SealKeepsState ==
    ASSUME StateInv, NEW T \in Day, BuildState(T)
    PROVE  StateInv'
<1> USE DEF StateInv, ValuesTypeOK
<1> DEFINE days == {d \in Day : watermark < d /\ d <= T - Late}
<1>1. UNCHANGED <<partials, counted>> /\ watermark' = T - Late
  BY DEF BuildState
<1>2. T - Late \in Nat /\ watermark <= T - Late
  <2>1. PICK d \in days : TRUE
    BY DEF BuildState
  <2> QED BY <2>1, SpecAssumption DEF Day
<1>3. LayerIsRight'
  BY <1>1 DEF LayerIsRight, OnDay, Holds, Relevant, Quantity
<1> DEFINE new == [c \in Column |-> Merge(c.agg, Sealed(c), FoldOver(c, days))]
<1>4. sealed' = new /\ new # NoRow
  BY ColumnNonEmpty DEF BuildState, NoRow
<1>5. ASSUME NEW c \in Column PROVE Holds(c, new[c], Upto(T - Late))
  <2> DEFINE A == Relevant(c, Upto(watermark))
             B == Relevant(c, {r \in counted : r.day \in days})
             v == Quantity(c)
  <2>1. Stands(c.agg, Sealed(c), v, A) /\ Stands(c.agg, FoldOver(c, days), v, B)
    <3>1. days \in SUBSET Day
      OBVIOUS
    <3>2. Holds(c, FoldOver(c, days), {r \in counted : r.day \in days})
      <4> HIDE DEF days
      <4> QED BY <3>1, FoldHolds
    <3> QED BY <3>2 DEF SealIsRight, Holds
  <2>2. Fits(c.agg, v, A) /\ Fits(c.agg, v, B)
    <3>1. Upto(watermark) \in SUBSET Row /\ {r \in counted : r.day \in days} \in SUBSET Row
      BY DEF Upto
    <3> HIDE DEF days
    <3> QED BY <3>1, RelevantFits
  <2>3. A \cap B = {}
    BY DEF Relevant, Upto, Day
  <2>4. A \cup B = Relevant(c, Upto(T - Late))
    <3>1. ASSUME NEW r \in counted
          PROVE  r.day <= T - Late <=> r.day <= watermark \/ r.day \in days
      BY <1>2, RowType
    <3> HIDE DEF days
    <3> QED BY <3>1 DEF Relevant, Upto
  <2>5. Stands(c.agg, Merge(c.agg, Sealed(c), FoldOver(c, days)), v, A \cup B)
    <3> HIDE DEF v, A, B, days
    <3> QED BY <2>1, <2>2, <2>3, MergeStands
  <2> HIDE DEF days
  <2> QED BY <2>4, <2>5 DEF Holds
<1>6. SealIsRight'
  <2>1. \A c \in Column : Sealed(c)' = new[c]
    BY <1>4 DEF Sealed
  <2>2. Upto(watermark)' = Upto(T - Late)
    BY <1>1 DEF Upto
  <2> HIDE DEF new
  <2> QED BY <1>5, <2>1, <2>2 DEF SealIsRight, Holds, Relevant, Quantity
<1>7. ValuesTypeOK'
  BY <1>1, <1>2
<1> QED BY <1>3, <1>6, <1>7

-----------------------------------------------------------------------------
(***************************************************************************)
(* What the mart publishes.                                                *)
(***************************************************************************)

\* The bounded window that the spec names last is the widest, which the roll-up relies on.
WidestLast ==
    \A w \in Windows \ {AllTime} : Bounded # << >> /\ Bounded[Len(Bounded)] = Widest

InWindow(w, T) ==
    {r \in counted : /\ r.day <= T
                     /\ w # AllTime => Lo(w, T) <= r.day /\ r.day <= Hi(T)}

LEMMA WindowsType ==
    ASSUME NEW w \in Windows
    PROVE  w \in Nat /\ Widest \in Nat /\ w <= Widest
<1>1. IsFiniteSet(DOMAIN TimeCat) /\ Windows \subseteq Nat
  <2>1. DOMAIN TimeCat = 1 .. Len(TimeCat) /\ Len(TimeCat) \in Int
    BY SpecAssumption
  <2>2. IsFiniteSet(1 .. Len(TimeCat))
    BY ONLY <2>1, FS_Interval
  <2> QED BY <2>1, <2>2, SpecAssumption DEF Windows
<1>2. IsFiniteSet(Windows)
  BY <1>1, FiniteImage DEF Windows
<1>3. Max(Windows) \in Windows /\ \A v \in Windows : v <= Max(Windows)
  <2>1. Windows \subseteq Int
    BY <1>1
  <2> QED BY <1>2, <2>1, MaxIs
<1> QED BY <1>1, <1>3 DEF Widest

LEMMA BoundsType ==
    ASSUME NEW w \in Windows, NEW T \in Day
    PROVE  Lo(w, T) \in Int /\ Hi(T) \in Int /\ Hi(T) <= T /\ Lo(Widest, T) <= Lo(w, T)
BY WindowsType, SpecAssumption DEF Lo, Hi, Day

\* A bounded window of the roll-up.
LEMMA WindowJoined ==
    ASSUME StateInv, WidestLast, NEW T \in Day, NEW c \in Column,
           NEW w \in Windows, w # AllTime
    PROVE  Joined(c, w, T) = Value(c.agg, Quantity(c), Relevant(c, InWindow(w, T)))
<1> USE DEF StateInv, ValuesTypeOK, LayerIsRight
<1> DEFINE agg   == c.agg
           v     == Quantity(c)
           days  == Scanned(T)
           keeps(d) == w = Widest \/ d >= Lo(w, T)
           part  == [d \in days |-> IF keeps(d) THEN Relevant(c, OnDay(d)) ELSE {}]
           state == [d \in days |-> IF keeps(d) THEN partials[d][c] ELSE Null]
           all   == Relevant(c, InWindow(w, T))
<1>1. Bounded # << >> /\ Bounded[Len(Bounded)] = Widest
  BY DEF WidestLast
<1>2. days = {d \in Day : partials[d] # NoRow /\ Lo(Widest, T) <= d /\ d <= Hi(T)}
  BY <1>1 DEF Scanned
<1>3. /\ Lo(w, T) \in Int /\ Hi(T) \in Int /\ Hi(T) <= T /\ Lo(Widest, T) <= Lo(w, T)
      /\ Lo(Widest, T) \in Int
  BY BoundsType, WindowsType, SpecAssumption DEF Lo, Day
<1>4. \A r : r \in all <=> \E d \in days : r \in part[d]
  <2>1. ASSUME NEW r \in all PROVE r.day \in days /\ r \in part[r.day]
    <3>1. /\ r \in counted /\ Guarded(c, r) # Null
          /\ r.day \in Day /\ Lo(w, T) <= r.day /\ r.day <= Hi(T)
      BY RowType DEF Relevant, InWindow
    <3>2. r \in OnDay(r.day)
      BY <3>1 DEF OnDay
    <3>3. r.day \in days
      BY <1>2, <1>3, <3>1, <3>2 DEF Day
    <3>4. keeps(r.day)
      BY <1>3, <3>1 DEF Day
    <3> QED BY <3>1, <3>2, <3>3, <3>4 DEF Relevant
  <2>2. ASSUME NEW d \in days, NEW r \in part[d] PROVE r \in all
    <3>1. keeps(d) /\ r \in counted /\ r.day = d /\ Guarded(c, r) # Null
      BY DEF Relevant, OnDay
    <3>2. Lo(w, T) <= d /\ d <= Hi(T) /\ d <= T
      BY <1>2, <1>3, <3>1 DEF Day
    <3> QED BY <3>1, <3>2 DEF Relevant, InWindow
  <2> HIDE DEF days, part, all
  <2> QED BY <2>1, <2>2
<1>5. Fits(agg, v, all)
  <2>1. InWindow(w, T) \in SUBSET Row
    BY DEF InWindow
  <2> QED BY <2>1, RelevantFits
<1>6. RolledUp(c, w, T) = IF days = {} THEN Null ELSE Finalize(agg, StateAgg(agg, state))
  BY DEF RolledUp
<1>7. CASE days = {}
  <2>1. all = {}
    <3> HIDE DEF all, days, part
    <3> QED BY <1>4, <1>7
  <2>2. agg \in ZeroFilled => Value(agg, v, all) = 0
    <3> HIDE DEF agg, v, all
    <3> QED BY <1>5, <2>1, ValueType
  <2>3. agg \notin ZeroFilled => agg \in {"min", "max"}
    BY ColumnType DEF Aggregate, ZeroFilled
  <2>4. agg \notin ZeroFilled => Value(agg, v, all) = Null
    <3> HIDE DEF agg, v, all
    <3> QED BY <2>1, <2>3 DEF Value
  <2>5. Joined(c, w, T) = IF agg \in ZeroFilled THEN 0 ELSE Null
    BY <1>6, <1>7 DEF Joined, Coalesce
  <2> HIDE DEF agg, v, all
  <2>6. Joined(c, w, T) = Value(agg, v, all)
    BY <2>2, <2>4, <2>5
  <2> QED BY <2>6 DEF agg, v, all
<1>8. CASE days # {}
  <2>1. IsFiniteSet(days)
    <3>1. days \in SUBSET (1 .. LastDay) /\ LastDay \in Int
      BY <1>2, SpecAssumption DEF Day
    <3>2. IsFiniteSet(1 .. LastDay)
      BY ONLY <3>1, FS_Interval
    <3> HIDE DEF days
    <3> QED BY <3>1, <3>2, FS_Subset
  <2>2. ASSUME NEW d \in days
        PROVE  Fits(agg, v, part[d]) /\ Stands(agg, state[d], v, part[d])
    <3>1. CASE keeps(d)
      <4>1. OnDay(d) \in SUBSET Row
        BY DEF OnDay
      <4>2. d \in Day /\ partials[d] # NoRow
        BY <1>2
      <4>3. Holds(c, partials[d][c], OnDay(d))
        BY <4>2
      <4> QED BY <3>1, <4>1, <4>3, RelevantFits DEF Holds
    <3>2. CASE ~keeps(d)
      <4>1. part[d] = {} /\ state[d] = Null
        BY <3>2
      <4>2. agg \in Aggregate /\ Fits(agg, v, {})
        BY ColumnType, FS_EmptySet DEF Fits
      <4> HIDE DEF agg, v, part, state
      <4> QED BY <4>1, <4>2, NoRows
    <3> QED BY <3>1, <3>2
  <2>3. \A d, e \in days : d # e => part[d] \cap part[e] = {}
    BY DEF Relevant, OnDay
  <2>4. DOMAIN state = days
    OBVIOUS
  <2>5. agg \in Aggregate
    BY ColumnType
  <2> HIDE DEF agg, v, part, state, all, days
  <2>6. Stands(agg, StateAgg(agg, state), v, all)
    <3>1. \A d \in days : Fits(agg, v, part[d]) /\ Stands(agg, state[d], v, part[d])
      BY <2>2
    <3> QED BY ONLY <1>4, <2>1, <2>3, <2>4, <2>5, <3>1, StateAggStands
  <2>7. RolledUp(c, w, T) = Value(agg, v, all)
    BY <1>5, <1>6, <1>8, <2>6, Finalized
  <2>8. agg \in ZeroFilled => Value(agg, v, all) # Null
    BY <1>5, ValueType
  <2>9. Joined(c, w, T) = Value(agg, v, all)
    BY <2>7, <2>8 DEF Joined, Coalesce, agg
  <2> QED BY <2>9 DEF agg, v, all
<1> QED BY <1>7, <1>8

\* all_time: the accumulator and the tail.
LEMMA AllTimeJoined ==
    ASSUME StateInv, NEW T \in Day, NEW c \in Column, T >= watermark,
           \A d \in Day : watermark < d /\ d <= T - Late => partials[d] = NoRow
    PROVE  Joined(c, AllTime, T) = Value(c.agg, Quantity(c), Relevant(c, InWindow(AllTime, T)))
<1> USE DEF StateInv, ValuesTypeOK
<1> DEFINE agg  == c.agg
           v    == Quantity(c)
           days == {d \in Day : watermark < d /\ d <= T}
           tail == FoldOver(c, days)
           A    == Relevant(c, Upto(watermark))
           B    == Relevant(c, {r \in counted : r.day \in days})
           all  == Relevant(c, InWindow(AllTime, T))
<1>1. Joined(c, AllTime, T) =
        Finalize(agg, IF Late > 0 THEN Merge(agg, Sealed(c), tail) ELSE Sealed(c))
  BY DEF Joined
<1>2. Stands(agg, Sealed(c), v, A) /\ Stands(agg, tail, v, B)
  <2>1. days \in SUBSET Day
    OBVIOUS
  <2>2. Holds(c, FoldOver(c, days), {r \in counted : r.day \in days})
    <3> HIDE DEF days
    <3> QED BY <2>1, FoldHolds
  <2> QED BY <2>2 DEF SealIsRight, Holds
<1>3. Fits(agg, v, A) /\ Fits(agg, v, B) /\ Fits(agg, v, all)
  <2>1. /\ Upto(watermark) \in SUBSET Row /\ {r \in counted : r.day \in days} \in SUBSET Row
        /\ InWindow(AllTime, T) \in SUBSET Row
    BY DEF Upto, InWindow
  <2> HIDE DEF days
  <2> QED BY <2>1, RelevantFits
<1>4. A \cap B = {}
  BY DEF Relevant, Upto, Day
<1>5. A \cup B = all
  <2>1. ASSUME NEW r \in counted
        PROVE  r.day <= T <=> r.day <= watermark \/ r.day \in days
    BY RowType DEF Day
  <2> HIDE DEF days
  <2> QED BY <2>1 DEF Relevant, Upto, InWindow
<1>6. CASE Late > 0
  <2> HIDE DEF agg, v, A, B, all, tail
  <2>1. Stands(agg, Merge(agg, Sealed(c), tail), v, all)
    BY <1>2, <1>3, <1>4, <1>5, MergeStands
  <2>2. Joined(c, AllTime, T) = Value(agg, v, all)
    BY <1>1, <1>3, <1>6, <2>1, Finalized
  <2> QED BY <2>2 DEF agg, v, all
<1>7. CASE ~(Late > 0)
  <2>1. Late = 0
    BY <1>7, SpecAssumption
  <2>2. \A d \in days : OnDay(d) = {}
    BY <2>1, SpecAssumption DEF LayerIsRight, Day
  <2>3. B = {}
    BY <2>2 DEF Relevant, OnDay
  <2> HIDE DEF agg, v, A, B, all, tail
  <2>4. Stands(agg, Sealed(c), v, all)
    BY <1>2, <1>5, <2>3
  <2>5. Joined(c, AllTime, T) = Value(agg, v, all)
    BY <1>1, <1>3, <1>7, <2>4, Finalized
  <2> QED BY <2>5 DEF agg, v, all
<1> QED BY <1>6, <1>7

\* What BuildMart finds when it builds the partition of T.
Ready(T) ==
    /\ T \in Day /\ T >= watermark
    /\ \A d \in Day : watermark < d /\ d <= T - Late => partials[d] = NoRow

LEMMA JoinedIs ==
    ASSUME StateInv, WidestLast, NEW T, Ready(T), NEW c \in Column, NEW w \in Windows
    PROVE  Joined(c, w, T) = Value(c.agg, Quantity(c), Relevant(c, InWindow(w, T)))
BY WindowJoined, AllTimeJoined DEF Ready

\* The feature days_since: the distance to the latest, or earliest, event.
LEMMA DaysSinceIsFlat ==
    ASSUME StateInv, WidestLast, NEW T, Ready(T), NEW f \in Feature, f.field = "days_since"
    PROVE  Published(f, T) = FlatPass(f, counted, T)
<1> USE DEF StateInv, ValuesTypeOK
<1> DEFINE c == [field |-> "event_date", agg |-> IF f.agg = "min" THEN "max" ELSE "min",
                 combo |-> f.combo]
           S == Relevant(c, InWindow(f.win, T))
           v == Quantity(c)
           days == {T - r.day : r \in S}
<1>1. Inputs(f) = {c} /\ c \in Column /\ f.win \in Windows /\ f.agg \in {"min", "max"}
  BY DEF Inputs, Column, Feature
<1>2. Published(f, T) = DaysSince(Joined(c, f.win, T), T)
  <2>1. (CHOOSE x \in {c} : TRUE) = c /\ (CHOOSE x \in {c} : x.agg = c.agg) = c
    OBVIOUS
  <2> HIDE DEF c
  <2> QED BY <1>1, <2>1 DEF Published
<1>3. Joined(c, f.win, T) = Value(c.agg, v, S)
  <2> HIDE DEF c
  <2> QED BY <1>1, JoinedIs
<1>4. Fits(c.agg, v, S)
  <2>1. InWindow(f.win, T) \in SUBSET Row
    BY DEF InWindow
  <2> HIDE DEF c
  <2> QED BY <1>1, <2>1, RelevantFits
<1>5. \A r \in counted : /\ r.day \in Int /\ r.day # Null
                         /\ Guarded(c, r) = IF c.combo = "hit" /\ ~r.hit THEN Null ELSE r.day
  BY RowType, NullAssumption DEF Guarded
<1>6. S = {r \in counted : /\ r.day <= T
                           /\ f.win # AllTime => Lo(f.win, T) <= r.day /\ r.day <= Hi(T)
                           /\ f.combo = "hit" => r.hit}
  <2>1. \A r \in counted : Guarded(c, r) # Null <=> (f.combo = "hit" => r.hit)
    BY <1>5
  <2> HIDE DEF c
  <2> QED BY <2>1 DEF Relevant, InWindow
<1>7. FlatPass(f, counted, T) = IF days = {} THEN Null ELSE IF f.agg = "min" THEN Min(days) ELSE Max(days)
  BY <1>6 DEF FlatPass
<1>8. \A r \in S : v[r] = r.day /\ r.day \in Int
  <2>1. \A r \in S : r \in counted /\ r \in Row /\ Guarded(c, r) # Null
    BY DEF Relevant, InWindow
  <2> HIDE DEF S
  <2> QED BY <1>5, <2>1 DEF Quantity
<1>9. /\ IsFiniteSet(ValuesOf(v, S)) /\ ValuesOf(v, S) \subseteq Int
      /\ S # {} => ValuesOf(v, S) # {}
  <2>1. S # {} => ValuesOf(v, S) # {}
    BY DEF ValuesOf
  <2> HIDE DEF c, S, v
  <2> QED BY <1>4, <2>1, ValuesType
<1>10. T \in Int /\ days \subseteq Int /\ (days = {} <=> S = {})
  <2>1. T \in Int
    BY DEF Ready, Day
  <2> HIDE DEF S, v
  <2> QED BY <1>8, <2>1
<1>11. CASE S = {}
  <2>1. Value(c.agg, v, S) = Null
    <3>1. c.agg \in {"min", "max"}
      OBVIOUS
    <3> HIDE DEF c, v, S
    <3> QED BY <1>11, <3>1 DEF Value
  <2> HIDE DEF c, v, S, days
  <2> QED BY <1>2, <1>3, <1>7, <1>10, <1>11, <2>1 DEF DaysSince
<1>12. CASE S # {} /\ f.agg = "min"
  <2> DEFINE m == Max(ValuesOf(v, S))
  <2>1. m \in ValuesOf(v, S) /\ \A y \in ValuesOf(v, S) : y <= m
    <3> HIDE DEF S, v
    <3> QED BY <1>9, <1>12, MaxIs
  <2>2. PICK r \in S : m = v[r]
    BY <2>1 DEF ValuesOf
  <2>3. \A q \in S : v[q] <= m
    BY <2>1 DEF ValuesOf
  <2> HIDE DEF m, S, v
  <2>4. m \in Int /\ T - m \in days
    BY <1>8, <2>2
  <2>5. \A y \in days : T - m <= y
    BY <1>8, <1>10, <2>3, <2>4
  <2>6. Min(days) = T - m
    <3> HIDE DEF days
    <3> QED BY <1>10, <2>4, <2>5, MinUnique
  <2>7. Value(c.agg, v, S) = m
    BY <1>12 DEF Value, m
  <2>8. days # {} /\ m # Null
    BY <2>4, NullAssumption
  <2> HIDE DEF c, days
  <2> QED BY <1>2, <1>3, <1>7, <1>12, <2>6, <2>7, <2>8 DEF DaysSince
<1>13. CASE S # {} /\ f.agg = "max"
  <2> DEFINE m == Min(ValuesOf(v, S))
  <2>1. m \in ValuesOf(v, S) /\ \A y \in ValuesOf(v, S) : m <= y
    <3> HIDE DEF S, v
    <3> QED BY <1>9, <1>13, MinIs
  <2>2. PICK r \in S : m = v[r]
    BY <2>1 DEF ValuesOf
  <2>3. \A q \in S : m <= v[q]
    BY <2>1 DEF ValuesOf
  <2> HIDE DEF m, S, v
  <2>4. m \in Int /\ T - m \in days
    BY <1>8, <2>2
  <2>5. \A y \in days : y <= T - m
    BY <1>8, <1>10, <2>3, <2>4
  <2>6. Max(days) = T - m
    <3> HIDE DEF days
    <3> QED BY <1>10, <2>4, <2>5, MaxUnique
  <2>7. Value(c.agg, v, S) = m
    BY <1>13 DEF Value, m
  <2>8. days # {} /\ m # Null
    BY <2>4, NullAssumption
  <2> HIDE DEF c, days
  <2> QED BY <1>2, <1>3, <1>7, <1>13, <2>6, <2>7, <2>8 DEF DaysSince
<1> QED BY <1>1, <1>11, <1>12, <1>13

LEMMA AmountIsFlat ==
    ASSUME StateInv, WidestLast, NEW T, Ready(T), NEW f \in Feature, f.field # "days_since"
    PROVE  Published(f, T) = FlatPass(f, counted, T)
<1> USE DEF StateInv, ValuesTypeOK
<1> DEFINE col(agg) == [field |-> "amount", agg |-> agg, combo |-> f.combo]
           due  == {r \in counted : /\ r.day <= T
                                    /\ f.win # AllTime => Lo(f.win, T) <= r.day /\ r.day <= Hi(T)
                                    /\ f.combo = "hit" => r.hit}
           some == {r \in due : r.val # Null}
           v    == [r \in Row |-> r.val]
           sum  == Total([r \in some |-> r.val], some)
           vals == {r.val : r \in some}
<1>1. /\ f.field = "amount" /\ f.agg \in Aggs /\ f.agg \in Aggregate \cup {"avg"}
      /\ f.combo \in {"all", "hit"} /\ f.win \in Windows
  BY SpecAssumption DEF Feature
<1>2. Inputs(f) = IF f.agg = "avg" THEN {col("sum"), col("count")} ELSE {col(f.agg)}
  BY <1>1 DEF Inputs
<1>3. some \subseteq Row /\ IsFiniteSet(some)
  BY RowAssumption, FS_Subset
<1>4. ASSUME NEW agg, col(agg) \in Inputs(f)
      PROVE  Fits(agg, v, some) /\ Joined(col(agg), f.win, T) = Value(agg, v, some)
  <2> DEFINE c == col(agg)
             S == Relevant(c, InWindow(f.win, T))
  <2>1. c \in Column
    BY <1>4 DEF Column
  <2>2. S = some
    <3>1. \A r \in counted : Guarded(c, r) # Null <=> (f.combo = "hit" => r.hit) /\ r.val # Null
      BY DEF Guarded
    <3> HIDE DEF c
    <3> QED BY <3>1 DEF Relevant, InWindow
  <2>3. \A r \in S : Quantity(c)[r] = v[r]
    BY DEF Relevant, InWindow, Quantity, Guarded
  <2>4. Fits(c.agg, Quantity(c), S)
    <3>1. InWindow(f.win, T) \in SUBSET Row
      BY DEF InWindow
    <3> HIDE DEF c
    <3> QED BY <2>1, <3>1, RelevantFits
  <2>5. Joined(c, f.win, T) = Value(c.agg, Quantity(c), S)
    <3> HIDE DEF c
    <3> QED BY <1>1, <2>1, JoinedIs
  <2>6. c.agg = agg
    OBVIOUS
  <2> HIDE DEF c, S, v, some
  <2>7. Fits(agg, v, S)
    BY <2>3, <2>4, <2>6 DEF Fits
  <2>8. ValuesOf(Quantity(c), S) = ValuesOf(v, S)
    BY <2>3 DEF ValuesOf
  <2>9. HashesOf(Quantity(c), S) = HashesOf(v, S)
    BY <2>8 DEF HashesOf
  <2>10. Total(Quantity(c), S) = Total(v, S)
    BY <2>3, <2>4, TotalSame DEF Fits
  <2>11. Value(agg, Quantity(c), S) = Value(agg, v, S)
    BY <2>8, <2>9, <2>10 DEF Value
  <2> QED BY <2>2, <2>5, <2>6, <2>7, <2>11 DEF c
<1>5. vals = ValuesOf(v, some)
  BY DEF ValuesOf
<1>6. {Hash[x] : x \in vals} = HashesOf(v, some)
  <2> HIDE DEF vals
  <2> QED BY <1>5 DEF HashesOf
<1>7. vals = {} <=> some = {}
  OBVIOUS
<1>8. ASSUME NEW agg, col(agg) \in Inputs(f) PROVE sum = Total(v, some)
  <2>1. \A r \in some : v[r] \in Int /\ v[r] = [q \in some |-> q.val][r]
    <3>1. Fits(agg, v, some)
      BY <1>4, <1>8
    <3> QED BY <3>1 DEF Fits
  <2> HIDE DEF v
  <2> QED BY <1>3, <2>1, TotalSame
<1>9. FlatPass(f, counted, T) =
        CASE f.agg = "count"           -> Cardinality(some)
          [] f.agg = "sum"             -> sum
          [] f.agg = "min"             -> IF vals = {} THEN Null ELSE Min(vals)
          [] f.agg = "max"             -> IF vals = {} THEN Null ELSE Max(vals)
          [] f.agg = "avg"             -> Average(sum, Cardinality(some))
          [] f.agg = "distinct_exact"  -> Cardinality(vals)
          [] f.agg = "distinct_approx" -> Estimate(Smallest({Hash[x] : x \in vals}, K))
  BY <1>1 DEF FlatPass
<1>10. CASE f.agg = "avg"
  <2> DEFINE s == col("sum")
             n == col("count")
  <2>1. Inputs(f) = {s, n} /\ s.agg = "sum" /\ n.agg = "count"
    BY <1>2, <1>10
  <2>2. (CHOOSE c \in {s, n} : c.agg = "sum") = s /\ (CHOOSE c \in {s, n} : c.agg = "count") = n
    OBVIOUS
  <2>3. Published(f, T) = Average(Joined(s, f.win, T), Joined(n, f.win, T))
    <3> HIDE DEF s, n
    <3> QED BY <1>1, <1>10, <2>1, <2>2 DEF Published
  <2>4. /\ Joined(s, f.win, T) = Value("sum", v, some)
        /\ Joined(n, f.win, T) = Value("count", v, some)
    BY <1>4, <2>1
  <2>5. Value("sum", v, some) = sum /\ Value("count", v, some) = Cardinality(some)
    <3>1. sum = Total(v, some)
      BY <1>8, <2>1
    <3> HIDE DEF v, some, sum
    <3> QED BY <3>1 DEF Value
  <2> HIDE DEF s, n, some, sum, vals, v
  <2> QED BY <1>9, <1>10, <2>3, <2>4, <2>5
<1>11. CASE f.agg # "avg"
  <2> DEFINE c == col(f.agg)
  <2>1. Inputs(f) = {c} /\ c.agg = f.agg
    BY <1>2, <1>11
  <2>2. Published(f, T) = Joined(c, f.win, T)
    <3>1. (CHOOSE x \in {c} : TRUE) = c /\ (CHOOSE x \in {c} : x.agg = c.agg) = c
      OBVIOUS
    <3> HIDE DEF c
    <3> QED BY <1>1, <1>11, <2>1, <3>1 DEF Published
  <2>3. Joined(c, f.win, T) = Value(f.agg, v, some)
    BY <1>4, <2>1
  <2>4. sum = Total(v, some)
    BY <1>8, <2>1
  <2>5. f.agg \in {"count", "sum", "min", "max", "distinct_exact", "distinct_approx"}
    BY <1>1, <1>11 DEF Aggregate, Sets
  <2> HIDE DEF c, some, sum, vals, v
  <2>6. FlatPass(f, counted, T) = Value(f.agg, v, some)
    BY <1>5, <1>6, <1>7, <1>9, <2>4, <2>5 DEF Value
  <2> QED BY <2>2, <2>3, <2>6
<1> QED BY <1>10, <1>11

LEMMA PublishedIsFlat ==
    ASSUME StateInv, WidestLast, NEW T, Ready(T), NEW f \in Feature
    PROVE  Published(f, T) = FlatPass(f, counted, T)
BY DaysSinceIsFlat, AmountIsFlat

LEMMA NextState ==
    ASSUME StateInv, [Next]_vars
    PROVE  StateInv'
<1>1. ASSUME NEW d \in Day, NEW rows \in SUBSET {r \in Row : r.day = d}, BuildPartials(d, rows)
      PROVE  StateInv'
  BY <1>1, PartialsKeepState
<1>2. ASSUME NEW T \in Day, BuildState(T) PROVE StateInv'
  BY <1>2, SealKeepsState
<1>3. ASSUME UNCHANGED <<partials, sealed, watermark, counted>> PROVE StateInv'
  BY <1>3 DEF StateInv, ValuesTypeOK, LayerIsRight, SealIsRight, Holds, Relevant, Quantity,
              OnDay, Upto, Sealed
<1> QED BY <1>1, <1>2, <1>3 DEF Next, BuildMart, vars

\* The partition last built is of a date, and of the rows counted when it was built.
MartTypeOK == mart # NoMart => mart.date \in Day /\ seen \subseteq Row

ValuesInv == StateInv /\ MartTypeOK /\ ValuesExact

LEMMA NextValues ==
    ASSUME WidestLast, ValuesInv, [Next]_vars
    PROVE  ValuesInv'
<1>1. StateInv'
  BY NextState DEF ValuesInv
<1>2. ASSUME NEW T \in Day, BuildMart(T) PROVE MartTypeOK' /\ ValuesExact'
  <2>1. mart' = [date |-> T, value |-> [f \in Feature |-> Published(f, T)]] /\ seen' = counted
    BY <1>2 DEF BuildMart
  <2>2. Ready(T)
    BY <1>2 DEF BuildMart, Ready
  <2>3. \A f \in Feature : Published(f, T) = FlatPass(f, counted, T)
    BY <2>2, PublishedIsFlat DEF ValuesInv
  <2>4. ValuesExact'
    BY <2>1, <2>3 DEF ValuesExact
  <2>5. MartTypeOK'
    BY <2>1 DEF MartTypeOK, ValuesInv, StateInv, ValuesTypeOK
  <2> QED BY <2>4, <2>5
<1>3. ASSUME UNCHANGED <<mart, seen>> PROVE MartTypeOK' /\ ValuesExact'
  BY <1>3 DEF MartTypeOK, ValuesExact, ValuesInv
<1>4. MartTypeOK' /\ ValuesExact'
  BY <1>2, <1>3 DEF Next, BuildPartials, BuildState, vars
<1> QED BY <1>1, <1>4 DEF ValuesInv

LEMMA AlwaysValues == ASSUME WidestLast PROVE Spec => []ValuesInv
<1>1. Init => ValuesInv
  BY InitState DEF Init, ValuesInv, MartTypeOK, ValuesExact
<1>2. ValuesInv /\ [Next]_vars => ValuesInv'
  BY NextValues
<1> QED BY <1>1, <1>2, PTL DEF Spec

\* The windows and all_time are one fold over different ranges: for any rows, windows,
\* aggregations, k and hash, and however the days are grouped, rewritten, sealed and merged,
\* every published feature is what one flat pass over its rows gives.
THEOREM ValuesAreExact ==
    ASSUME WidestLast
    PROVE  Spec => []ValuesExact
<1>1. ValuesInv => ValuesExact
  BY DEF ValuesInv
<1> QED BY <1>1, AlwaysValues, PTL

-----------------------------------------------------------------------------
(***************************************************************************)
(* What follows for the registry and for sketches that are not full.       *)
(***************************************************************************)

Amount == [r \in Row |-> r.val]

Due(f, rows, T) ==
    {r \in rows : /\ r.day <= T
                  /\ f.win # AllTime => Lo(f.win, T) <= r.day /\ r.day <= Hi(T)
                  /\ f.combo = "hit" => r.hit}
Some(f, rows, T) == {r \in Due(f, rows, T) : r.val # Null}

\* The features of amount, whether or not the spec asks for them, except averages.
AmountFeature == [field : {"amount"}, agg : Aggregate, combo : {"all", "hit"}, win : Windows]

LEMMA FlatIsValue ==
    ASSUME NEW rows \in SUBSET Row, NEW T, NEW f \in AmountFeature
    PROVE  /\ Fits(f.agg, Amount, Some(f, rows, T))
           /\ FlatPass(f, rows, T) = Value(f.agg, Amount, Some(f, rows, T))
<1> DEFINE S    == Some(f, rows, T)
           sum  == Total([r \in S |-> r.val], S)
           vals == {r.val : r \in S}
<1>1. f.field = "amount" /\ f.agg \in Aggregate
  BY DEF AmountFeature
<1>2. S \subseteq Row /\ IsFiniteSet(S)
  BY RowAssumption, FS_Subset DEF Some, Due
<1>3. \A r \in S : /\ Amount[r] = r.val /\ Amount[r] \in Int /\ Amount[r] \in DOMAIN Hash
                   /\ [q \in S |-> q.val][r] = Amount[r]
  BY RowType DEF Some, Due, Amount
<1>4. Fits(f.agg, Amount, S)
  <2> HIDE DEF S
  <2> QED BY <1>1, <1>2, <1>3 DEF Fits
<1>5. sum = Total(Amount, S)
  <2> HIDE DEF S
  <2> QED BY <1>2, <1>3, TotalSame
<1>6. vals = ValuesOf(Amount, S) /\ (vals = {} <=> S = {})
  BY <1>3 DEF ValuesOf
<1>7. {Hash[x] : x \in vals} = HashesOf(Amount, S)
  BY <1>6 DEF HashesOf
<1>8. FlatPass(f, rows, T) =
        CASE f.agg = "count"           -> Cardinality(S)
          [] f.agg = "sum"             -> sum
          [] f.agg = "min"             -> IF vals = {} THEN Null ELSE Min(vals)
          [] f.agg = "max"             -> IF vals = {} THEN Null ELSE Max(vals)
          [] f.agg = "avg"             -> Average(sum, Cardinality(S))
          [] f.agg = "distinct_exact"  -> Cardinality(vals)
          [] f.agg = "distinct_approx" -> Estimate(Smallest({Hash[x] : x \in vals}, K))
  BY <1>1 DEF FlatPass, Some, Due
<1>9. FlatPass(f, rows, T) = Value(f.agg, Amount, S)
  <2> HIDE DEF S, sum, vals
  <2> QED BY <1>1, <1>5, <1>6, <1>7, <1>8 DEF Value, Aggregate, Sets
<1> QED BY <1>4, <1>9

LEMMA FeatureKinds ==
    ASSUME NEW f \in Feature
    PROVE  /\ f.combo \in {"all", "hit"} /\ f.win \in Windows
           /\ \/ f.field = "days_since" /\ f.agg \in {"min", "max"}
              \/ f.field = "amount" /\ f.agg = "avg"
              \/ f \in AmountFeature
BY SpecAssumption DEF Feature, AmountFeature

\* A feature that the registry declares not nullable has a value in every partition.
THEOREM RegistryTellsTheTruth ==
    ASSUME WidestLast
    PROVE  Spec => []NullsAsRegistered
<1>1. ValuesInv => NullsAsRegistered
  <2> SUFFICES ASSUME ValuesInv, mart # NoMart, NEW f \in Feature, ~Nullable(f)
               PROVE  mart.value[f] # Null
    BY DEF NullsAsRegistered
  <2>1. mart.value[f] = FlatPass(f, seen, mart.date) /\ seen \in SUBSET Row
    BY DEF ValuesInv, ValuesExact, MartTypeOK
  <2>2. f \in AmountFeature /\ f.agg \in ZeroFilled
    BY FeatureKinds DEF Nullable, AmountFeature, Aggregate, ZeroFilled
  <2> QED BY <2>1, <2>2, FlatIsValue, ValueType
<1> QED BY <1>1, AlwaysValues, PTL

\* The hash keeps apart the values that are counted.
HashesDiffer == \A x, y \in DOMAIN Hash \ {Null} : Hash[x] = Hash[y] => x = y

\* Below k distinct values the estimate is the number of them, in whatever order and grouping
\* the sketches of the days were merged.
THEOREM SketchesAreExactBelowK ==
    ASSUME WidestLast, HashesDiffer
    PROVE  Spec => []SketchesExactBelowK
<1>1. ValuesInv => SketchesExactBelowK
  <2> SUFFICES ASSUME ValuesInv, mart # NoMart, NEW f \in Feature, f.agg = "distinct_approx",
                      FlatPass([f EXCEPT !.agg = "distinct_exact"], seen, mart.date) < K
               PROVE  mart.value[f] =
                        FlatPass([f EXCEPT !.agg = "distinct_exact"], seen, mart.date)
    BY DEF SketchesExactBelowK
  <2> DEFINE T == mart.date
             g == [f EXCEPT !.agg = "distinct_exact"]
             S == Some(f, seen, T)
             V == ValuesOf(Amount, S)
             H == HashesOf(Amount, S)
  <2>1. mart.value[f] = FlatPass(f, seen, T) /\ seen \in SUBSET Row
    BY DEF ValuesInv, ValuesExact, MartTypeOK
  <2>2. f \in AmountFeature /\ g \in AmountFeature /\ g.agg = "distinct_exact"
        /\ g.win = f.win /\ g.combo = f.combo
    BY FeatureKinds DEF AmountFeature, Aggregate, Sets
  <2>3. Some(g, seen, T) = S
    BY <2>2 DEF Some, Due
  <2>4. Fits(f.agg, Amount, S) /\ FlatPass(f, seen, T) = Value(f.agg, Amount, S)
    BY <2>1, <2>2, FlatIsValue
  <2>5. FlatPass(g, seen, T) = Value(g.agg, Amount, S)
    <3> HIDE DEF g, S
    <3> QED BY <2>1, <2>2, <2>3, FlatIsValue
  <2>6. mart.value[f] = Estimate(Smallest(H, K)) /\ FlatPass(g, seen, T) = Cardinality(V)
    BY <2>1, <2>2, <2>4, <2>5 DEF Value
  <2>7. /\ IsFiniteSet(V) /\ V \subseteq DOMAIN Hash \ {Null}
        /\ IsFiniteSet(H) /\ Smallest(H, K) # Null
    <3>1. f.agg \in Sets
      BY DEF Sets
    <3> HIDE DEF S
    <3> QED BY <2>4, <3>1, ValuesType, ArraysAreNotNull, NullAssumption
  <2>8. Cardinality(H) = Cardinality(V)
    <3> DEFINE h == [x \in V |-> Hash[x]]
    <3>1. h \in Injection(V, H)
      BY <2>7 DEF HashesDiffer, HashesOf, Injection, IsInjective
    <3>2. h \in Surjection(V, H)
      BY DEF HashesOf, Surjection
    <3> HIDE DEF h, V, H
    <3> QED BY <2>7, <3>1, <3>2, FS_Injection
  <2>9. Smallest(H, K) = H
    <3>1. Cardinality(H) < K /\ Cardinality(H) \in Nat
      BY <2>6, <2>7, <2>8, FS_CardinalityType
    <3>2. ASSUME NEW x \in H PROVE Cardinality({y \in H : y < x}) < K
      <4>1. {y \in H : y < x} \in SUBSET H
        OBVIOUS
      <4>2. /\ Cardinality({y \in H : y < x}) \in Nat
            /\ Cardinality({y \in H : y < x}) <= Cardinality(H)
        <5> HIDE DEF H
        <5> QED BY <2>7, <4>1, FS_Subset, FS_CardinalityType
      <4> QED BY <3>1, <4>2, KmvAssumption
    <3> HIDE DEF H
    <3> QED BY <3>2 DEF Smallest
  <2>10. ArraySize(H) = Cardinality(H) /\ Cardinality(H) < K
    BY <2>6, <2>7, <2>8, <2>9 DEF ArraySize
  <2>11. Estimate(H) = Cardinality(H)
    <3> HIDE DEF H
    <3> QED BY <2>10 DEF Estimate
  <2> HIDE DEF H, V, g
  <2>12. mart.value[f] = FlatPass(g, seen, T)
    BY <2>6, <2>8, <2>9, <2>11
  <2> QED BY <2>12 DEF g
<1> QED BY <1>1, AlwaysValues, PTL

-----------------------------------------------------------------------------
(***************************************************************************)
(* What follows for the generated tests.                                   *)
(***************************************************************************)

\* The features that are a minimum or a maximum, and the numbers that they are of.
ExtremeFeature ==
    [field : {"amount", "days_since"}, agg : {"min", "max"}, combo : {"all", "hit"}, win : Windows]

Numbers(f, rows, T) ==
    IF f.field = "days_since" THEN {T - r.day : r \in Due(f, rows, T)}
                              ELSE {r.val : r \in Some(f, rows, T)}

LEMMA FlatIsExtreme ==
    ASSUME NEW rows \in SUBSET Row, NEW T \in Day, NEW f \in ExtremeFeature
    PROVE  /\ IsFiniteSet(Numbers(f, rows, T)) /\ Numbers(f, rows, T) \subseteq Int
           /\ FlatPass(f, rows, T) =
                IF Numbers(f, rows, T) = {} THEN Null
                ELSE IF f.agg = "min" THEN Min(Numbers(f, rows, T)) ELSE Max(Numbers(f, rows, T))
<1>1. /\ f.field \in {"amount", "days_since"} /\ f.agg \in {"min", "max"} /\ T \in Int
      /\ (f.field # "days_since" => f.field = "amount") /\ (f.agg # "min" => f.agg = "max")
  BY DEF ExtremeFeature, Day
<1>2. Due(f, rows, T) \subseteq Row /\ Some(f, rows, T) \subseteq Row
  BY DEF Due, Some
<1>3. IsFiniteSet(Due(f, rows, T)) /\ IsFiniteSet(Some(f, rows, T))
  BY <1>2, RowAssumption, FS_Subset
<1>4. CASE f.field = "days_since"
  <2> DEFINE D   == Due(f, rows, T)
             far == [r \in D |-> T - r.day]
  <2>1. Numbers(f, rows, T) = {T - r.day : r \in D}
    BY <1>4 DEF Numbers
  <2>2. {T - r.day : r \in D} = {far[r] : r \in D}
    OBVIOUS
  <2>3. \A r \in D : T - r.day \in Int
    <3>1. \A r \in D : r.day \in Int
      BY <1>2, RowType
    <3> HIDE DEF D
    <3> QED BY <1>1, <3>1
  <2>4. IsFiniteSet({far[r] : r \in D})
    <3> HIDE DEF far, D
    <3> QED BY <1>3, FiniteImage DEF D
  <2>5. FlatPass(f, rows, T) = LET days == {T - r.day : r \in D} IN
            IF days = {} THEN Null ELSE IF f.agg = "min" THEN Min(days) ELSE Max(days)
    BY <1>4 DEF FlatPass, Due
  <2> HIDE DEF D, far
  <2> QED BY <2>1, <2>2, <2>3, <2>4, <2>5
<1>5. CASE f.field = "amount"
  <2> DEFINE S   == Some(f, rows, T)
             val == [r \in S |-> r.val]
  <2>1. Numbers(f, rows, T) = {r.val : r \in S}
    BY <1>5 DEF Numbers
  <2>2. {r.val : r \in S} = {val[r] : r \in S}
    OBVIOUS
  <2>3. \A r \in S : r.val \in Int
    BY <1>2, RowType DEF Some
  <2>4. IsFiniteSet({val[r] : r \in S})
    <3> HIDE DEF val, S
    <3> QED BY <1>3, FiniteImage DEF S
  <2>5. FlatPass(f, rows, T) = LET vals == {r.val : r \in S} IN
            IF vals = {} THEN Null ELSE IF f.agg = "min" THEN Min(vals) ELSE Max(vals)
    <3>1. CASE f.agg = "min"
      BY <1>5, <3>1 DEF FlatPass, Some, Due
    <3>2. CASE f.agg = "max"
      BY <1>5, <3>2 DEF FlatPass, Some, Due
    <3> QED BY <1>1, <3>1, <3>2
  <2> HIDE DEF S, val
  <2> QED BY <2>1, <2>2, <2>3, <2>4, <2>5
<1> QED BY <1>1, <1>4, <1>5

LEMMA FeatureShape ==
    ASSUME NEW f \in Feature
    PROVE  \/ f \in ExtremeFeature
           \/ f \in AmountFeature /\ f.agg \in ZeroFilled
           \/ f.field = "amount" /\ f.agg = "avg"
BY SpecAssumption DEF Feature, ExtremeFeature, AmountFeature, Aggregate, ZeroFilled, Sets

\* No amount is negative, as the monotonicity test of a sum presumes.
AmountsNotNegative == \A r \in Row : r.val # Null => r.val >= 0

LEMMA SomeNotNegative ==
    ASSUME AmountsNotNegative, NEW rows \in SUBSET Row, NEW T, NEW f
    PROVE  \A r \in Some(f, rows, T) : Amount[r] >= 0
BY DEF AmountsNotNegative, Some, Due, Amount

\* Of two zero-filled features with the same aggregation, the one with more rows is greater.
LEMMA FlatGrows ==
    ASSUME AmountsNotNegative, NEW rows \in SUBSET Row, NEW T,
           NEW f \in AmountFeature, NEW g \in AmountFeature, f.agg = g.agg, f.agg \in ZeroFilled,
           Some(f, rows, T) \subseteq Some(g, rows, T)
    PROVE  ~(FlatPass(f, rows, T) > FlatPass(g, rows, T))
<1> DEFINE A == Some(f, rows, T)
           S == Some(g, rows, T)
<1>1. /\ FlatPass(f, rows, T) = Value(f.agg, Amount, A) /\ Fits(f.agg, Amount, A)
      /\ FlatPass(g, rows, T) = Value(f.agg, Amount, S) /\ Fits(f.agg, Amount, S)
  BY FlatIsValue
<1>2. \A r \in S : Amount[r] >= 0
  BY SomeNotNegative
<1> HIDE DEF A, S
<1>3. Value(f.agg, Amount, A) <= Value(f.agg, Amount, S)
  BY <1>1, <1>2, ValueGrows DEF A, S
<1>4. Value(f.agg, Amount, A) \in Int /\ Value(f.agg, Amount, S) \in Int
  BY <1>1, ValueType
<1> QED BY <1>1, <1>3, <1>4

LEMMA NoneNegative ==
    ASSUME AmountsNotNegative, ValuesInv, mart # NoMart, NEW f \in Feature
    PROVE  ~Negative(f)
<1> SUFFICES ASSUME f.agg \in {"count"} \cup Sets PROVE ~(mart.value[f] < 0)
  BY DEF Negative
<1> DEFINE S == Some(f, seen, mart.date)
<1>1. mart.value[f] = FlatPass(f, seen, mart.date) /\ seen \in SUBSET Row
  BY DEF ValuesInv, ValuesExact, MartTypeOK
<1>2. f \in AmountFeature /\ f.agg \in ZeroFilled /\ f.agg # "sum"
  BY FeatureShape DEF ExtremeFeature, Sets, ZeroFilled
<1>3. FlatPass(f, seen, mart.date) = Value(f.agg, Amount, S) /\ Fits(f.agg, Amount, S)
  BY <1>1, <1>2, FlatIsValue
<1>4. \A r \in S : Amount[r] >= 0
  BY <1>1, SomeNotNegative
<1>5. S \in SUBSET S
  OBVIOUS
<1> HIDE DEF S
<1>6. Value(f.agg, Amount, S) \in Nat
  BY <1>2, <1>3, <1>4, <1>5, ValueGrows
<1> QED BY <1>1, <1>3, <1>6

LEMMA AllCoherent ==
    ASSUME AmountsNotNegative, ValuesInv, mart # NoMart, NEW f \in Feature
    PROVE  ~Incoherent(f)
<1> DEFINE T == mart.date
           above(g) == g \in Feature /\ mart.value[f] # Null /\ mart.value[g] # Null
                       /\ mart.value[f] > mart.value[g]
<1>1. /\ seen \in SUBSET Row /\ T \in Day
      /\ \A g \in Feature : mart.value[g] = FlatPass(g, seen, T)
  BY DEF ValuesInv, ValuesExact, MartTypeOK
<1>2. ASSUME f.agg \in {"count"} \cup Sets PROVE ~above(With(f, f.agg, "all"))
  <2> DEFINE g == With(f, f.agg, "all")
  <2>1. f \in AmountFeature /\ f.agg \in ZeroFilled
    BY <1>2, FeatureShape DEF ExtremeFeature, Sets, ZeroFilled
  <2>2. g \in AmountFeature /\ g.agg = f.agg /\ g.win = f.win /\ g.combo = "all"
    BY <2>1 DEF With, AmountFeature
  <2> HIDE DEF g
  <2>3. Some(f, seen, T) \subseteq Some(g, seen, T)
    BY <2>2 DEF Some, Due
  <2>4. ~(FlatPass(f, seen, T) > FlatPass(g, seen, T))
    <3> HIDE DEF T
    <3> QED BY <1>1, <2>1, <2>2, <2>3, FlatGrows
  <2>5. ~above(g)
    BY <1>1, <2>4
  <2> QED BY <2>5 DEF g
<1>3. ASSUME f.agg = "min" PROVE ~above(With(f, "max", f.combo))
  <2> DEFINE g == With(f, "max", f.combo)
             N == Numbers(f, seen, T)
  <2>1. f \in ExtremeFeature
    BY <1>3, FeatureShape DEF ZeroFilled, Sets
  <2>2. /\ g \in ExtremeFeature /\ g.agg = "max"
        /\ g.win = f.win /\ g.combo = f.combo /\ g.field = f.field
    BY <2>1 DEF With, ExtremeFeature
  <2> HIDE DEF g
  <2>3. Numbers(g, seen, T) = N
    BY <2>2 DEF Numbers, Some, Due
  <2> HIDE DEF T, N
  <2>4. /\ IsFiniteSet(N) /\ N \subseteq Int
        /\ FlatPass(f, seen, T) = IF N = {} THEN Null ELSE Min(N)
        /\ FlatPass(g, seen, T) = IF N = {} THEN Null ELSE Max(N)
    BY <1>1, <1>3, <2>1, <2>2, <2>3, FlatIsExtreme DEF N
  <2>5. ASSUME N # {} PROVE ~(Min(N) > Max(N))
    <3>1. N \in SUBSET N
      OBVIOUS
    <3>2. Min(N) \in Int /\ Max(N) \in Int /\ Min(N) <= Max(N)
      BY <2>4, <2>5, <3>1, ExtremesNest
    <3> QED BY <3>2
  <2>6. ~above(g)
    BY <1>1, <2>4, <2>5
  <2> QED BY <2>6 DEF g
<1>4. ASSUME f.agg = "distinct_exact" PROVE ~above(With(f, "count", f.combo))
  <2> DEFINE g == With(f, "count", f.combo)
             S == Some(f, seen, T)
             V == ValuesOf(Amount, S)
  <2>1. f \in AmountFeature
    BY <1>4, FeatureShape DEF ExtremeFeature
  <2>2. g \in AmountFeature /\ g.agg = "count" /\ g.win = f.win /\ g.combo = f.combo
    BY <2>1 DEF With, AmountFeature, Aggregate
  <2> HIDE DEF g
  <2>3. Some(g, seen, T) = S
    BY <2>2 DEF Some, Due
  <2>4. IsFiniteSet(S)
    BY <1>1, RowAssumption, FS_Subset DEF Some, Due
  <2>5. /\ FlatPass(f, seen, T) = Value(f.agg, Amount, S)
        /\ FlatPass(g, seen, T) = Value(g.agg, Amount, S)
    BY <1>1, <2>1, <2>2, <2>3, FlatIsValue
  <2>6. FlatPass(f, seen, T) = Cardinality(V) /\ FlatPass(g, seen, T) = Cardinality(S)
    BY <1>4, <2>2, <2>5 DEF Value
  <2>7. Cardinality(V) <= Cardinality(S) /\ Cardinality(V) \in Nat /\ Cardinality(S) \in Nat
    <3> DEFINE val == [r \in S |-> Amount[r]]
    <3>1. val \in Surjection(S, V)
      BY DEF ValuesOf, Surjection
    <3> HIDE DEF val, S, V
    <3> QED BY <2>4, <3>1, FS_Surjection, FS_CardinalityType
  <2> HIDE DEF S, V
  <2>8. ~above(g)
    BY <1>1, <2>6, <2>7
  <2> QED BY <2>8 DEF g
<1> HIDE DEF above, T
<1> QED BY <1>2, <1>3, <1>4 DEF Incoherent, above, T

LEMMA AllMonotone ==
    ASSUME AmountsNotNegative, ValuesInv, mart # NoMart, NEW f \in Feature, f.agg # "avg"
    PROVE  ~NotMonotone(f)
<1> DEFINE T == mart.date
           x == mart.value[f]
<1> SUFFICES ASSUME f.agg # "distinct_approx", NEW w \in Windows, NextWider(f.win, w),
                    x # Null, NEW g, g = [f EXCEPT !.win = w]
             PROVE  /\ mart.value[g] # Null =>
                          ~(IF f.agg \in Grows THEN x > mart.value[g] ELSE x < mart.value[g])
                    /\ f.agg \in {"min", "max"} => mart.value[g] # Null
  BY DEF NotMonotone
<1>1. /\ seen \in SUBSET Row /\ T \in Day
      /\ \A h \in Feature : mart.value[h] = FlatPass(h, seen, T)
  BY DEF ValuesInv, ValuesExact, MartTypeOK
<1>2. /\ g \in Feature /\ g.win = w
      /\ g.agg = f.agg /\ g.combo = f.combo /\ g.field = f.field
  BY DEF Feature
<1>3. Due(f, seen, T) \subseteq Due(g, seen, T)
  <2>1. f.win \in Windows /\ f.win # AllTime /\ (w = AllTime \/ w > f.win)
    BY FeatureKinds DEF NextWider, Wider
  <2>2. w # AllTime => Lo(w, T) <= Lo(f.win, T) /\ Lo(w, T) \in Int /\ Lo(f.win, T) \in Int
    <3>1. w \in Nat /\ f.win \in Nat /\ T \in Int
      BY <1>1, <2>1, WindowsType DEF Day
    <3> HIDE DEF T
    <3> QED BY <2>1, <3>1 DEF Lo
  <2>3. \A r \in seen : r.day \in Int
    BY <1>1, RowType
  <2> HIDE DEF T
  <2> QED BY <1>2, <2>1, <2>2, <2>3 DEF Due
<1>4. Some(f, seen, T) \subseteq Some(g, seen, T)
  BY <1>3 DEF Some
<1>5. x = FlatPass(f, seen, T) /\ mart.value[g] = FlatPass(g, seen, T)
  BY <1>1, <1>2
<1>6. CASE f \in AmountFeature /\ f.agg \in ZeroFilled
  <2>1. g \in AmountFeature
    BY <1>6 DEF AmountFeature
  <2>2. ~(FlatPass(f, seen, T) > FlatPass(g, seen, T))
    <3> HIDE DEF T
    <3> QED BY <1>1, <1>2, <1>4, <1>6, <2>1, FlatGrows
  <2>3. f.agg \in Grows /\ f.agg \notin {"min", "max"}
    BY <1>6 DEF ZeroFilled, Sets, Grows
  <2> HIDE DEF T, x
  <2> QED BY <1>5, <2>2, <2>3
<1>7. CASE f \in ExtremeFeature
  <2> DEFINE M == Numbers(f, seen, T)
             N == Numbers(g, seen, T)
  <2>1. f.agg \in {"min", "max"} /\ g \in ExtremeFeature
    BY <1>7 DEF ExtremeFeature
  <2>2. M \subseteq N
    BY <1>2, <1>3, <1>4 DEF Numbers
  <2> HIDE DEF T, M, N
  <2>3. /\ IsFiniteSet(N) /\ N \subseteq Int
        /\ FlatPass(f, seen, T) = IF M = {} THEN Null ELSE IF f.agg = "min" THEN Min(M) ELSE Max(M)
        /\ FlatPass(g, seen, T) = IF N = {} THEN Null ELSE IF f.agg = "min" THEN Min(N) ELSE Max(N)
    BY <1>1, <1>2, <1>7, <2>1, FlatIsExtreme DEF M, N
  <2>4. M # {} /\ N # {}
    BY <1>5, <2>2, <2>3
  <2>5. /\ Min(M) \in Int /\ Max(M) \in Int /\ Min(N) \in Int /\ Max(N) \in Int
        /\ Min(N) <= Min(M) /\ Max(M) <= Max(N)
    BY <2>2, <2>3, <2>4, ExtremesNest
  <2> HIDE DEF x
  <2>6. CASE f.agg = "min"
    <3>1. f.agg \notin Grows
      BY <2>6 DEF Grows
    <3> QED BY <1>5, <2>3, <2>4, <2>5, <2>6, <3>1, NullAssumption
  <2>7. CASE f.agg = "max"
    <3>1. f.agg \in Grows
      BY <2>7 DEF Grows
    <3> QED BY <1>5, <2>3, <2>4, <2>5, <2>7, <3>1, NullAssumption
  <2> QED BY <2>1, <2>6, <2>7
<1> QED BY <1>6, <1>7, FeatureShape

\* On a right partition the generated tests of the values are green, if no amount is negative:
\* they flag no algebra that holds.
THEOREM GeneratedTestsAreGreen ==
    ASSUME WidestLast, AmountsNotNegative
    PROVE  Spec => []TestsAreGreen
<1>1. ValuesInv => TestsAreGreen
  BY NoneNegative, AllCoherent, AllMonotone DEF TestsAreGreen
<1> QED BY <1>1, AlwaysValues, PTL

=============================================================================
