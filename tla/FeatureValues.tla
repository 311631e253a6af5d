--------------------------- MODULE FeatureValues ---------------------------
(***************************************************************************)
(* The values behind FeatureStore's sets of events: the columns one entity *)
(* gets from the partial layer, the roll-up, the sealed accumulator, the   *)
(* tail and the mart, for each aggregation, condition and window, and the  *)
(* generated tests that compare them.                                      *)
(*                                                                         *)
(* The spec has two atomic fields: `amount`, with the aggregations Aggs,   *)
(* and `days_since`, derived from the event date.  Both apply a category   *)
(* with a default member and one member, the rows that `hit`.              *)
(***************************************************************************)
EXTENDS Aggregates, Sequences

CONSTANTS
    Row,             \* the source rows of the entity
    LastDay,         \* bound: dates are 1 .. LastDay
    Late,            \* settings.late_arrival_days
    Inclusive,       \* settings.window_convention = "inclusive" (otherwise trailing)
    TimeCat,         \* time_cat: the windows in the order of the spec, in days
    Aggs             \* the aggregations of `amount`

Day     == 1 .. LastDay
None    == 0
AllTime == 0                       \* the all_time window in TimeCat
NoRow   == << >>                   \* a table holds no row of the entity

RowShape == [id : Nat, day : Day, hit : BOOLEAN, val : Int \cup {Null}]

ASSUME RowAssumption ==
    /\ Row \subseteq RowShape /\ IsFiniteSet(Row)
    /\ \A r \in Row : r.val # Null => r.val \in DOMAIN Hash
ASSUME SpecAssumption ==
    /\ LastDay \in Nat /\ Late \in Nat /\ Inclusive \in BOOLEAN
    /\ TimeCat \in Seq(Nat) /\ Aggs \subseteq Aggregate \cup {"avg"}
    /\ \E i \in DOMAIN TimeCat : TimeCat[i] = AllTime

Windows  == {TimeCat[i] : i \in DOMAIN TimeCat}
Bounded  == SelectSeq(TimeCat, LAMBDA w : w # AllTime)
Widest   == Max(Windows)

\* The published features, and the stored columns that they are computed from.
Feature ==
    [field : {"amount"}, agg : Aggs, combo : {"all", "hit"}, win : Windows]
    \cup [field : {"days_since"}, agg : {"min", "max"}, combo : {"all", "hit"}, win : Windows]

\* A days_since minimum is the distance to the latest event, so the aggregation flips; an
\* average carries a sum and a count.
Inputs(f) ==
    IF f.field = "days_since"
      THEN {[field |-> "event_date", agg |-> IF f.agg = "min" THEN "max" ELSE "min", combo |-> f.combo]}
      ELSE {[field |-> "amount", agg |-> a, combo |-> f.combo] :
               a \in IF f.agg = "avg" THEN {"sum", "count"} ELSE {f.agg}}

Column == UNION {Inputs(f) : f \in Feature}

VARIABLES
    partials,        \* day -> the entity's partial row: column -> state
    sealed,          \* the entity's accumulator row: column -> state
    watermark,       \* the newest day the accumulator has folded in
    mart,            \* the partition last built: its date and the feature values
    counted,         \* auxiliary: the rows that the partial rows were built from
    seen             \* auxiliary: what `counted` was when that partition was built

vars == <<partials, sealed, watermark, mart, counted, seen>>

NoMart == [date |-> None, value |-> << >>]

Init ==
    /\ partials = [d \in Day |-> NoRow]
    /\ sealed = NoRow
    /\ watermark = None
    /\ mart = NoMart
    /\ counted = {}
    /\ seen = {}

-----------------------------------------------------------------------------
(***************************************************************************)
(* The partial rows and the accumulator.                                   *)
(***************************************************************************)

\* guard(): the value of a column in a row, null where the condition does not hold.
Guarded(c, r) ==
    IF c.combo = "hit" /\ ~r.hit THEN Null ELSE IF c.field = "amount" THEN r.val ELSE r.day

\* A run finds `rows` on day d, those it found before and late ones, and replaces the
\* partial row.  That days at or behind the watermark are settled is the lateness contract
\* and no guard of the code: rows that come later still are DailyDag's subject.
BuildPartials(d, rows) ==
    /\ d > watermark
    /\ rows # {}
    /\ {r \in counted : r.day = d} \subseteq rows
    /\ partials' = [partials EXCEPT ![d] =
                       [c \in Column |-> Partial(c.agg, rows, [r \in rows |-> Guarded(c, r)])]]
    /\ counted' = counted \cup rows
    /\ UNCHANGED <<sealed, watermark, mart, seen>>

\* The fold of one column over the entity's partial rows of the given days: null when there
\* are none.
FoldOver(c, days) ==
    LET stored == {d \in days : partials[d] # NoRow}
    IN IF stored = {} THEN Null ELSE StateAgg(c.agg, [d \in stored |-> partials[d][c]])

Sealed(c) == IF sealed = NoRow THEN Null ELSE sealed[c]

\* The accumulator of as-of date T folds in (watermark, T - Late]; the entity's row is
\* written only if it has a partial row in there.
BuildState(T) ==
    LET days == {d \in Day : watermark < d /\ d <= T - Late}
    IN /\ \E d \in days : partials[d] # NoRow
       /\ sealed' = [c \in Column |-> Merge(c.agg, Sealed(c), FoldOver(c, days))]
       /\ watermark' = T - Late
       /\ UNCHANGED <<partials, mart, counted, seen>>

-----------------------------------------------------------------------------
(***************************************************************************)
(* The roll-up and the mart.                                               *)
(***************************************************************************)
Lo(w, T) == IF Inclusive THEN T - (w - 1) ELSE T - w
Hi(T)    == IF Inclusive THEN T ELSE T - 1

\* The rows of the partial table that the roll-up scans: from the lower bound of the window
\* that time_cat names last.
Scanned(T) ==
    {d \in Day : /\ partials[d] # NoRow
                 /\ Bounded # << >>
                 /\ Lo(Bounded[Len(Bounded)], T) <= d /\ d <= Hi(T)}

\* A bounded window: the widest is the whole scan, a narrower one is cut against its bound.
RolledUp(c, w, T) ==
    LET cut(d) == IF w = Widest \/ d >= Lo(w, T) THEN partials[d][c] ELSE Null
    IN IF Scanned(T) = {} THEN Null
       ELSE Finalize(c.agg, StateAgg(c.agg, [d \in Scanned(T) |-> cut(d)]))

\* A stored feature in the mart.  An entity that is not in the roll-up has counted nothing.
Joined(c, w, T) ==
    IF w # AllTime
      THEN IF c.agg \in ZeroFilled THEN Coalesce(RolledUp(c, w, T), 0) ELSE RolledUp(c, w, T)
      ELSE LET tail == FoldOver(c, {d \in Day : watermark < d /\ d <= T})
           IN Finalize(c.agg, IF Late > 0 THEN Merge(c.agg, Sealed(c), tail) ELSE Sealed(c))

Scale == 12                        \* bound: averages are exact for up to four rows

Average(sum, count) == IF count = 0 THEN Null ELSE (sum * Scale) \div count
DaysSince(day, T)   == IF day = Null THEN Null ELSE T - day

\* What the mart publishes for a feature: a stored column, or one computed from stored ones.
Published(f, T) ==
    LET stored(agg) == Joined(CHOOSE c \in Inputs(f) : c.agg = agg, f.win, T)
        only        == (CHOOSE c \in Inputs(f) : TRUE).agg
    IN IF f.field = "days_since" THEN DaysSince(stored(only), T)
       ELSE IF f.agg = "avg" THEN Average(stored("sum"), stored("count"))
       ELSE stored(only)

\* Mutant: an average is declared to have a value always.
NullableExtrema(f) == f.agg \in {"min", "max"}

\* What the registry says of a feature: whether it may be NULL.
Nullable(f) == f.agg \in {"min", "max", "avg"}

\* dbt build of the mart: the watermark test has passed, the accumulator of this run has
\* been built before it, and the entity is in the spine.
BuildMart(T) ==
    /\ T >= watermark
    /\ \A d \in Day : watermark < d /\ d <= T - Late => partials[d] = NoRow
    /\ Scanned(T) # {} \/ sealed # NoRow
    /\ mart' = [date |-> T, value |-> [f \in Feature |-> Published(f, T)]]
    /\ seen' = counted
    /\ UNCHANGED <<partials, sealed, watermark, counted>>

Next ==
    \/ \E d \in Day : \E rows \in SUBSET {r \in Row : r.day = d} : BuildPartials(d, rows)
    \/ \E T \in Day : BuildState(T)
    \/ \E T \in Day : BuildMart(T)

Spec == Init /\ [][Next]_vars

-----------------------------------------------------------------------------
(***************************************************************************)
(* The generated tests, as violations in the partition last built.         *)
(***************************************************************************)

\* Mutant: nested maxima are expected to fall like nested minima.
GrowsWithoutMax == {"count", "distinct_exact", "sum"}

\* The aggregations that can only grow as a window widens; the others can only fall.
Grows == {"count", "distinct_exact", "sum", "max"}

Wider(w, v) == v # w /\ w # AllTime /\ (v = AllTime \/ v > w)

\* Each window and the next wider one.
NextWider(w, v) == Wider(w, v) /\ ~ \E u \in Windows : Wider(w, u) /\ Wider(u, v)

\* assert_<feature>_window_monotonicity flags this feature.
NotMonotone(f) ==
    LET x == mart.value[f]
    IN /\ f.agg # "distinct_approx"
       /\ \E v \in Windows :
             LET y == mart.value[[f EXCEPT !.win = v]]
             IN /\ NextWider(f.win, v)
                /\ x # Null
                /\ \/ y # Null /\ IF f.agg \in Grows THEN x > y ELSE x < y
                   \/ y = Null /\ f.agg \in {"min", "max"}

\* assert_<feature>_non_negative
Negative(f) == f.agg \in {"count"} \cup Sets /\ mart.value[f] < 0

\* A pair of features of the mart that differ in aggregation or condition only.
With(f, agg, combo) == [f EXCEPT !.agg = agg, !.combo = combo]

\* assert_<feature>_internal_coherence: a marginal is below a cut, a minimum above its
\* maximum, or a distinct count above the count.
Incoherent(f) ==
    LET x        == mart.value[f]
        above(g) == g \in Feature /\ x # Null /\ mart.value[g] # Null /\ x > mart.value[g]
    IN \/ f.agg \in {"count"} \cup Sets /\ above(With(f, f.agg, "all"))
       \/ f.agg = "min" /\ above(With(f, "max", f.combo))
       \/ f.agg = "distinct_exact" /\ above(With(f, "count", f.combo))

-----------------------------------------------------------------------------
(***************************************************************************)
(* Properties.                                                             *)
(***************************************************************************)
\* A feature computed in one pass over the rows that it is about.
FlatPass(f, rows, T) ==
    LET in(r) == /\ r.day <= T
                 /\ f.win # AllTime => Lo(f.win, T) <= r.day /\ r.day <= Hi(T)
                 /\ f.combo = "hit" => r.hit
        due   == {r \in rows : in(r)}
        some  == {r \in due : r.val # Null}
        vals  == {r.val : r \in some}
        sum   == Total([r \in some |-> r.val], some)
        days  == {T - r.day : r \in due}
    IN IF f.field = "days_since"
         THEN IF days = {} THEN Null ELSE IF f.agg = "min" THEN Min(days) ELSE Max(days)
       ELSE CASE f.agg = "count"           -> Cardinality(some)
              [] f.agg = "sum"             -> sum
              [] f.agg = "min"             -> IF vals = {} THEN Null ELSE Min(vals)
              [] f.agg = "max"             -> IF vals = {} THEN Null ELSE Max(vals)
              [] f.agg = "avg"             -> Average(sum, Cardinality(some))
              [] f.agg = "distinct_exact"  -> Cardinality(vals)
              [] f.agg = "distinct_approx" -> Estimate(Smallest({Hash[v] : v \in vals}, K))

\* The windows and all_time are one fold over different ranges: however the days of an entity
\* were grouped, rewritten, sealed and merged, every published feature is what one flat pass
\* over its rows gives, sketches included.
ValuesExact ==
    mart # NoMart => \A f \in Feature : mart.value[f] = FlatPass(f, seen, mart.date)

\* Below k distinct values the estimate is exact, in whatever order and grouping the sketches
\* of the days were merged.
SketchesExactBelowK ==
    mart # NoMart =>
        \A f \in Feature :
            LET exact == FlatPass([f EXCEPT !.agg = "distinct_exact"], seen, mart.date)
            IN f.agg = "distinct_approx" /\ exact < K => mart.value[f] = exact

\* The registry tells the truth about NULL: a feature it declares not nullable has a value in
\* every partition, also for an entity that had no activity in the window, that is in the
\* accumulator alone, or whose rows never meet the condition.
NullsAsRegistered ==
    mart # NoMart => \A f \in Feature : mart.value[f] = Null => Nullable(f)

\* The generated tests check the algebra and nothing else: on a right partition they are
\* green, for every aggregation with a direction.  (An average has none, and the monotonicity
\* test, which expects it to fall, is wrong about it.)
TestsAreGreen ==
    mart # NoMart =>
        \A f \in Feature : ~Negative(f) /\ ~Incoherent(f) /\ (f.agg # "avg" => ~NotMonotone(f))

=============================================================================
