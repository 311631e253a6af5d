---------------------------- MODULE FeatureStore ----------------------------
(***************************************************************************)
(* The dbt project that the generator compiles from ONE feature spec, as   *)
(* the warehouse runs it: the staging view, the incremental daily partial  *)
(* layer, the sealed all_time accumulator, the unsealed tail, the bounded  *)
(* window roll-up and the mart partitioned by target_date.                 *)
(*                                                                         *)
(* Every run sees the source AS OF ITS OWN target date, and runs arrive in *)
(* any order: scheduled days, retries, skipped days, replays of the past,  *)
(* initial loads and resets of the accumulator.  A run is a sequence of    *)
(* dbt nodes, each of which is one warehouse transaction; it may stop      *)
(* between any two of them.                                                *)
(*                                                                         *)
(* A feature value is abstracted to the set of events it is computed from: *)
(* a partial row holds the events it counts, the accumulator how OFTEN it  *)
(* has folded each event in (so that double counting is visible), a mart   *)
(* row the events behind its widest window and behind all_time.            *)
(***************************************************************************)
EXTENDS Integers, Sequences, FiniteSets, FiniteSetsExt

CONSTANTS
    Entity,          \* values of the spec's entity key
    Event,           \* candidate rows of the source, see EventShape below
    Sources,         \* the contents of the source to explore: sets of events
    LastDay,         \* bound: as-of dates are 1 .. LastDay
    Late,            \* settings.late_arrival_days
    Window,          \* days of the widest bounded window; 0 when all_time is the only window
    Inclusive,       \* settings.window_convention = "inclusive" (otherwise trailing)
    Spine,           \* settings.entity_spine
    Overwrite,       \* fs_partition_replace_strategy() is insert_overwrite, not delete+insert
    Kinds,           \* the kinds of invocation the operators and the scheduler use
    BackfillFroms,   \* the start dates operators load history from (BACKFILL_FROM)
    ReplayBackfill   \* whether dbt-backfill is also run for a date behind an earlier run's

(***************************************************************************)
(* A source row belongs to an entity, happened on event date `day`, and is *)
(* valid from date `arr` (its ingestion) up to but excluding date `end`.   *)
(***************************************************************************)
EventShape == [ent : Entity, day : Nat \ {0}, arr : Nat \ {0}, end : Nat \ {0}]

Day  == 1 .. LastDay
None == 0                          \* no date: NULL, or the 1900-01-01 it is coalesced to

Node == {"staging", "partials", "state", "watermark_test", "mart", "mart_test"}

Kind == {"run", "backfill", "build", "build_partials", "fold_state", "reset_state", "partials_only"}

ASSUME EventAssumption == Event \subseteq EventShape /\ Sources \subseteq SUBSET Event
ASSUME DayAssumption   == /\ LastDay \in Nat /\ Late \in Nat /\ Window \in Nat
                          /\ BackfillFroms \subseteq Day
ASSUME ModeAssumption  == /\ Inclusive \in BOOLEAN
                          /\ Overwrite \in BOOLEAN
                          /\ ReplayBackfill \in BOOLEAN
                          /\ Spine \in {"active_window", "all_time"}
                          /\ Kinds \subseteq Kind

VARIABLES
    source,          \* the rows of the source, fixed by Init; each run sees a part of them
    stagedFor,       \* the as-of date compiled into the staging view; None before it exists
    partialsExist,   \* the partial table exists: is_incremental() in the partial model
    computedFor,     \* event -> _computed_for of the partial row counting it; None if no row does
    sealed,          \* event -> how many times the accumulator has folded it in
    stateAsOf,       \* entity -> _state_as_of_date of its accumulator row; None if it has none
    mart,            \* as-of date -> the partition published for it
    job,             \* the dbt invocation in flight
    floor,           \* auxiliary: first event date the builds so far are answerable for
    ranTo,           \* auxiliary: the newest as-of date a partial build has completed for
    done             \* auxiliary: the last invocation that succeeded, until another one starts

warehouse == <<stagedFor, partialsExist, computedFor, sealed, stateAsOf, mart>>
vars      == <<source, warehouse, job, floor, ranTo, done>>

Partition == [rows : SUBSET Entity, window : SUBSET Event, allTime : [Event -> Nat]]

NoEvents       == [e \in Event |-> 0]
EmptyPartition == [rows |-> {}, window |-> {}, allTime |-> NoEvents]

\* An invocation of dbt: what is left to do of its plan, which is nothing once it is over.
Invocations(todos) == [kind : Kind, target : Day, from : Day \cup {None}, todo : todos]
Job   == Invocations(Seq(Node) \ {<< >>})
Over  == Invocations({<< >>})
Idle  == [kind |-> "none", target |-> None, from |-> None, todo |-> << >>]

TypeOK ==
    /\ source \in SUBSET Event
    /\ stagedFor \in Day \cup {None}
    /\ partialsExist \in BOOLEAN
    /\ computedFor \in [Event -> Day \cup {None}]
    /\ sealed \in [Event -> Nat]
    /\ stateAsOf \in [Entity -> Day \cup {None}]
    /\ mart \in [Day -> Partition]
    /\ job \in Job \cup {Idle}
    /\ floor \in Int
    /\ ranTo \in Day \cup {None}
    /\ done \in Over \cup {Idle}

Init ==
    /\ source \in Sources
    /\ stagedFor = None
    /\ partialsExist = FALSE
    /\ computedFor = NoEvents
    /\ sealed = NoEvents
    /\ stateAsOf = [x \in Entity |-> None]
    /\ mart = [d \in Day |-> EmptyPartition]
    /\ job = Idle
    /\ floor = 0
    /\ ranTo = None
    /\ done = Idle

-----------------------------------------------------------------------------
(***************************************************************************)
(* What a run at as-of date T may see, and which days it recomputes.       *)
(***************************************************************************)

\* Mutant: only the rows that were ingested on the as-of date itself are read.
VisibleToday(e, asOf) == e \in source /\ e.arr = asOf /\ asOf < e.end

\* The source query's validity predicate, bound to one as-of date.
Visible(e, asOf) == e \in source /\ e.arr <= asOf /\ asOf < e.end

Stored == {e \in Event : computedFor[e] # None}

\* already_fresher: the event date holds a row computed under a later as-of date.
AlreadyFresher(d, T) == \E f \in Stored : f.day = d /\ computedFor[f] > T

\* Mutant: the rewrite window is measured from this run's date alone.
InRewriteWindowFromToday(d, T) == T - d <= Late

\* datediff(event_date, least(last_run, target)) <= late, where last_run is the newest
\* _computed_for of the table (1900-01-01 when it is empty).
InRewriteWindow(d, T) ==
    \/ T - d <= Late
    \/ \A f \in Event : computedFor[f] - d <= Late

\* Mutant: a replay recomputes the days that a later run has computed.
RecomputesFresher(d, T, from) ==
    /\ d <= T
    /\ IF from # None THEN d >= from
       ELSE IF partialsExist THEN InRewriteWindow(d, T) ELSE d >= T - Late

\* The event dates this build of the partial model selects.
Recomputes(d, T, from) ==
    /\ d <= T
    /\ IF from # None
         THEN d >= from
         ELSE IF partialsExist
                THEN InRewriteWindow(d, T) /\ ~AlreadyFresher(d, T)
                ELSE d >= T - Late

\* Auxiliary: the first event date covered once this build is done.  An initial load that
\* begins past the days still open to late events gives up the days before it.
CoveredFrom(T, from) ==
    IF from = None
      THEN IF partialsExist THEN floor ELSE T - Late
      ELSE IF partialsExist /\ floor < from /\ from <= ranTo - Late + 1 THEN floor ELSE from

\* The row of event e is deleted because the build produced a replacement for its key.
Replaces(fresh, e) ==
    \E f \in fresh : f.day = e.day /\ (Overwrite \/ f.ent = e.ent)

-----------------------------------------------------------------------------
(***************************************************************************)
(* The all_time fold: the sealed accumulator and the unsealed tail.        *)
(***************************************************************************)

\* d is past the accumulator's watermark, max(_state_as_of_date).
PastWatermark(d) == \A x \in Entity : d > stateAsOf[x]

\* Mutant: the watermark day itself is consumed again.
FoldsFromWatermark(d, kind) == kind = "reset_state" \/ \A x \in Entity : d >= stateAsOf[x]

\* Mutant: all history up to the seal date is folded in on every run.
FoldsFromStart(d, kind) == TRUE

\* The watermark the partial rows are folded from: none when the model is rebuilt.
FoldsFrom(d, kind) == kind = "reset_state" \/ PastWatermark(d)

\* Mutant: the seal date is left out of the range, but stamped all the same.
SealRangeOpen(T, kind) == {e \in Stored : FoldsFrom(e.day, kind) /\ e.day < T - Late}

\* The stored partials one build of the accumulator consumes.
SealRange(T, kind) == {e \in Stored : FoldsFrom(e.day, kind) /\ e.day <= T - Late}

\* Mutant: the tail starts at the nominal seal date of the as-of date.
UnsealedTailNominal(T) ==
    IF Late > 0 THEN {e \in Stored : e.day > T - Late /\ e.day <= T} ELSE {}

\* Mutant: the tail stops before the as-of date.
UnsealedTailOpen(T) ==
    IF Late > 0 THEN {e \in Stored : PastWatermark(e.day) /\ e.day < T} ELSE {}

\* The stored partials that the accumulator does not hold yet.  A spec without late
\* arrivals has no tail model at all.
UnsealedTail(T) == IF Late > 0 THEN {e \in Stored : PastWatermark(e.day) /\ e.day <= T} ELSE {}

\* Days between the bounds of the widest window of as-of date T.
InWindow(d, T) ==
    /\ Window > 0
    /\ IF Inclusive
         THEN T - (Window - 1) <= d /\ d <= T
         ELSE T - Window <= d /\ d <= T - 1

Rollup(T) == {e \in Stored : InWindow(e.day, T)}

\* The entities that get a row in the partition of T.
SpineOf(T) ==
    LET active == {e.ent : e \in Rollup(T)}
    IN IF Spine = "active_window" /\ Window > 0
         THEN active
         ELSE active \cup {x \in Entity : stateAsOf[x] # None}

\* The partition the mart model produces for T.
PartitionFor(T) ==
    LET rows == SpineOf(T)
        tail == UnsealedTail(T)
    IN [rows    |-> rows,
        window  |-> Rollup(T),
        allTime |-> [e \in Event |->
                        IF e.ent \in rows
                          THEN sealed[e] + (IF e \in tail THEN 1 ELSE 0)
                          ELSE 0]]

\* dbt deletes the keys the query returned and inserts its rows: a query that returns
\* no row leaves the old partition where it was.
Published(T) == IF SpineOf(T) = {} THEN mart[T] ELSE PartitionFor(T)

-----------------------------------------------------------------------------
(***************************************************************************)
(* Invocations of dbt.  `run` builds the models and runs no test; `build`  *)
(* stops downstream of a failing test, so that the watermark test stands   *)
(* between the accumulator and the mart.                                   *)
(***************************************************************************)
Plan ==
    [run            |-> <<"staging", "partials", "state", "mart">>,
     backfill       |-> <<"staging", "partials", "state", "mart">>,
     build          |-> <<"staging", "partials", "state", "watermark_test", "mart", "mart_test">>,
     build_partials |-> <<"staging", "partials">>,
     fold_state     |-> <<"state", "watermark_test">>,
     reset_state    |-> <<"state">>,
     partials_only  |-> <<"partials">>]

Froms(kind) == IF kind = "backfill" THEN BackfillFroms ELSE {None}

Start(kind, T, from) ==
    /\ job = Idle
    /\ kind = "backfill" /\ T < ranTo => ReplayBackfill
    /\ job' = [kind |-> kind, target |-> T, from |-> from, todo |-> Plan[kind]]
    /\ done' = IF done.kind = kind /\ done.target = T /\ done.from = from THEN done ELSE Idle
    /\ UNCHANGED <<source, warehouse, floor, ranTo>>

At(node) == job.todo # << >> /\ Head(job.todo) = node

\* Mutant: an invocation that has nothing left to do is not over.
AdvanceForever == job' = [job EXCEPT !.todo = Tail(@)] /\ UNCHANGED done

\* The node succeeded: go on with the next one, or end the invocation.  (An invocation
\* that leaves the partial table empty is not remembered as done: see RetryChangesNothing.)
Advance ==
    IF Tail(job.todo) = << >>
      THEN job' = Idle /\ done' = IF Stored = {} THEN Idle ELSE [job EXCEPT !.todo = << >>]
      ELSE job' = [job EXCEPT !.todo = Tail(@)] /\ UNCHANGED done

BuildStaging ==
    /\ At("staging")
    /\ stagedFor' = job.target
    /\ Advance
    /\ UNCHANGED <<source, partialsExist, computedFor, sealed, stateAsOf, mart, floor, ranTo>>

BuildPartials ==
    /\ At("partials")
    /\ stagedFor # None                    \* the view it selects from exists
    /\ LET T     == job.target
           fresh == {e \in Event : Visible(e, stagedFor) /\ Recomputes(e.day, T, job.from)}
       IN /\ computedFor' = [e \in Event |-> IF e \in fresh THEN T
                                             ELSE IF Replaces(fresh, e) THEN None
                                             ELSE computedFor[e]]
          /\ floor' = CoveredFrom(T, job.from)
          /\ ranTo' = IF T > ranTo THEN T ELSE ranTo
    /\ partialsExist' = TRUE
    /\ Advance
    /\ UNCHANGED <<source, stagedFor, sealed, stateAsOf, mart>>

BuildState ==
    /\ At("state")
    /\ partialsExist
    /\ LET range == SealRange(job.target, job.kind)
           kept  == job.kind # "reset_state"
       IN /\ sealed' = [e \in Event |-> (IF kept THEN sealed[e] ELSE 0)
                                        + (IF e \in range THEN 1 ELSE 0)]
          /\ stateAsOf' = [x \in Entity |-> IF \E e \in range : e.ent = x
                                              THEN job.target - Late
                                              ELSE IF kept THEN stateAsOf[x] ELSE None]
    /\ Advance
    /\ UNCHANGED <<source, stagedFor, partialsExist, computedFor, mart, floor, ranTo>>

\* Mutant: the test grants the accumulator the late-arrival window.
WatermarkFarAhead(T) == \E x \in Entity : stateAsOf[x] > T + Late

\* assert_<feature>_state_watermark returns a row, and so fails, when the accumulator is
\* sealed past the as-of date.
WatermarkAhead(T) == \E x \in Entity : stateAsOf[x] > T

\* assert_<feature>_window_monotonicity: in the partition just built, some entity counts
\* more events in a bounded window than in all_time.
NotMonotone(p) ==
    \E x \in p.rows : Cardinality({e \in p.window : e.ent = x}) >
                      MapThenSumSet(LAMBDA e : p.allTime[e], {e \in Event : e.ent = x})

\* The test node that the invocation is at returns a row.
TestFails ==
    \/ At("watermark_test") /\ WatermarkAhead(job.target)
    \/ At("mart_test") /\ NotMonotone(mart[job.target])

WatermarkTest ==
    /\ At("watermark_test")
    /\ IF TestFails
         THEN job' = Idle /\ UNCHANGED done
         ELSE Advance
    /\ UNCHANGED <<source, warehouse, floor, ranTo>>

BuildMart ==
    /\ At("mart")
    /\ mart' = [mart EXCEPT ![job.target] = Published(job.target)]
    /\ Advance
    /\ UNCHANGED <<source, stagedFor, partialsExist, computedFor, sealed, stateAsOf, floor, ranTo>>

MartTest ==
    /\ At("mart_test")
    /\ IF TestFails
         THEN job' = Idle /\ UNCHANGED done
         ELSE Advance
    /\ UNCHANGED <<source, warehouse, floor, ranTo>>

\* The invocation dies, or its next node fails, and nothing after it is built.
Abort ==
    /\ job # Idle
    /\ job' = Idle
    /\ UNCHANGED <<source, warehouse, floor, ranTo, done>>

\* dbt works on the invocation in flight.
Work ==
    \/ BuildStaging
    \/ BuildPartials
    \/ BuildState
    \/ WatermarkTest
    \/ BuildMart
    \/ MartTest

Next ==
    \/ \E kind \in Kinds, T \in Day : \E from \in Froms(kind) : Start(kind, T, from)
    \/ Work
    \/ Abort

Spec == Init /\ [][Next]_vars

-----------------------------------------------------------------------------
(***************************************************************************)
(* Properties.                                                             *)
(***************************************************************************)

\* The days an event is expected to be at most this late for: what late_arrival_days says.
OnTime(e) == e.arr <= e.day + Late

\* The source never ends the row; every row of the fixture is of this kind.
Permanent(e) == e.end > LastDay

\* A partition that holds no event after date d.
HoldsNoFuture(p, d) == \A e \in Event : (e \in p.window \/ p.allTime[e] > 0) => e.day <= d

\* No event enters the accumulator twice, whatever runs are repeated, skipped, replayed or
\* cut short, and what it holds lies at or before its watermark: consuming exactly
\* (watermark, seal date] makes retries idempotent.
SealedOnce ==
    \A e \in Event : sealed[e] > 0 => sealed[e] = 1 /\ ~PastWatermark(e.day)

\* A published all_time value counts no event twice: the tail is complementary to the
\* sealed state for any as-of date and in any order of runs, because it starts at the
\* accumulator's actual watermark.
NoDoubleCount ==
    \A d \in Day, e \in Event : mart[d].allTime[e] <= 1

\* Stored partials may only ever gain information: a run drops an event from the partial
\* layer only if the source itself has ended that row by the as-of date of the run.
PartialsOnlyGain ==
    [][\A e \in Stored : computedFor'[e] = None => e.end <= job.target]_vars

\* No late event is lost: once a partial build for an as-of date at or after an event's
\* arrival has completed, the event is in the partial layer if it came at most Late days
\* late and the layer covers its day -- over skipped days, replays and retries alike.
NothingLost ==
    \A e \in source :
        (OnTime(e) /\ Permanent(e) /\ e.arr <= ranTo /\ floor <= e.day /\ e.day <= ranTo) => e \in Stored

\* The build never publishes the future: a partition that `dbt build` (re)writes holds no
\* event after its as-of date, although the accumulator may be sealed far past it.
BuildNeverLeaks ==
    [][\A d \in Day : (job.kind = "build" /\ mart'[d] # mart[d]) => HoldsNoFuture(mart'[d], d)]_vars

\* Repeating the invocation that succeeded last changes nothing in the warehouse, at none
\* of its nodes. (While the partial table is still empty the repeat selects a wider range
\* of days than the first build did, so that case is left aside.)
RetryChangesNothing ==
    [][done # Idle => UNCHANGED <<computedFor, sealed, stateAsOf, mart>>]_vars

\* What was ever published stays reproducible: every event behind a published all_time value
\* is still held by the accumulator, or lies past its watermark in the partial layer. Going
\* dormant, and dropping out of later partitions, never truncates an entity's history.
HistoryKept ==
    \A d \in Day, e \in Event :
        Permanent(e) /\ mart[d].allTime[e] > 0 => sealed[e] > 0 \/ (e \in Stored /\ PastWatermark(e.day))

=============================================================================
