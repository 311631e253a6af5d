------------------------------ MODULE DailyDag ------------------------------
(***************************************************************************)
(* The daily feature-store DAG over the warehouse of one feature, and the  *)
(* offline store it publishes to.  A DAG run for an as-of date walks the   *)
(* chain of tasks: build the partials, fold the accumulator, build and     *)
(* test the mart, refresh the partitions that are still provisional,       *)
(* publish.  A failed task is retried from its beginning; when its retries *)
(* are spent the run fails and the next date is served as if nothing       *)
(* happened.  Runs are serial, and dates are served in order, but a date   *)
(* may be missed, catchup being off, and the operator may repeat any date. *)
(***************************************************************************)
EXTENDS FeatureStore, RefreshWindow

CONSTANTS
    ColdStart,       \* the DAG is unpaused on an empty warehouse, without an initial load
    FirstDate,       \* the as-of date of the initial load, or of the first run on a cold start
    MaxGap,          \* bound: a run is at most this many days after the one before (1: no gap)
    Retries,         \* default_args["retries"]
    MaxFaults,       \* bound: how many node or task failures the environment injects
    MaxReruns        \* bound: how many runs the operator repeats

ASSUME DagAssumption ==
    /\ ColdStart \in BOOLEAN
    /\ MaxGap \in Nat \ {0} /\ Retries \in Nat
    /\ MaxFaults \in Nat /\ MaxReruns \in Nat
    /\ FirstDate \in Day /\ FirstDate > Late     \* a refresh never leaves 1 .. LastDay
    /\ Kinds = {"backfill", "build_partials", "fold_state", "build"} /\ ~ReplayBackfill

VARIABLES
    run,             \* the DAG run in progress
    newest,          \* the as-of date of the newest DAG run or of the initial load
    store,           \* as-of date -> the partition on object storage
    lost,            \* auxiliary: the dates whose scheduled run has failed for good
    faults,          \* auxiliary: the failures injected so far
    reruns           \* auxiliary: the runs repeated so far

dagVars == <<run, newest, store, lost, faults, reruns>>
allVars == <<vars, dagVars>>

\* Mutant: a run publishes before it has refreshed what is provisional.
ChainPublishingFirst == <<"build_daily_partials", "fold_alltime_state", "build_and_test_mart",
                          "publish_offline_store", "refresh_revision_window">>

\* The chain of a feature's task group; there is nothing to refresh without late arrivals.
Chain ==
    IF Late > 0
      THEN <<"build_daily_partials", "fold_alltime_state", "build_and_test_mart",
             "refresh_revision_window", "publish_offline_store">>
      ELSE <<"build_daily_partials", "fold_alltime_state", "build_and_test_mart",
             "publish_offline_store">>

\* A run is at task number `at` of the chain; `dates` is what is left of the list that the
\* task has resolved, `resolved` whether it has; `tries` counts the task's failed attempts,
\* and `manual` tells a run that the operator repeats from a scheduled one.
NoRun  == [date |-> None, manual |-> FALSE, at |-> 0, resolved |-> FALSE, dates |-> << >>, tries |-> 0]
Active == run # NoRun
Task   == Chain[run.at]

DagTypeOK ==
    /\ TypeOK
    /\ run \in [date : Day, manual : BOOLEAN, at : DOMAIN Chain, resolved : BOOLEAN,
                dates : Seq(Day), tries : 0 .. Retries]
               \cup {NoRun}
    /\ newest \in Day \cup {None}
    /\ store \in [Day -> Partition]
    /\ lost \in SUBSET Day
    /\ faults \in 0 .. MaxFaults
    /\ reruns \in 0 .. MaxReruns

DagInit ==
    /\ Init
    /\ run = NoRun
    /\ newest = None
    /\ store = [d \in Day |-> EmptyPartition]
    /\ lost = {}
    /\ faults = 0
    /\ reruns = 0

-----------------------------------------------------------------------------
(***************************************************************************)
(* The life of a run and of its tasks.                                     *)
(***************************************************************************)

\* The deliberate first load, repeated by the operator until it has gone through; only
\* then is the DAG unpaused.
InitialLoad ==
    /\ ~ColdStart /\ newest = None
    /\ \E from \in BackfillFroms : Start("backfill", FirstDate, from)
    /\ UNCHANGED dagVars

\* Mutant: dates are not served in order.
ScheduleAnyDate(T) ==
    /\ ~Active /\ job = Idle
    /\ IF newest = None THEN ColdStart /\ T = FirstDate
                        ELSE FirstDate <= T /\ T <= newest + MaxGap
    /\ run' = [NoRun EXCEPT !.date = T, !.at = 1]
    /\ newest' = T
    /\ UNCHANGED <<vars, store, lost, faults, reruns>>

\* The scheduler creates the run of a date once the run before it has ended.
Schedule(T) ==
    /\ ~Active /\ job = Idle
    /\ IF newest = None THEN ColdStart /\ T = FirstDate
                        ELSE newest < T /\ T <= newest + MaxGap
    /\ run' = [NoRun EXCEPT !.date = T, !.at = 1]
    /\ newest' = T
    /\ UNCHANGED <<vars, store, lost, faults, reruns>>

\* The operator repeats the run of a date that the DAG has served, failed or missed.
Rerun(T) ==
    /\ ~Active /\ job = Idle
    /\ newest # None /\ FirstDate <= T /\ T <= newest
    /\ reruns < MaxReruns /\ reruns' = reruns + 1
    /\ run' = [NoRun EXCEPT !.date = T, !.manual = TRUE, !.at = 1]
    /\ UNCHANGED <<vars, newest, store, lost, faults>>

\* The run starts the task at position `at`, or the one at hand over.
AtTask(at, tries) ==
    run' = [NoRun EXCEPT !.date = run.date, !.manual = run.manual, !.at = at, !.tries = tries]

\* The task at hand has succeeded.  A run of the newest date that has gone through makes up
\* for one that was lost.
TaskDone ==
    IF run.at = Len(Chain)
      THEN run' = NoRun /\ lost' = IF run.date = newest THEN lost \ {newest} ELSE lost
      ELSE AtTask(run.at + 1, 0) /\ UNCHANGED lost

\* The run ends without success.
RunFails ==
    /\ run' = NoRun
    /\ lost' = IF run.manual THEN lost ELSE lost \cup {run.date}

\* Mutant: one attempt too many is made.
AttemptFailsLate ==
    IF run.tries > Retries
      THEN RunFails
      ELSE AtTask(run.at, run.tries + 1) /\ UNCHANGED lost

\* Mutant: attempts are not counted.
AttemptFailsUncounted == AtTask(run.at, 0) /\ UNCHANGED lost

\* An attempt at the task has failed: it starts over, unless its retries are spent.
AttemptFails ==
    IF run.tries = Retries
      THEN RunFails
      ELSE AtTask(run.at, run.tries + 1) /\ UNCHANGED lost

\* max(_state_as_of_date) as the resolver reads it.
Watermark ==
    CHOOSE w \in Day \cup {None} :
        /\ \A x \in Entity : stateAsOf[x] <= w
        /\ w = None \/ \E x \in Entity : stateAsOf[x] = w

\* The three tasks that are a single dbt invocation.
Invocation == [build_daily_partials |-> "build_partials",
               fold_alltime_state   |-> "fold_state",
               build_and_test_mart  |-> "build"]

RunDbt ==
    /\ Active /\ Task \in DOMAIN Invocation
    /\ Start(Invocation[Task], run.date, None)
    /\ UNCHANGED dagVars

\* The refresh and publish tasks ask the resolver which dates they are about.
Resolve ==
    /\ Active /\ job = Idle /\ ~run.resolved
    /\ \/ /\ Task = "refresh_revision_window"
          /\ run' = [run EXCEPT !.resolved = TRUE,
                                !.dates = RefreshableDates(run.date, Late, Watermark)]
       \/ /\ Task = "publish_offline_store"
          /\ run' = [run EXCEPT !.resolved = TRUE,
                                !.dates = PublishDates(run.date, Late, Watermark)]
    /\ UNCHANGED <<vars, newest, store, lost, faults, reruns>>

\* The next provisional partition is rebuilt with all its inputs.
Refresh ==
    /\ Active /\ Task = "refresh_revision_window" /\ run.dates # << >>
    /\ Start("build", Head(run.dates), None)
    /\ UNCHANGED dagVars

\* dbt works; when the invocation ends, the task goes on, is done, or has failed, and the
\* initial load, which no DAG run is part of, has gone through.
DbtStep ==
    /\ Work
    /\ IF Active /\ job' = Idle
         THEN IF TestFails THEN AttemptFails
              ELSE IF run.dates # << >> THEN run' = [run EXCEPT !.dates = Tail(@)] /\ UNCHANGED lost
              ELSE TaskDone
         ELSE UNCHANGED <<run, lost>>
    /\ newest' = IF ~Active /\ job' = Idle THEN FirstDate ELSE newest
    /\ UNCHANGED <<store, faults, reruns>>

\* The publisher's gates: a partition that is empty, or that holds an event after its own
\* date (max over the sealed state and the tail), is not written.
Publishable(p, d) ==
    /\ p.rows # {}
    /\ \A e \in Event : p.allTime[e] > 0 => e.day <= d

Publish ==
    /\ Active /\ Task = "publish_offline_store" /\ run.dates # << >>
    /\ LET d == Head(run.dates)
       IN IF Publishable(mart[d], d)
            THEN /\ store' = [store EXCEPT ![d] = mart[d]]
                 /\ run' = [run EXCEPT !.dates = Tail(@)]
                 /\ UNCHANGED lost
            ELSE AttemptFails /\ UNCHANGED store
    /\ UNCHANGED <<vars, newest, faults, reruns>>

\* The dates of the task are worked off.
EndOfDates ==
    /\ Active /\ job = Idle /\ run.resolved /\ run.dates = << >>
    /\ TaskDone
    /\ UNCHANGED <<vars, newest, store, faults, reruns>>

\* A dbt invocation dies, or a task does between two of them.
Fault ==
    /\ faults < MaxFaults
    /\ faults' = faults + 1
    /\ \/ Abort
       \/ Active /\ job = Idle /\ UNCHANGED vars
    /\ IF Active THEN AttemptFails ELSE UNCHANGED <<run, lost>>
    /\ UNCHANGED <<newest, store, reruns>>

Progress == InitialLoad \/ RunDbt \/ Resolve \/ Refresh \/ DbtStep \/ Publish \/ EndOfDates

DagNext ==
    \/ \E T \in Day : Schedule(T) \/ Rerun(T)
    \/ Progress
    \/ Fault

DagSpec == DagInit /\ [][DagNext]_allVars

\* The scheduler creates every next run, and the executor keeps working on the one there is.
FairDagSpec ==
    /\ DagSpec
    /\ WF_allVars(Progress)
    /\ WF_allVars(\E T \in Day : Schedule(T))

-----------------------------------------------------------------------------
(***************************************************************************)
(* Properties.                                                             *)
(***************************************************************************)

\* One flat pass over the source: what the partition of d holds when it knows every row
\* ingested by `horizon`, with no partials, no sealing and no incrementality.
FlatPass(src, d, horizon) ==
    LET due    == {e \in src : e.day <= d /\ e.arr <= horizon /\ d < e.end}
        window == {e \in due : InWindow(e.day, d)}
        rows   == {e.ent : e \in IF Spine = "active_window" /\ Window > 0 THEN window ELSE due}
    IN [rows    |-> rows,
        window  |-> window,
        allTime |-> [e \in Event |-> IF e \in due /\ e.ent \in rows THEN 1 ELSE 0]]

BruteForce(d, horizon) == FlatPass(source, d, horizon)

\* What the source must keep to for the contract of a partition to mean anything.
SourceInContract == \A e \in source : OnTime(e) /\ Permanent(e)

\* Between two runs, the partition of every date, in the warehouse and on object storage,
\* equals the brute-force recomputation for what the pipeline was allowed to see: rows
\* ingested until Late days after the date, or until the newest run.  Only a date whose
\* last revision was the business of a run that failed for good is let off, until a repeated
\* run makes up for it.  A repeated run of an earlier date takes nothing back, even if it fails.
SettlesExactly ==
    ~Active /\ job = Idle /\ SourceInContract =>
        \A d \in Day :
            LET horizon == IF d + Late < newest THEN d + Late ELSE newest
            IN (d <= newest /\ horizon \notin lost) =>
                   /\ mart[d] # EmptyPartition => mart[d] = BruteForce(d, horizon)
                   /\ store[d] # EmptyPartition => store[d] = BruteForce(d, horizon)

\* The warehouse, the DAG and its retries implement the contract that consumers of the offline
\* store have with it, also when runs are repeated out of order: whatever is published for a
\* date is, at that moment, the flat pass over the rows ingested until the newest date that the
\* partial layer was built for, or until the date is final.
Contract == INSTANCE ProvisionalStore
                WITH now <- ranTo, published <- store, Flat <- FlatPass, Nothing <- EmptyPartition

ImplementsContract == Contract!Spec

\* The watermark test never stops a scheduled run: the dates that the DAG serves and refreshes
\* are at or after the watermark, although a refresh may move it.  Only a run that the operator
\* repeats may be stopped.
OnlyRepeatsAreRefused == At("watermark_test") /\ WatermarkAhead(job.target) => run.manual

\* The generated monotonicity test never fails.
MonotonicityTestStaysGreen == At("mart_test") => ~NotMonotone(mart[job.target])

\* The windows and all_time are one fold over different ranges: what a partition counts in
\* a bounded window, it counts in all_time.  (The monotonicity test compares the counts only.)
WindowsWithinAllTime ==
    \A d \in Day : \A e \in mart[d].window : mart[d].allTime[e] > 0

\* Object storage never holds the future, and what it counts of a date, in the window or in
\* all_time, is never taken back by a later publication of that date, unless the source has
\* ended the event.
PublishedOnlyGrows ==
    [][\A d \in Day :
           /\ HoldsNoFuture(store'[d], d)
           /\ \A e \in Event :
                 Permanent(e) => /\ e \in store[d].window => e \in store'[d].window
                                 /\ store[d].allTime[e] > 0 => store'[d].allTime[e] > 0]_allVars

\* No DAG run is stuck for good: it succeeds, or its retries are spent.
RunsEnd == Active ~> ~Active

\* If no run is lost altogether, or a manual run of the day fixes it, every event that keeps to
\* the lateness contract comes to be counted, for good, in the published partition of its own
\* day.
LateEventsArrive ==
    <>[](lost = {}) =>
        \A e \in Event :
            (e \in source /\ OnTime(e) /\ Permanent(e) /\ FirstDate <= e.day /\ e.day + Late <= LastDay)
                ~> [](store[e.day].allTime[e] = 1)

=============================================================================
