---------------------- MODULE DailyDag_contract_proofs ----------------------
(***************************************************************************)
(* The daily DAG implements the contract that the readers of the offline   *)
(* store have with it, for every source in contract, every calendar and    *)
(* lateness, any gaps, retries, failures and repeated runs.                *)
(***************************************************************************)
EXTENDS DailyDag_proofs

-----------------------------------------------------------------------------
(***************************************************************************)
(* Whose work is in flight, and how far the partial layer has got.         *)
(***************************************************************************)

\* The invocation in flight is the one its task has started, or the initial load.
JobOfRun ==
    /\ Active /\ job # Idle =>
           /\ job.from = None
           /\ \/ /\ Task \in DOMAIN Invocation
                 /\ job.kind = Invocation[Task] /\ job.target = run.date
              \/ /\ Task = "refresh_revision_window" /\ run.dates # << >>
                 /\ job.kind = "build" /\ job.target = Head(run.dates)
    /\ ~Active /\ job # Idle =>
           /\ newest = None /\ ~ColdStart
           /\ job.kind = "backfill" /\ job.target = FirstDate /\ job.from \in BackfillFroms

\* A run is for a date the DAG has come to, and once its first task is done the partial layer
\* has been built for it; no build is for a later date.
LayerOfRun ==
    /\ Active => /\ newest # None /\ run.date <= newest
                 /\ ~run.manual => run.date = newest
                 /\ run.at > 1 => run.date <= ranTo
    /\ newest = None => ranTo \in {None, FirstDate}
    /\ newest # None => ranTo <= newest /\ (~ColdStart => partialsExist)
    /\ partialsExist => ranTo # None

\* The accumulator is sealed no further than the layer allows.
SealedWithinLayer == \A x \in Entity : stateAsOf[x] # None => stateAsOf[x] + Late <= ranTo

\* The dates that a task has resolved lie in the late-arrival window of its run, and those that
\* it is going to refresh are not behind the watermark: no refresh of another one moves it past
\* them.
DatesOfRun ==
    /\ run.resolved => Active /\ Task \in {"refresh_revision_window", "publish_offline_store"}
    /\ run.dates # << >> => run.resolved
    /\ \A i \in DOMAIN run.dates :
           /\ run.dates[i] <= run.date /\ run.date - Late <= run.dates[i]
           /\ Task = "refresh_revision_window" =>
                  run.dates[i] < run.date /\ \A x \in Entity : stateAsOf[x] <= run.dates[i]

WorkOfRun == JobOfRun /\ LayerOfRun /\ SealedWithinLayer /\ DatesOfRun

\* What is known of every state of the DAG so far.
Known == DagTypeInv /\ RetryInv /\ LayerInv

LEMMA ChainOrder ==
    ASSUME NEW i \in DOMAIN Chain
    PROVE  /\ i \in 1 .. Len(Chain) /\ Len(Chain) \in {4, 5}
           /\ i = 1 <=> Chain[i] = "build_daily_partials"
           /\ i = 2 <=> Chain[i] = "fold_alltime_state"
           /\ i = 3 <=> Chain[i] = "build_and_test_mart"
           /\ i = Len(Chain) <=> Chain[i] = "publish_offline_store"
           /\ i > 3 <=> Chain[i] \in {"refresh_revision_window", "publish_offline_store"}
           /\ Chain[i] = "refresh_revision_window" => Late > 0
           /\ i = 4 /\ Late > 0 => Chain[i] = "refresh_revision_window"
<1>1. CASE Late > 0
  BY <1>1 DEF Chain
<1>2. CASE ~(Late > 0)
  BY <1>2 DEF Chain
<1> QED BY <1>1, <1>2

\* The types of a run, as the proofs below use them.
LEMMA RunType ==
    ASSUME DagTypeInv, Active
    PROVE  /\ run.date \in Day /\ run.date \in Nat /\ FirstDate <= run.date /\ Late < run.date
           /\ run.manual \in BOOLEAN /\ run.resolved \in BOOLEAN
           /\ run.at \in DOMAIN Chain /\ run.at \in Nat
           /\ run.dates \in Seq(Day)
           /\ \A i \in DOMAIN run.dates : run.dates[i] \in Day /\ run.dates[i] \in Nat
           /\ Late \in Nat
<1>1. /\ run.date \in Day /\ run.at \in DOMAIN Chain /\ run.dates \in Seq(Day)
      /\ run.manual \in BOOLEAN /\ run.resolved \in BOOLEAN /\ FirstDate <= run.date
  BY DEF DagTypeInv, DagTypeOK, Active
<1>2. run.at \in Nat
  BY <1>1, ChainType
<1> QED BY <1>1, <1>2, DayAssumption, DagAssumption DEF Day

\* Once a task is done or an attempt at it has failed, the run is over or is at a task of which
\* nothing has been done yet.
LEMMA RunAfter ==
    ASSUME DagTypeInv, Active, TaskDone \/ AttemptFails, run' # NoRun
    PROVE  /\ run'.date = run.date /\ run'.manual = run.manual
           /\ run'.resolved = FALSE /\ run'.dates = << >>
           /\ run'.at = run.at \/ (TaskDone /\ run'.at = run.at + 1 /\ run.at # Len(Chain))
<1>1. \/ AtTask(run.at, run.tries + 1)
      \/ TaskDone /\ run.at # Len(Chain) /\ AtTask(run.at + 1, 0)
  BY DEF TaskDone, AttemptFails, RunFails
<1> QED BY <1>1 DEF AtTask, NoRun

\* An attempt does not fail and get the task done.
LEMMA DoneOrFailed ==
    ASSUME DagTypeInv, Active, TaskDone, AttemptFails
    PROVE  run' = NoRun
<1>1. SUFFICES ASSUME run' # NoRun PROVE FALSE
  OBVIOUS
<1>2. run.at \in Nat /\ AtTask(run.at + 1, 0) /\ AtTask(run.at, run.tries + 1)
  BY <1>1, RunType DEF TaskDone, AttemptFails, RunFails
<1>3. run'.at = run.at + 1 /\ run'.at = run.at
  BY <1>2 DEF AtTask, NoRun
<1> QED BY <1>2, <1>3

\* The invocation goes on with the same job, or is over.
LEMMA JobMoves ==
    ASSUME TypeOK, Work
    PROVE  /\ job # Idle /\ source' = source
           /\ \/ job' = Idle
              \/ job' # Idle /\ Advance /\ job'.kind = job.kind /\ job'.target = job.target
                 /\ job'.from = job.from /\ job'.todo = Tail(job.todo)
<1>1. job # Idle /\ source' = source
  BY DEF Work, BuildStaging, BuildPartials, BuildState, WatermarkTest, BuildMart, MartTest, At, Idle
<1>2. Advance \/ job' = Idle
  BY DEF Work, BuildStaging, BuildPartials, BuildState, WatermarkTest, BuildMart, MartTest
<1> QED BY <1>1, <1>2, AdvanceTo

\* The node that dbt is working on, and the one it goes on to.
LEMMA WorkNode ==
    ASSUME TypeOK, RetryInv, Work
    PROVE  \E i \in 1 .. Len(Plan[job.kind]) :
               /\ GotTo(i, job)
               /\ \A node : At(node) => node = Plan[job.kind][i]
               /\ BuildStaging  => Plan[job.kind][i] = "staging"
               /\ BuildPartials => Plan[job.kind][i] = "partials"
               /\ BuildState    => Plan[job.kind][i] = "state"
               /\ WatermarkTest => Plan[job.kind][i] = "watermark_test"
               /\ BuildMart     => Plan[job.kind][i] = "mart"
               /\ MartTest      => Plan[job.kind][i] = "mart_test"
               /\ i = Len(Plan[job.kind]) <=> Tail(job.todo) = << >>
               /\ job' # Idle => /\ i + 1 \in 1 .. Len(Plan[job.kind])
                                 /\ Head(job'.todo) = Plan[job.kind][i + 1]
<1>1. job # Idle /\ Plan[job.kind] \in Seq(Node)
  BY JobMoves, JobType
<1>2. PICK i \in 1 .. Len(Plan[job.kind]) : GotTo(i, job)
  BY <1>1 DEF RetryInv, OnPlan
<1>3. /\ \A node : At(node) => node = Plan[job.kind][i]
      /\ Tail(job.todo) = SubSeq(Plan[job.kind], i + 1, Len(Plan[job.kind]))
      /\ i = Len(Plan[job.kind]) <=> Tail(job.todo) = << >>
  BY <1>1, <1>2, NodeAt
<1>4. ASSUME job' # Idle
      PROVE  i + 1 \in 1 .. Len(Plan[job.kind]) /\ Head(job'.todo) = Plan[job.kind][i + 1]
  <2>1. job'.todo = Tail(job.todo) /\ Tail(job.todo) # << >>
    BY <1>1, <1>4, JobMoves, AdvanceTo
  <2>2. i + 1 \in 1 .. Len(Plan[job.kind])
    BY <1>1, <1>3, <2>1
  <2> QED BY <1>1, <1>3, <2>1, <2>2, RestOfPlan
<1> QED
  BY <1>2, <1>3, <1>4
  DEF BuildStaging, BuildPartials, BuildState, WatermarkTest, BuildMart, MartTest

\* An invocation that has not failed ends with the last node of its plan.
LEMMA LastNode ==
    ASSUME TypeOK, RetryInv, Work, job' = Idle, ~TestFails
    PROVE  /\ job.kind = "build" => MartTest
           /\ job.kind = "build_partials" => BuildPartials
           /\ job.kind = "backfill" => BuildMart /\ partialsExist
<1>1. job # Idle /\ Advance
  BY JobMoves
  DEF Work, BuildStaging, BuildPartials, BuildState, WatermarkTest, BuildMart, MartTest
<1>2. Tail(job.todo) = << >>
  BY <1>1, AdvanceTo
<1>3. PICK i \in 1 .. Len(Plan[job.kind]) :
          /\ GotTo(i, job)
          /\ BuildStaging  => Plan[job.kind][i] = "staging"
          /\ BuildPartials => Plan[job.kind][i] = "partials"
          /\ BuildState    => Plan[job.kind][i] = "state"
          /\ WatermarkTest => Plan[job.kind][i] = "watermark_test"
          /\ BuildMart     => Plan[job.kind][i] = "mart"
          /\ MartTest      => Plan[job.kind][i] = "mart_test"
          /\ i = Len(Plan[job.kind]) <=> Tail(job.todo) = << >>
  BY WorkNode
<1>4. i = Len(Plan[job.kind])
  BY <1>2, <1>3
<1>5. job.kind = "build" => Plan[job.kind][i] = "mart_test"
  BY <1>4 DEF Plan
<1>6. job.kind = "build_partials" => Plan[job.kind][i] = "partials"
  BY <1>4 DEF Plan
<1>7. job.kind = "backfill" => Plan[job.kind][i] = "mart" /\ i = 4 /\ Plan[job.kind][2] = "partials"
  BY <1>4 DEF Plan
<1>8. job.kind = "backfill" => partialsExist
  BY <1>3, <1>7 DEF GotTo, Settled
<1> QED BY <1>3, <1>5, <1>6, <1>7, <1>8 DEF Work

\* The shape of the known facts.
LEMMA KnownType == ASSUME Known PROVE TypeOK /\ DagTypeInv /\ RetryInv /\ LayerInv
BY DEF Known, DagTypeInv, DagTypeOK

LEMMA NextJobOfRun ==
    ASSUME Known, WorkOfRun, [DagNext]_allVars
    PROVE  JobOfRun'
<1> USE DEF JobOfRun
<1>1. JobOfRun /\ TypeOK /\ DagTypeInv
  BY KnownType DEF WorkOfRun
<1>2. CASE UNCHANGED <<job, run, newest>>
  BY <1>1, <1>2 DEF Active, Task
<1>3. CASE job' = Idle
  BY <1>3
<1>4. CASE InitialLoad
  <2>1. PICK from \in BackfillFroms : Start("backfill", FirstDate, from)
    BY <1>4 DEF InitialLoad
  <2>2. ~ColdStart /\ newest = None /\ newest' = newest /\ run' = run
    BY <1>4 DEF InitialLoad, dagVars
  <2>3. ~Active
    BY <2>2 DEF WorkOfRun, LayerOfRun
  <2> QED BY <2>1, <2>2, <2>3 DEF Start, Active
<1>5. CASE RunDbt
  BY <1>5 DEF RunDbt, Start, dagVars, Active, Task
<1>6. CASE Refresh
  BY <1>6 DEF Refresh, Start, dagVars, Active, Task
<1>7. CASE DbtStep /\ job' # Idle
  <2>1. job # Idle /\ job'.kind = job.kind /\ job'.target = job.target /\ job'.from = job.from
    BY <1>1, <1>7, JobMoves DEF DbtStep
  <2>2. run' = run /\ newest' = newest
    BY <1>7 DEF DbtStep
  <2> QED BY <1>1, <2>1, <2>2 DEF Active, Task
<1>8. CASE \E T \in Day : Schedule(T) \/ Rerun(T)
  BY <1>3, <1>8 DEF Schedule, Rerun, vars
<1>9. CASE Resolve \/ EndOfDates
  BY <1>3, <1>9 DEF Resolve, EndOfDates, vars
<1>10. CASE Publish
  <2>1. job = Idle
    BY <1>1, <1>10 DEF Publish, Invocation
  <2> QED BY <1>3, <1>10, <2>1 DEF Publish, vars
<1>11. CASE Fault
  BY <1>3, <1>11 DEF Fault, Abort, vars
<1> QED
  BY <1>2, <1>3, <1>4, <1>5, <1>6, <1>7, <1>8, <1>9, <1>10, <1>11
  DEF DagNext, Progress, allVars, vars, dagVars

\* Whatever a task's attempt ends in, the layer is as far as the run's place in its chain says.
LEMMA LayerAfterTask ==
    ASSUME Known, WorkOfRun, Active, TaskDone \/ AttemptFails,
           TaskDone /\ run.at = 1 => (run.date <= ranTo' \/ AttemptFails),
           ranTo' \in Nat, ranTo <= ranTo', newest' = newest,
           newest # None => ranTo' <= newest /\ (partialsExist => partialsExist'),
           partialsExist' => ranTo' # None
    PROVE  LayerOfRun'
<1>1. ranTo \in Nat /\ newest # None /\ run.date \in Nat /\ run.at \in Nat
  BY KnownType, RunType, DayAssumption DEF TypeOK, Day, None, WorkOfRun, LayerOfRun
<1>2. CASE run' = NoRun
  BY <1>1, <1>2 DEF WorkOfRun, LayerOfRun, Active
<1>3. CASE run' # NoRun
  <2>1. /\ run'.date = run.date /\ run'.manual = run.manual
        /\ run'.at = run.at \/ (TaskDone /\ run'.at = run.at + 1)
    BY <1>3, RunAfter, KnownType
  <2>2. run'.at > 1 => run.date <= ranTo'
    <3>1. CASE run.at > 1
      BY <1>1, <3>1 DEF WorkOfRun, LayerOfRun
    <3>2. CASE ~(run.at > 1)
      <4>1. run.at = 1
        BY <3>2, KnownType, RunType, ChainType
      <4>2. TaskDone => ~AttemptFails
        BY <1>3, KnownType, DoneOrFailed
      <4> QED BY <2>1, <4>1, <4>2
    <3> QED BY <3>1, <3>2
  <2> QED BY <1>1, <2>1, <2>2 DEF WorkOfRun, LayerOfRun, Active
<1> QED BY <1>2, <1>3

\* How far one node of dbt takes the layer.
LEMMA LayerAfterWork ==
    ASSUME Known, Work
    PROVE  /\ ranTo \in Nat /\ ranTo' \in Nat /\ ranTo <= ranTo'
           /\ partialsExist => partialsExist'
           /\ ranTo' = ranTo \/ (BuildPartials /\ ranTo' = job.target)
           /\ BuildPartials => job.target <= ranTo' /\ partialsExist' /\ ranTo' # None
           /\ ~BuildPartials => partialsExist' = partialsExist
<1>1. job.target \in Nat /\ job.target > 0 /\ ranTo \in Nat
  BY KnownType, JobMoves, JobType, DayAssumption DEF TypeOK, Day, None
<1>2. CASE BuildPartials
  <2>1. ranTo' = (IF job.target > ranTo THEN job.target ELSE ranTo) /\ partialsExist' = TRUE
    BY <1>2 DEF BuildPartials
  <2> QED BY <1>1, <1>2, <2>1 DEF None
<1>3. CASE ~BuildPartials
  <2>1. ranTo' = ranTo /\ partialsExist' = partialsExist
    BY <1>3 DEF Work, BuildStaging, BuildState, WatermarkTest, BuildMart, MartTest, warehouse
  <2> QED BY <1>1, <1>3, <2>1
<1> QED BY <1>2, <1>3

\* No invocation is for a later date than the DAG has come to.
LEMMA TargetBound ==
    ASSUME Known, WorkOfRun, job # Idle
    PROVE  /\ job.target \in Nat /\ job.target > 0
           /\ Active => newest # None /\ job.target <= run.date /\ job.target <= newest
           /\ Active /\ job.target # run.date => run.at > 1
           /\ ~Active => newest = None /\ job.target = FirstDate
<1>1. job.target \in Nat /\ job.target > 0
  BY KnownType, JobType
<1>2. CASE Active
  <2>1. /\ run.date \in Nat /\ newest # None /\ newest \in Nat /\ run.date <= newest
        /\ run.dates \in Seq(Day) /\ run.at \in DOMAIN Chain /\ run.at \in Nat
    BY <1>2, KnownType, RunType, DayAssumption
    DEF WorkOfRun, LayerOfRun, DagTypeInv, DagTypeOK, Day, None
  <2>2. CASE job.target = run.date
    BY <1>1, <1>2, <2>1, <2>2
  <2>3. CASE job.target # run.date
    <3>1. Task = "refresh_revision_window" /\ run.dates # << >> /\ job.target = Head(run.dates)
      BY <1>2, <2>3 DEF WorkOfRun, JobOfRun
    <3>2. 1 \in DOMAIN run.dates /\ job.target = run.dates[1]
      BY <2>1, <3>1
    <3>3. run.dates[1] <= run.date
      BY <3>2 DEF WorkOfRun, DatesOfRun
    <3>4. run.at > 3
      BY <2>1, <3>1, ChainOrder DEF Task
    <3> QED BY <1>1, <1>2, <2>1, <3>2, <3>3, <3>4
  <2> QED BY <2>2, <2>3
<1>3. CASE ~Active
  BY <1>1, <1>3 DEF WorkOfRun, JobOfRun
<1> QED BY <1>2, <1>3

LEMMA NextLayerOfRun ==
    ASSUME Known, WorkOfRun, [DagNext]_allVars
    PROVE  LayerOfRun'
<1>1. LayerOfRun /\ TypeOK /\ DagTypeInv
  BY KnownType DEF WorkOfRun
<1>2. /\ ranTo \in Nat /\ newest \in Nat /\ partialsExist \in BOOLEAN /\ FirstDate \in Nat
      /\ FirstDate > 0
  BY <1>1, DayAssumption, DagAssumption DEF TypeOK, DagTypeInv, DagTypeOK, Day, None
<1>3. CASE UNCHANGED <<ranTo, partialsExist, run, newest>>
  BY <1>1, <1>3 DEF LayerOfRun, Active
<1>4. ASSUME NEW T \in Day, Schedule(T) PROVE LayerOfRun'
  <2>1. run' = [date |-> T, manual |-> FALSE, at |-> 1, resolved |-> FALSE, dates |-> << >>,
                tries |-> 0]
    BY <1>4 DEF Schedule, NoRun
  <2>2. newest' = T /\ T \in Nat /\ T > 0 /\ ranTo' = ranTo /\ partialsExist' = partialsExist
    BY <1>4 DEF Schedule, vars, warehouse, Day
  <2>3. CASE newest = None
    <3>1. ColdStart /\ T = FirstDate /\ ranTo <= FirstDate
      BY <1>1, <1>2, <1>4, <2>3 DEF Schedule, LayerOfRun, None
    <3> QED BY <1>1, <2>1, <2>2, <3>1 DEF LayerOfRun, Active, None
  <2>4. CASE newest # None
    BY <1>1, <1>2, <1>4, <2>1, <2>2, <2>4 DEF LayerOfRun, Active, None, Schedule
  <2> QED BY <2>3, <2>4
<1>5. ASSUME NEW T \in Day, Rerun(T) PROVE LayerOfRun'
  <2>1. run' = [date |-> T, manual |-> TRUE, at |-> 1, resolved |-> FALSE, dates |-> << >>,
                tries |-> 0]
    BY <1>5 DEF Rerun, NoRun
  <2>2. newest' = newest /\ ranTo' = ranTo /\ partialsExist' = partialsExist
    BY <1>5 DEF Rerun, vars, warehouse
  <2> QED BY <1>1, <1>5, <2>1, <2>2 DEF LayerOfRun, Active, Rerun
<1>6. CASE DbtStep
  <2>1. /\ job # Idle /\ ranTo' \in Nat /\ ranTo <= ranTo' /\ (partialsExist => partialsExist')
        /\ ranTo' = ranTo \/ ranTo' = job.target
        /\ BuildPartials => job.target <= ranTo' /\ partialsExist' /\ ranTo' # None
        /\ ~BuildPartials => ranTo' = ranTo /\ partialsExist' = partialsExist
    BY <1>1, <1>6, JobMoves, LayerAfterWork DEF DbtStep
  <2>2. partialsExist' => ranTo' # None
    BY <1>1, <2>1 DEF LayerOfRun
  <2>3. CASE Active /\ job' = Idle
    <3>1. newest' = newest /\ newest # None /\ ranTo' <= newest
      BY <1>1, <1>2, <1>6, <2>1, <2>3, TargetBound DEF DbtStep, LayerOfRun
    <3>2. CASE run.dates # << >> /\ ~TestFails
      <4>1. run'.date = run.date /\ run'.manual = run.manual /\ run'.at = run.at
        BY <1>1, <1>6, <2>3, <3>2 DEF DbtStep, DagTypeInv, DagTypeOK, Active
      <4>2. run.at > 1 => run.date <= ranTo'
        <5>1. run.date \in Nat
          BY <1>1, <2>3, RunType
        <5> QED BY <1>1, <1>2, <2>1, <2>3, <5>1 DEF LayerOfRun
      <4> QED BY <1>1, <2>1, <2>2, <2>3, <3>1, <4>1, <4>2 DEF LayerOfRun
    <3>3. CASE run.dates = << >> \/ TestFails
      <4>1. (TaskDone /\ ~TestFails) \/ AttemptFails
        BY <1>6, <2>3, <3>3 DEF DbtStep
      <4>2. ASSUME TaskDone, ~TestFails, run.at = 1 PROVE run.date <= ranTo'
        <5>1. Task = "build_daily_partials"
          BY <1>1, <2>3, <4>2, RunType, ChainOrder DEF Task
        <5>2. job.kind = "build_partials" /\ job.target = run.date
          BY <2>1, <2>3, <5>1 DEF WorkOfRun, JobOfRun, Invocation
        <5>3. BuildPartials
          BY <1>6, <2>3, <4>2, <5>2, KnownType, LastNode DEF DbtStep
        <5> QED BY <2>1, <5>2, <5>3
      <4> QED BY <2>1, <2>2, <2>3, <3>1, <4>1, <4>2, LayerAfterTask
    <3> QED BY <3>2, <3>3
  <2>4. CASE ~Active /\ job' = Idle
    <3>1. /\ run' = run /\ newest' = FirstDate /\ newest = None /\ job.kind = "backfill"
          /\ job.target = FirstDate
      BY <1>6, <2>1, <2>4 DEF DbtStep, WorkOfRun, JobOfRun
    <3>2. ranTo' <= FirstDate
      BY <1>1, <1>2, <2>1, <3>1 DEF LayerOfRun, None
    <3>3. ~TestFails
      <4>1. PICK i \in 1 .. Len(Plan[job.kind]) : \A node : At(node) => node = Plan[job.kind][i]
        BY <1>6, KnownType, WorkNode DEF DbtStep
      <4>2. Plan["backfill"][i] \notin {"watermark_test", "mart_test"}
        BY <3>1, <4>1 DEF Plan
      <4> QED BY <3>1, <4>1, <4>2 DEF TestFails
    <3>4. partialsExist'
      BY <1>6, <2>1, <2>4, <3>1, <3>3, KnownType, LastNode DEF DbtStep
    <3> QED BY <1>2, <2>2, <2>4, <3>1, <3>2, <3>4 DEF LayerOfRun, Active, None
  <2>5. CASE job' # Idle
    <3>1. run' = run /\ newest' = newest
      BY <1>6, <2>5 DEF DbtStep
    <3>2. Active => ranTo' <= newest
      BY <1>1, <1>2, <2>1, TargetBound DEF LayerOfRun
    <3>3. newest = None => ranTo' \in {None, FirstDate}
      BY <1>1, <2>1, TargetBound DEF LayerOfRun
    <3>4. ~Active /\ newest # None => FALSE
      BY <2>1, TargetBound
    <3>5. Active => run.date \in Nat
      BY <1>1, RunType
    <3> QED BY <1>1, <1>2, <2>1, <2>2, <3>1, <3>2, <3>3, <3>4, <3>5 DEF LayerOfRun, Active
  <2> QED BY <2>3, <2>4, <2>5
<1>7. CASE Resolve
  <2>1. /\ run'.date = run.date /\ run'.manual = run.manual /\ run'.at = run.at
        /\ newest' = newest /\ ranTo' = ranTo /\ partialsExist' = partialsExist
        /\ Active
    BY <1>1, <1>7 DEF Resolve, vars, warehouse, DagTypeInv, DagTypeOK, Active
  <2> QED BY <1>1, <2>1 DEF LayerOfRun
<1>8. ASSUME Active, UNCHANGED <<ranTo, partialsExist, newest>>,
             \/ run.at > 1 /\ (TaskDone \/ AttemptFails)
             \/ AttemptFails
             \/ run' = [run EXCEPT !.dates = Tail(@)]
      PROVE  LayerOfRun'
  <2>1. CASE run' = [run EXCEPT !.dates = Tail(@)]
    <3>1. run'.date = run.date /\ run'.manual = run.manual /\ run'.at = run.at
      BY <1>1, <1>8, <2>1 DEF DagTypeInv, DagTypeOK, Active
    <3> QED BY <1>1, <1>8, <3>1 DEF LayerOfRun
  <2>2. CASE run' # [run EXCEPT !.dates = Tail(@)]
    <3>1. newest # None /\ ranTo <= newest /\ (partialsExist => ranTo # None)
      BY <1>1, <1>8 DEF LayerOfRun
    <3>2. TaskDone /\ run.at = 1 => run.date <= ranTo' \/ AttemptFails
      BY <1>8, <2>2
    <3>3. TaskDone \/ AttemptFails
      BY <1>8, <2>2
    <3> QED BY <1>2, <1>8, <3>1, <3>2, <3>3, LayerAfterTask
  <2> QED BY <2>1, <2>2
<1>9. CASE Publish
  <2>1. Active /\ UNCHANGED <<ranTo, partialsExist, newest>>
    BY <1>9 DEF Publish, vars, warehouse
  <2> QED BY <1>8, <1>9, <2>1 DEF Publish
<1>10. CASE EndOfDates
  <2>1. Active /\ UNCHANGED <<ranTo, partialsExist, newest>>
    BY <1>10 DEF EndOfDates, vars, warehouse
  <2>2. run.at > 1
    <3>1. Task \in {"refresh_revision_window", "publish_offline_store"}
      BY <1>10 DEF EndOfDates, WorkOfRun, DatesOfRun
    <3>2. run.at \in DOMAIN Chain /\ run.at \in Nat
      BY <1>1, <2>1, RunType
    <3>3. run.at > 3
      BY <3>1, <3>2, ChainOrder DEF Task
    <3> QED BY <3>2, <3>3
  <2> QED BY <1>8, <1>10, <2>1, <2>2 DEF EndOfDates
<1>11. CASE Fault
  <2>1. UNCHANGED <<ranTo, partialsExist, newest>>
    BY <1>11 DEF Fault, Abort, vars, warehouse
  <2>2. CASE Active
    BY <1>8, <1>11, <2>1, <2>2 DEF Fault
  <2>3. CASE ~Active
    BY <1>3, <1>11, <2>1, <2>3 DEF Fault
  <2> QED BY <2>2, <2>3
<1>12. CASE InitialLoad \/ RunDbt \/ Refresh
  BY <1>3, <1>12 DEF InitialLoad, RunDbt, Refresh, Start, warehouse, dagVars
<1> QED
  BY <1>3, <1>4, <1>5, <1>6, <1>7, <1>9, <1>10, <1>11, <1>12
  DEF DagNext, Progress, allVars, vars, warehouse, dagVars

\* The accumulator and the mart are built for no later date than the layer.
LEMMA BuiltWithinLayer ==
    ASSUME Known, WorkOfRun, BuildState \/ BuildMart
    PROVE  job.target <= ranTo
<1>1. /\ TypeOK /\ RetryInv /\ DagTypeInv /\ Work /\ job # Idle
      /\ ranTo \in Nat /\ job.target \in Nat /\ FirstDate \in Nat
  BY KnownType, JobMoves, JobType, DayAssumption, DagAssumption DEF Work, TypeOK, Day, None
<1>2. PICK i \in 1 .. Len(Plan[job.kind]) :
          /\ GotTo(i, job)
          /\ BuildState => Plan[job.kind][i] = "state"
          /\ BuildMart  => Plan[job.kind][i] = "mart"
  BY <1>1, WorkNode
<1>3. CASE Active
  <2>1. job.target <= run.date /\ run.at \in DOMAIN Chain /\ run.at \in Nat /\ run.date \in Nat
    BY <1>1, <1>3, TargetBound, RunType
  <2>2. CASE run.at = 1
    <3>1. Task = "build_daily_partials"
      BY <2>1, <2>2, ChainOrder DEF Task
    <3>2. job.kind = "build_partials"
      BY <1>1, <1>3, <3>1 DEF WorkOfRun, JobOfRun, Invocation
    <3> QED BY <1>2, <3>2 DEF Plan
  <2>3. CASE run.at # 1
    <3>1. run.at > 1
      BY <2>1, <2>3, ChainType
    <3>2. run.date <= ranTo
      BY <1>3, <3>1 DEF WorkOfRun, LayerOfRun
    <3> QED BY <1>1, <2>1, <3>2
  <2> QED BY <2>2, <2>3
<1>4. CASE ~Active
  <2>1. job.kind = "backfill" /\ job.target = FirstDate /\ newest = None
    BY <1>1, <1>4 DEF WorkOfRun, JobOfRun
  <2>2. Plan["backfill"][2] = "partials" /\ 2 \in 1 .. (i - 1)
    BY <1>2, <2>1 DEF Plan
  <2>3. Settled("partials", job.kind, job.target, job.from)
    BY <1>2, <2>1, <2>2 DEF GotTo
  <2>4. partialsExist
    BY <2>3 DEF Settled
  <2> QED BY <1>1, <2>1, <2>4 DEF WorkOfRun, LayerOfRun
<1> QED BY <1>3, <1>4

LEMMA NextSealedWithinLayer ==
    ASSUME Known, WorkOfRun, [DagNext]_allVars
    PROVE  SealedWithinLayer'
<1>1. TypeOK /\ DagTypeInv /\ [Next]_vars
  BY KnownType, DagStepIsStep
<1>2. \A x \in Entity : stateAsOf[x] \in Nat
  BY <1>1, DayAssumption DEF TypeOK, Day, None
<1>3. ranTo \in Nat /\ Late \in Nat
  BY <1>1, DayAssumption DEF TypeOK, Day, None
<1>4. CASE BuildState
  <2>1. job.target <= ranTo /\ ranTo' = ranTo /\ job.target \in Nat
    BY <1>4, BuiltWithinLayer, <1>1, JobMoves, JobType DEF BuildState, Work
  <2>2. ASSUME NEW x \in Entity
        PROVE  stateAsOf'[x] \in {job.target - Late, stateAsOf[x], None}
    BY <1>4 DEF BuildState
  <2> QED BY <1>2, <1>3, <2>1, <2>2 DEF WorkOfRun, SealedWithinLayer
<1>5. CASE ~BuildState
  <2>1. stateAsOf' = stateAsOf
    BY <1>1, <1>5 DEF Next, Work, vars, warehouse, Start, BuildStaging, BuildPartials,
                      WatermarkTest, BuildMart, MartTest, Abort
  <2>2. ranTo' \in Nat /\ ranTo <= ranTo'
    <3>1. CASE Work
      BY <3>1, LayerAfterWork
    <3>2. CASE ~Work
      BY <1>1, <1>3, <3>2 DEF Next, vars, Start, Abort
    <3> QED BY <3>1, <3>2
  <2> QED BY <1>2, <1>3, <2>1, <2>2 DEF WorkOfRun, SealedWithinLayer
<1> QED BY <1>4, <1>5

\* Refreshing one date does not move the watermark past another that is still to be refreshed.
LEMMA RefreshStaysBehind ==
    ASSUME Known, WorkOfRun, Work, Active, Task = "refresh_revision_window",
           NEW i \in DOMAIN run.dates
    PROVE  \A x \in Entity : stateAsOf'[x] <= run.dates[i]
<1>1. TypeOK /\ DagTypeInv /\ job # Idle
  BY KnownType, JobMoves
<1>2. /\ run.dates \in Seq(Day) /\ run.date \in Nat /\ Late \in Nat
      /\ \A k \in DOMAIN run.dates : run.dates[k] \in Nat
  BY <1>1, RunType
<1>3. job.kind = "build" /\ run.dates # << >> /\ job.target = Head(run.dates)
  BY <1>1 DEF WorkOfRun, JobOfRun, Invocation
<1>4. job.target = run.dates[1] /\ 1 \in DOMAIN run.dates
  BY <1>2, <1>3
<1>5. job.target < run.date /\ run.date - Late <= run.dates[i]
  BY <1>4 DEF WorkOfRun, DatesOfRun
<1>6. \A x \in Entity : stateAsOf[x] \in Nat /\ stateAsOf[x] <= run.dates[i]
  BY <1>1, DayAssumption DEF WorkOfRun, DatesOfRun, TypeOK, Day, None
<1>7. ASSUME NEW x \in Entity
      PROVE  stateAsOf'[x] = job.target - Late \/ stateAsOf'[x] = stateAsOf[x]
  BY <1>3 DEF Work, BuildState, BuildStaging, BuildPartials, WatermarkTest, BuildMart, MartTest,
              warehouse
<1> QED BY <1>2, <1>4, <1>5, <1>6, <1>7

\* What holds of all the dates left holds of all but the first.
LEMMA NextDates ==
    ASSUME DagTypeInv, Active, run.dates # << >>, run' = [run EXCEPT !.dates = Tail(@)]
    PROVE  /\ run'.date = run.date /\ run'.manual = run.manual /\ run'.at = run.at
           /\ run'.resolved = run.resolved /\ run' # NoRun
           /\ \A i \in DOMAIN run'.dates : i + 1 \in DOMAIN run.dates /\ run'.dates[i] = run.dates[i + 1]
           /\ \A i \in DOMAIN run.dates : i = 1 \/ \E k \in DOMAIN run'.dates : run'.dates[k] = run.dates[i]
<1>1. run.dates \in Seq(Day) /\ run.at \in Nat /\ run.at > 0
  BY RunType, ChainType
<1>2. /\ run'.date = run.date /\ run'.manual = run.manual /\ run'.at = run.at
      /\ run'.resolved = run.resolved /\ run'.dates = Tail(run.dates)
  BY DEF DagTypeInv, DagTypeOK, Active
<1>3. run' # NoRun
  BY <1>1, <1>2 DEF NoRun
<1>4. ASSUME NEW i \in DOMAIN Tail(run.dates)
      PROVE  i + 1 \in DOMAIN run.dates /\ Tail(run.dates)[i] = run.dates[i + 1]
  BY <1>1
<1>5. ASSUME NEW i \in DOMAIN run.dates, i # 1
      PROVE  i - 1 \in DOMAIN Tail(run.dates) /\ Tail(run.dates)[i - 1] = run.dates[i]
  BY <1>1, <1>5
<1> QED BY <1>2, <1>3, <1>4, <1>5

\* The run's own date is published before those that have been refreshed.
LEMMA OwnDateFirst ==
    ASSUME NEW d \in Day, NEW ds \in Seq(Day)
    PROVE  \A i \in DOMAIN (<<d>> \o ds) :
               \/ i = 1 /\ (<<d>> \o ds)[i] = d
               \/ i - 1 \in DOMAIN ds /\ (<<d>> \o ds)[i] = ds[i - 1]
<1> TAKE i \in DOMAIN (<<d>> \o ds)
<1> DEFINE own == <<d>>
<1>1. own \in Seq(Day) /\ Len(own) = 1 /\ own[1] = d
  OBVIOUS
<1>2. Len(ds) \in Nat /\ DOMAIN ds = 1 .. Len(ds)
  OBVIOUS
<1> HIDE DEF own
<1>3. /\ own \o ds \in Seq(Day) /\ Len(own \o ds) = Len(own) + Len(ds)
      /\ \A k \in 1 .. Len(own) + Len(ds) :
             (own \o ds)[k] = IF k <= Len(own) THEN own[k] ELSE ds[k - Len(own)]
  BY <1>1, ConcatProperties, Zenon
<1>4. i \in 1 .. 1 + Len(ds)
  BY <1>2, <1>3 DEF own
<1>5. CASE i = 1
  BY <1>1, <1>3, <1>4, <1>5 DEF own
<1>6. CASE i # 1
  <2>1. i - 1 \in 1 .. Len(ds) /\ ~(i <= 1)
    BY <1>2, <1>4, <1>6
  <2>2. (own \o ds)[i] = ds[i - 1]
    BY <1>1, <1>3, <1>4, <2>1
  <2> QED BY <1>2, <2>1, <2>2 DEF own
<1> QED BY <1>5, <1>6

LEMMA NextDatesOfRun ==
    ASSUME Known, WorkOfRun, [DagNext]_allVars
    PROVE  DatesOfRun'
<1>1. TypeOK /\ DagTypeInv /\ DatesOfRun
  BY KnownType DEF WorkOfRun
<1>2. CASE UNCHANGED <<run, stateAsOf>>
  BY <1>1, <1>2 DEF DatesOfRun, Active, Task
<1>3. CASE run'.resolved = FALSE /\ run'.dates = << >>
  BY <1>3 DEF DatesOfRun
<1>4. CASE run' = NoRun
  BY <1>3, <1>4 DEF NoRun
<1>5. CASE \E T \in Day : Schedule(T) \/ Rerun(T)
  BY <1>3, <1>5 DEF Schedule, Rerun, NoRun
<1>6. ASSUME Active, TaskDone \/ AttemptFails PROVE DatesOfRun'
  BY <1>1, <1>3, <1>4, <1>6, RunAfter
<1>7. ASSUME Active, run.dates # << >>, run' = [run EXCEPT !.dates = Tail(@)],
             \A i \in DOMAIN run.dates : Task = "refresh_revision_window" =>
                 \A x \in Entity : stateAsOf'[x] <= run.dates[i]
      PROVE  DatesOfRun'
  <2>1. /\ run'.date = run.date /\ run'.at = run.at /\ run'.resolved = run.resolved
        /\ run' # NoRun
        /\ \A i \in DOMAIN run'.dates : i + 1 \in DOMAIN run.dates /\ run'.dates[i] = run.dates[i + 1]
    BY <1>1, <1>7, NextDates
  <2>2. Task' = Task /\ Active'
    BY <2>1 DEF Task, Active
  <2>3. run.resolved /\ Task \in {"refresh_revision_window", "publish_offline_store"}
    BY <1>1, <1>7 DEF DatesOfRun
  <2>4. ASSUME NEW i \in DOMAIN run'.dates
        PROVE  /\ run'.dates[i] <= run'.date /\ run'.date - Late <= run'.dates[i]
               /\ Task' = "refresh_revision_window" =>
                      run'.dates[i] < run'.date /\ \A x \in Entity : stateAsOf'[x] <= run'.dates[i]
    BY <1>1, <1>7, <2>1, <2>2 DEF DatesOfRun
  <2> QED BY <2>1, <2>2, <2>3, <2>4 DEF DatesOfRun
<1>8. CASE InitialLoad \/ RunDbt \/ Refresh
  BY <1>2, <1>8 DEF InitialLoad, RunDbt, Refresh, Start, warehouse, dagVars
<1>9. CASE Resolve
  <2>1. /\ Active /\ stateAsOf' = stateAsOf /\ run.date \in Nat /\ Late \in Nat /\ run.date > Late
        /\ run.date \in Day
    BY <1>1, <1>9, RunType DEF Resolve, vars, warehouse
  <2>2. /\ Watermark \in Nat /\ \A x \in Entity : stateAsOf[x] \in Nat /\ stateAsOf[x] <= Watermark
    BY <1>1, WatermarkIsMax, DayAssumption DEF TypeOK, Day, None
  <2> DEFINE rs == RefreshableDates(run.date, Late, Watermark)
  <2>3. \A i \in DOMAIN rs : /\ rs[i] \in Nat /\ rs[i] < run.date /\ run.date - Late <= rs[i]
                             /\ \A x \in Entity : stateAsOf[x] <= rs[i]
    <3> SUFFICES ASSUME NEW i \in DOMAIN rs
                 PROVE  /\ rs[i] \in Nat /\ rs[i] < run.date /\ run.date - Late <= rs[i]
                        /\ \A x \in Entity : stateAsOf[x] <= rs[i]
      OBVIOUS
    <3> HIDE DEF rs
    <3>1. /\ rs[i] = run.date - i
          /\ i \in Nat \ {0} /\ run.date - i >= Watermark /\ run.date - i >= run.date - Late
          /\ run.date - i > 0
      BY <2>1, <2>2, RefreshableRange DEF rs
    <3> QED BY <2>1, <2>2, <3>1
  <2> HIDE DEF rs
  <2>4. CASE Task = "refresh_revision_window"
    <3>1. /\ run' = [run EXCEPT !.resolved = TRUE, !.dates = rs]
      BY <1>9, <2>4 DEF Resolve, rs
    <3>2. run'.date = run.date /\ run'.at = run.at /\ run'.resolved = TRUE /\ run'.dates = rs
      BY <1>1, <2>1, <3>1 DEF DagTypeInv, DagTypeOK, Active
    <3>3. Task' = Task /\ Active'
      BY <3>2 DEF Task, Active, NoRun
    <3> QED BY <2>1, <2>3, <2>4, <3>2, <3>3 DEF DatesOfRun
  <2>5. CASE Task = "publish_offline_store"
    <3>1. run' = [run EXCEPT !.resolved = TRUE, !.dates = <<run.date>> \o rs] /\ rs \in Seq(Day)
      <4>1. Watermark \in Day \cup {None}
        BY <1>1, WatermarkIsMax
      <4> QED BY <1>9, <2>1, <2>5, <4>1, RefreshableType DEF Resolve, rs, PublishDates
    <3>2. /\ run'.date = run.date /\ run'.at = run.at /\ run'.resolved = TRUE
          /\ run'.dates = <<run.date>> \o rs
      BY <1>1, <2>1, <3>1 DEF DagTypeInv, DagTypeOK, Active
    <3>3. Task' = Task /\ Active'
      BY <3>2 DEF Task, Active, NoRun
    <3>4. \A i \in DOMAIN (<<run.date>> \o rs) :
              \/ i = 1 /\ (<<run.date>> \o rs)[i] = run.date
              \/ i - 1 \in DOMAIN rs /\ (<<run.date>> \o rs)[i] = rs[i - 1]
      <4>1. run.date \in Day /\ rs \in Seq(Day)
        BY <2>1, <3>1
      <4> QED BY <4>1, OwnDateFirst
    <3>5. \A i \in DOMAIN run'.dates : run'.dates[i] <= run.date /\ run.date - Late <= run'.dates[i]
      BY <2>1, <2>3, <3>2, <3>4
    <3> QED BY <2>5, <3>2, <3>3, <3>5 DEF DatesOfRun
  <2> QED BY <1>9, <2>4, <2>5 DEF Resolve
<1>10. CASE DbtStep
  <2>1. CASE Active /\ job' = Idle
    <3>1. CASE run.dates # << >> /\ ~TestFails
      BY <1>7, <1>10, <2>1, <3>1, RefreshStaysBehind DEF DbtStep
    <3>2. CASE ~(run.dates # << >> /\ ~TestFails)
      BY <1>6, <1>10, <2>1, <3>2 DEF DbtStep
    <3> QED BY <3>1, <3>2
  <2>2. CASE ~(Active /\ job' = Idle)
    <3>1. run' = run
      BY <1>10, <2>2 DEF DbtStep
    <3>2. ASSUME NEW i \in DOMAIN run.dates, Task = "refresh_revision_window"
          PROVE  \A x \in Entity : stateAsOf'[x] <= run.dates[i]
      <4>1. Active
        BY <1>1, <3>2 DEF DatesOfRun
      <4> QED BY <1>10, <3>2, <4>1, RefreshStaysBehind DEF DbtStep
    <3> QED BY <1>1, <3>1, <3>2 DEF DatesOfRun, Active, Task
  <2> QED BY <2>1, <2>2
<1>11. CASE Publish
  <2>1. stateAsOf' = stateAsOf /\ Active /\ run.dates # << >>
    BY <1>11 DEF Publish, vars, warehouse
  <2>2. run' = [run EXCEPT !.dates = Tail(@)] \/ AttemptFails
    BY <1>11 DEF Publish
  <2>3. Task = "publish_offline_store"
    BY <1>11 DEF Publish
  <2> QED BY <1>6, <1>7, <2>1, <2>2, <2>3
<1>12. CASE EndOfDates
  BY <1>6, <1>12 DEF EndOfDates
<1>13. CASE Fault
  <2>1. CASE Active
    BY <1>6, <1>13, <2>1 DEF Fault
  <2>2. CASE ~Active
    BY <1>2, <1>13, <2>2 DEF Fault, Abort, vars, warehouse
  <2> QED BY <2>1, <2>2
<1> QED
  BY <1>2, <1>5, <1>8, <1>9, <1>10, <1>11, <1>12, <1>13
  DEF DagNext, Progress, allVars, vars, warehouse, dagVars

LEMMA DagKnown == DagSpec => []Known
<1>1. Known <=> DagTypeInv /\ RetryInv /\ LayerInv
  BY DEF Known
<1>2. Disciplined
  BY DagIsDisciplined
<1> QED BY <1>1, <1>2, DagTypeInvariant, DagRunsTheProject, RetryInvariant, LayerInvariant, PTL

LEMMA WorkInvariant == DagSpec => []WorkOfRun
<1>1. DagInit => WorkOfRun
  BY DEF DagInit, Init, WorkOfRun, JobOfRun, LayerOfRun, SealedWithinLayer, DatesOfRun, Active, NoRun
<1>2. Known /\ WorkOfRun /\ [DagNext]_allVars => WorkOfRun'
  BY NextJobOfRun, NextLayerOfRun, NextSealedWithinLayer, NextDatesOfRun DEF WorkOfRun
<1> QED BY <1>1, <1>2, DagKnown, PTL DEF DagSpec

-----------------------------------------------------------------------------
(***************************************************************************)
(* The watermark test.                                                     *)
(***************************************************************************)

LEMMA WorkIsNotRefused ==
    ASSUME Known, WorkOfRun
    PROVE  OnlyRepeatsAreRefused
<1>1. SUFFICES ASSUME At("watermark_test"), ~run.manual, NEW x \in Entity, stateAsOf[x] > job.target
               PROVE  FALSE
  BY DEF OnlyRepeatsAreRefused, WatermarkAhead
<1>2. job # Idle /\ TypeOK /\ DagTypeInv
  BY <1>1, KnownType DEF At, Idle
<1>3. /\ job.target \in Nat /\ job.target > 0 /\ ranTo \in Nat /\ Late \in Nat /\ newest \in Nat
      /\ stateAsOf[x] \in Nat /\ FirstDate \in Nat
  BY <1>2, JobType, DayAssumption, DagAssumption DEF TypeOK, DagTypeInv, DagTypeOK, Day, None
<1>4. stateAsOf[x] + Late <= ranTo
  BY <1>1, <1>3 DEF WorkOfRun, SealedWithinLayer, None
<1>5. CASE ~Active
  <2>1. newest = None /\ job.target = FirstDate
    BY <1>2, <1>5 DEF WorkOfRun, JobOfRun
  <2> QED BY <1>1, <1>3, <1>4, <2>1 DEF WorkOfRun, LayerOfRun, None
<1>6. CASE Active /\ job.target = run.date
  BY <1>1, <1>3, <1>4, <1>6 DEF WorkOfRun, LayerOfRun
<1>7. CASE Active /\ job.target # run.date
  <2>1. Task = "refresh_revision_window" /\ run.dates # << >> /\ job.target = Head(run.dates)
    BY <1>2, <1>7 DEF WorkOfRun, JobOfRun
  <2>2. 1 \in DOMAIN run.dates /\ job.target = run.dates[1]
    BY <1>2, <1>7, <2>1, RunType
  <2> QED BY <1>1, <1>3, <2>1, <2>2 DEF WorkOfRun, DatesOfRun
<1> QED BY <1>5, <1>6, <1>7

\* The watermark test never stops a scheduled run, nor any refresh of one: what a run seals lies
\* the late-arrival window behind the newest date, and the resolver, which reads the watermark
\* once, lists no date that the refreshes before it could seal past.
THEOREM ScheduledRunsAreNeverRefused == DagSpec => []OnlyRepeatsAreRefused
BY DagKnown, WorkInvariant, WorkIsNotRefused, PTL

-----------------------------------------------------------------------------
(***************************************************************************)
(* The layer is complete, and the accumulator and its tail share it out.   *)
(***************************************************************************)

\* The DAG is unpaused after an initial load, and that begins with the oldest row.
FullLoad == ~ColdStart /\ \A from \in BackfillFroms, S \in Sources : \A e \in S : from <= e.day

\* The source keeps to the lateness contract, and takes no row back.
InContract == \A S \in Sources : \A e \in S : OnTime(e) /\ Permanent(e)

Covered == source \in Sources /\ \A e \in source : floor <= e.day

\* What is sealed is stored, and what is stored is sealed or lies past the watermark.
SharedOut ==
    /\ \A e \in Event : sealed[e] > 0 => e \in Stored
    /\ \A e \in Stored : sealed[e] > 0 \/ PastWatermark(e.day)

LEMMA NextCovered ==
    ASSUME FullLoad, Known, WorkOfRun, Covered, [DagNext]_allVars
    PROVE  Covered'
<1>1. TypeOK /\ DagTypeInv /\ [Next]_vars
  BY KnownType, DagStepIsStep
<1>2. source' = source /\ source \subseteq Event
  BY <1>1 DEF TypeOK, Next, Work, vars, warehouse, Start, BuildStaging, BuildPartials, BuildState,
              WatermarkTest, BuildMart, MartTest, Abort
<1>3. CASE BuildPartials
  <2>1. job # Idle
    BY <1>3, JobMoves, <1>1 DEF Work
  <2>2. floor' = CoveredFrom(job.target, job.from)
    BY <1>3 DEF BuildPartials
  <2>3. job.from = None => partialsExist
    <3>1. CASE Active
      BY <3>1 DEF FullLoad, WorkOfRun, LayerOfRun
    <3>2. CASE ~Active
      BY <2>1, <3>2, DayAssumption DEF WorkOfRun, JobOfRun, Day, None
    <3> QED BY <3>1, <3>2
  <2>4. job.from # None => job.from \in BackfillFroms
    BY <2>1 DEF WorkOfRun, JobOfRun
  <2>5. floor' = floor \/ floor' \in BackfillFroms
    BY <2>2, <2>3, <2>4 DEF CoveredFrom
  <2> QED BY <1>2, <2>5 DEF FullLoad, Covered
<1>4. CASE ~BuildPartials
  <2>1. floor' = floor
    BY <1>1, <1>4 DEF Next, Work, vars, warehouse, Start, BuildStaging, BuildState,
                      WatermarkTest, BuildMart, MartTest, Abort
  <2> QED BY <1>2, <2>1 DEF Covered
<1> QED BY <1>3, <1>4

\* The layer holds exactly the rows that have happened and arrived by the newest build's date.
LEMMA LayerIsComplete ==
    ASSUME InContract, Known, Covered, NothingLost, NEW e \in Event
    PROVE  e \in Stored <=> e \in source /\ e.day <= ranTo /\ e.arr <= ranTo
<1>1. /\ TypeOK /\ ranTo \in Nat /\ computedFor[e] \in Nat
      /\ e.day \in Nat /\ e.arr \in Nat
  BY KnownType, EventType, DayAssumption DEF TypeOK, Day, None
<1>2. ASSUME e \in Stored PROVE e \in source /\ e.day <= ranTo /\ e.arr <= ranTo
  BY <1>1, <1>2, KnownType DEF LayerInv, StoredHasArrived
<1>3. ASSUME e \in source, e.day <= ranTo, e.arr <= ranTo PROVE e \in Stored
  <2>1. OnTime(e) /\ Permanent(e) /\ floor <= e.day
    BY <1>3 DEF InContract, Covered
  <2> QED BY <1>3, <2>1 DEF NothingLost
<1> QED BY <1>2, <1>3

LEMMA NextSharedOut ==
    ASSUME FullLoad, InContract, Known, WorkOfRun, Covered, NothingLost, SharedOut, [DagNext]_allVars
    PROVE  SharedOut'
<1>1. TypeOK /\ DagTypeInv /\ RetryInv /\ LayerInv /\ [Next]_vars /\ Disciplined
  BY KnownType, DagStepIsStep, DagIsDisciplined
<1>2. ASSUME NEW e \in Stored PROVE e \in Stored' /\ e \in Event /\ e \in source
  <2>1. e \in Event /\ e \in source
    BY <1>1 DEF Stored, LayerInv, StoredHasArrived
  <2>2. Permanent(e)
    BY <2>1 DEF InContract, Covered
  <2> QED BY <1>1, <2>1, <2>2, PermanentStays
<1>3. CASE BuildState
  <2>1. job.kind # "reset_state"
    BY <1>1, <1>3, JobMoves, DagAssumption DEF LayerInv, LoadsForward, Work
  <2>2. /\ job.target \in Nat /\ Late \in Nat /\ Stored' = Stored
        /\ \A x \in Entity : stateAsOf[x] \in Nat
    <3>1. Stored' = Stored
      BY <1>3 DEF BuildState, Stored
    <3>2. Late \in Nat /\ \A x \in Entity : stateAsOf[x] \in Nat
      BY <1>1, DayAssumption DEF TypeOK, Day, None
    <3>3. job # Idle
      BY <1>1, <1>3, JobMoves DEF Work
    <3>4. job.target \in Nat
      BY <1>1, <3>3, JobType
    <3> QED BY <3>1, <3>2, <3>4
  <2> DEFINE range == SealRange(job.target, job.kind)
  <2>3. \A e \in Event : sealed'[e] = sealed[e] + (IF e \in range THEN 1 ELSE 0) /\ sealed[e] \in Nat
    BY <1>1, <1>3, <2>1 DEF BuildState, TypeOK
  <2>4. ASSUME NEW e \in Event, sealed'[e] > 0 PROVE e \in Stored'
    <3>1. sealed[e] > 0 \/ e \in range
      BY <2>3, <2>4
    <3> QED BY <2>2, <3>1 DEF SharedOut, SealRange
  <2>5. ASSUME NEW e \in Stored, ~(sealed'[e] > 0) PROVE PastWatermark(e.day)'
    <3>1. e \in Event /\ e.day \in Nat
      BY EventType DEF Stored
    <3>2. sealed[e] = 0 /\ e \notin range
      BY <2>3, <2>5, <3>1
    <3>3. PastWatermark(e.day)
      BY <2>5, <3>2 DEF SharedOut
    <3>4. e.day > job.target - Late
      BY <2>2, <3>1, <3>2, <3>3 DEF SealRange, FoldsFrom
    <3>5. ASSUME NEW x \in Entity PROVE e.day > stateAsOf'[x]
      <4>1. stateAsOf'[x] = job.target - Late \/ stateAsOf'[x] = stateAsOf[x]
        BY <1>3, <2>1 DEF BuildState
      <4> QED BY <3>3, <3>4, <4>1 DEF PastWatermark
    <3> QED BY <3>5 DEF PastWatermark
  <2> QED BY <2>2, <2>4, <2>5 DEF SharedOut
<1>4. CASE ~BuildState
  <2>1. UNCHANGED <<sealed, stateAsOf>>
    BY <1>1, <1>4 DEF Next, Work, vars, warehouse, Start, BuildStaging, BuildPartials,
                      WatermarkTest, BuildMart, MartTest, Abort
  <2>2. \A d : PastWatermark(d)' <=> PastWatermark(d)
    BY <2>1 DEF PastWatermark
  <2>3. ASSUME NEW e \in Stored', e \notin Stored PROVE PastWatermark(e.day)
    <3>1. BuildPartials
      BY <1>1, <1>4, <2>3 DEF Stored, Next, Work, vars, warehouse, Start, BuildStaging,
                              WatermarkTest, BuildMart, MartTest, Abort
    <3>2. e \in Event /\ job.target \in Day /\ job.from \in Day \cup {None}
      BY <1>1, <2>3, <3>1, StagedForTarget DEF Stored
    <3>3. e \in Fresh(job.target, job.from)
      BY <1>1, <2>3, <3>1, <3>2, PartialsResult DEF Stored
    <3>4. e \in source
      BY <1>1, <3>1, <3>3, FreshType
    <3>5. e.arr <= e.day + Late
      BY <3>4 DEF InContract, Covered, OnTime
    <3>6. ~(e.day <= ranTo /\ e.arr <= ranTo)
      BY <2>3, <3>2, <3>4, LayerIsComplete
    <3>7. /\ e.day \in Nat /\ e.day > 0 /\ e.arr \in Nat /\ ranTo \in Nat /\ Late \in Nat
          /\ \A x \in Entity : stateAsOf[x] \in Nat
      BY <1>1, <3>2, EventType, DayAssumption DEF TypeOK, Day, None
    <3>8. ASSUME NEW x \in Entity PROVE e.day > stateAsOf[x]
      BY <3>5, <3>6, <3>7 DEF WorkOfRun, SealedWithinLayer, None
    <3> QED BY <3>8 DEF PastWatermark
  <2> QED BY <1>2, <2>1, <2>2, <2>3 DEF SharedOut
<1> QED BY <1>3, <1>4

\* What is known of every state when the source is in contract and has been loaded in full.
KnownInContract == Known /\ WorkOfRun /\ SealedOnce /\ BuildIsTested /\ NothingLost /\ Covered /\ SharedOut

LEMMA BuildIsTestedInvariant == Spec => []BuildIsTested
<1>1. Init => BuildIsTested
  BY DEF Init, BuildIsTested, Idle
<1> QED BY <1>1, NextIsTested, TypeCorrect, PTL DEF Spec

LEMMA DagKnownInContract == ASSUME FullLoad, InContract PROVE DagSpec => []KnownInContract
<1>1. DagInit => Covered /\ SharedOut
  <2>1. Init => \A e \in source : floor <= e.day
    BY EventType, EventAssumption DEF Init
  <2> QED BY <2>1 DEF DagInit, Init, Covered, SharedOut, Stored, NoEvents, None
<1>2. Known /\ WorkOfRun /\ Covered /\ [DagNext]_allVars => Covered'
  BY NextCovered
<1>3. Known /\ WorkOfRun /\ Covered /\ NothingLost /\ SharedOut /\ [DagNext]_allVars => SharedOut'
  BY NextSharedOut
<1>4. KnownInContract <=> /\ Known /\ WorkOfRun /\ SealedOnce /\ BuildIsTested /\ NothingLost
                          /\ Covered /\ SharedOut
  BY DEF KnownInContract
<1>5. Disciplined
  BY DagIsDisciplined
<1> QED
  BY <1>1, <1>2, <1>3, <1>4, <1>5, DagKnown, WorkInvariant, DagRunsTheProject, AccumulatorSealsOnce,
     BuildIsTestedInvariant, NoLateEventLost, PTL DEF DagSpec

-----------------------------------------------------------------------------
(***************************************************************************)
(* A partition that is built now is the flat pass over the rows so far.    *)
(***************************************************************************)

\* The partitions of the warehouse have a row for each entity that is active in the window.
WindowSpine == Spine = "active_window" /\ Window > 0

\* The rows of a partition are those of its window, which the layer still holds and all_time
\* counts too.
MartFromLayer ==
    \A d \in Day :
        /\ WindowSpine => mart[d].rows = {e.ent : e \in mart[d].window}
        /\ \A e \in mart[d].window : e \in Stored /\ InWindow(e.day, d) /\ mart[d].allTime[e] > 0

\* Days of a window are no later than its as-of date.
LEMMA WindowEnds == ASSUME NEW d \in Nat, NEW T \in Nat, InWindow(d, T) PROVE d <= T
BY DayAssumption DEF InWindow

\* What the accumulator and the tail make of an event that the layer holds.
LEMMA CountedOnce ==
    ASSUME KnownInContract, NEW T \in Day, SealRange(T, "build") = {}, NEW e \in Stored, e.day <= T
    PROVE  sealed[e] + (IF e \in UnsealedTail(T) THEN 1 ELSE 0) = 1
<1>1. /\ e \in Event /\ sealed[e] \in Nat /\ e.day \in Nat /\ T \in Nat /\ Late \in Nat
      /\ SealedOnce /\ SharedOut
  BY KnownType, EventType, DayAssumption DEF KnownInContract, TypeOK, Stored, Day
<1>2. CASE sealed[e] > 0
  <2>1. sealed[e] = 1 /\ ~PastWatermark(e.day)
    BY <1>1, <1>2 DEF SealedOnce
  <2> QED BY <2>1 DEF UnsealedTail
<1>3. CASE sealed[e] = 0
  <2>1. PastWatermark(e.day)
    BY <1>1, <1>3 DEF SharedOut
  <2>2. e.day > T - Late
    BY <1>1, <2>1 DEF SealRange, FoldsFrom
  <2>3. Late > 0
    BY <1>1, <2>2
  <2> QED BY <1>3, <2>1, <2>3 DEF UnsealedTail
<1> QED BY <1>1, <1>2, <1>3

\* Nothing beyond the as-of date is counted, unless the accumulator is sealed past it.
LEMMA CountedHasHappened ==
    ASSUME KnownInContract, NEW T \in Day, ~WatermarkAhead(T), NEW e \in Event,
           sealed[e] > 0 \/ e \in UnsealedTail(T)
    PROVE  e \in Stored /\ e.day <= T
<1>1. /\ TypeOK /\ e.day \in Nat /\ T \in Nat /\ SealedOnce /\ SharedOut
      /\ \A x \in Entity : stateAsOf[x] \in Nat
  BY KnownType, EventType, DayAssumption DEF KnownInContract, TypeOK, Day, None
<1>2. CASE sealed[e] > 0
  <2>1. PICK x \in Entity : ~(e.day > stateAsOf[x])
    BY <1>1, <1>2 DEF SealedOnce, PastWatermark
  <2>2. ~(stateAsOf[x] > T)
    BY DEF WatermarkAhead
  <2> QED BY <1>1, <1>2, <2>1, <2>2 DEF SharedOut
<1>3. CASE e \in UnsealedTail(T)
  BY <1>3 DEF UnsealedTail
<1> QED BY <1>2, <1>3

\* The layer holds the rows that the flat pass over the source takes in.
LEMMA StoredIsDue ==
    ASSUME InContract, KnownInContract, NEW T \in Day, T <= ranTo, NEW e \in Event
    PROVE  e \in Stored /\ e.day <= T <=>
               e \in source /\ e.day <= T /\ e.arr <= Contract!Horizon(T) /\ T < e.end
<1>1. e \in Stored <=> e \in source /\ e.day <= ranTo /\ e.arr <= ranTo
  BY LayerIsComplete DEF KnownInContract
<1>2. e \in source => e.arr <= e.day + Late /\ e.end > LastDay
  BY DEF KnownInContract, Covered, InContract, OnTime, Permanent
<1>3. /\ e.day \in Nat /\ e.arr \in Nat /\ e.end \in Nat /\ ranTo \in Nat /\ Late \in Nat
      /\ T \in Nat /\ T <= LastDay /\ LastDay \in Nat
  BY KnownType, EventType, DayAssumption DEF KnownInContract, TypeOK, Day, None
<1> QED BY <1>1, <1>2, <1>3 DEF Contract!Horizon

LEMMA PartitionIsFlatPass ==
    ASSUME InContract, WindowSpine, KnownInContract,
           NEW T \in Day, T <= ranTo, ~WatermarkAhead(T), SealRange(T, "build") = {}
    PROVE  PartitionFor(T) = FlatPass(source, T, Contract!Horizon(T))
<1> DEFINE due    == {e \in source : e.day <= T /\ e.arr <= Contract!Horizon(T) /\ T < e.end}
           window == {e \in due : InWindow(e.day, T)}
           rows   == {e.ent : e \in window}
<1>1. source \subseteq Event /\ T \in Nat /\ sealed \in [Event -> Nat]
  BY KnownType DEF KnownInContract, TypeOK, Day
<1>2. \A e \in Event : e \in due <=> e \in Stored /\ e.day <= T
  BY StoredIsDue
<1>3. Rollup(T) = window
  <2>1. \A e \in Event : InWindow(e.day, T) => e.day <= T
    BY <1>1, EventType, WindowEnds
  <2>2. Stored \subseteq Event
    BY DEF Stored
  <2> QED BY <1>1, <1>2, <2>1, <2>2 DEF Rollup
<1>4. SpineOf(T) = rows
  BY <1>3 DEF SpineOf, WindowSpine
<1>5. ASSUME NEW e \in Event
      PROVE  sealed[e] + (IF e \in UnsealedTail(T) THEN 1 ELSE 0) = IF e \in due THEN 1 ELSE 0
  <2>1. CASE e \in due
    BY <1>2, <2>1, CountedOnce
  <2>2. CASE e \notin due
    <3>1. ~(sealed[e] > 0) /\ e \notin UnsealedTail(T)
      BY <1>2, <2>2, CountedHasHappened
    <3> QED BY <1>1, <2>2, <3>1
  <2> QED BY <2>1, <2>2
<1>6. FlatPass(source, T, Contract!Horizon(T)) =
          [rows |-> rows, window |-> window,
           allTime |-> [e \in Event |-> IF e \in due /\ e.ent \in rows THEN 1 ELSE 0]]
  BY DEF FlatPass, WindowSpine
<1> HIDE DEF due, window, rows
<1>7. PartitionFor(T) =
          [rows |-> rows, window |-> window,
           allTime |-> [e \in Event |->
                           IF e.ent \in rows
                             THEN sealed[e] + (IF e \in UnsealedTail(T) THEN 1 ELSE 0) ELSE 0]]
  BY <1>3, <1>4 DEF PartitionFor
<1>8. [e \in Event |-> IF e.ent \in rows
                         THEN sealed[e] + (IF e \in UnsealedTail(T) THEN 1 ELSE 0) ELSE 0]
      = [e \in Event |-> IF e \in due /\ e.ent \in rows THEN 1 ELSE 0]
  BY <1>5
<1> QED BY <1>6, <1>7, <1>8

\* When the mart is built, everything that its partition can take in has been sealed or is in
\* the tail, and nothing beyond it has been sealed.
LEMMA MartIsDue ==
    ASSUME KnownInContract, BuildMart
    PROVE  /\ job.target \in Day /\ job.target <= ranTo
           /\ ~WatermarkAhead(job.target) /\ SealRange(job.target, "build") = {}
<1>1. /\ TypeOK /\ DagTypeInv /\ RetryInv /\ LayerInv /\ Known /\ WorkOfRun /\ BuildIsTested
      /\ job # Idle /\ Work
  BY KnownType, JobMoves DEF KnownInContract, Work
<1>2. job.target \in Day /\ job.target <= ranTo
  BY <1>1, JobType, BuiltWithinLayer
<1>3. job.kind \in {"backfill", "build_partials", "fold_state", "build"}
  BY <1>1, DagAssumption DEF LayerInv, LoadsForward
<1>4. PICK i \in 1 .. Len(Plan[job.kind]) : GotTo(i, job) /\ Plan[job.kind][i] = "mart"
  BY <1>1, WorkNode
<1>5. Plan[job.kind][3] = "state" /\ 3 \in 1 .. (i - 1) /\ job.kind \in {"backfill", "build"}
  <2>1. CASE job.kind = "backfill"       BY <1>4, <2>1 DEF Plan
  <2>2. CASE job.kind = "build"          BY <1>4, <2>2 DEF Plan
  <2>3. CASE job.kind = "build_partials" BY <1>4, <2>3 DEF Plan
  <2>4. CASE job.kind = "fold_state"     BY <1>4, <2>4 DEF Plan
  <2> QED BY <1>3, <2>1, <2>2, <2>3, <2>4
<1>6. SealRange(job.target, job.kind) = {}
  <2>1. Settled("state", job.kind, job.target, job.from)
    BY <1>4, <1>5 DEF GotTo
  <2> QED BY <1>5, <2>1 DEF Settled
<1>7. SealRange(job.target, "build") = {}
  BY <1>5, <1>6 DEF SealRange, FoldsFrom
<1>8. ~WatermarkAhead(job.target)
  <2>1. CASE job.kind = "build"
    BY <1>1, <2>1, BuildOrder DEF BuildMart, At, BuildIsTested
  <2>2. CASE job.kind = "backfill"
    <3>1. ~Active /\ newest = None /\ job.target = FirstDate
      BY <1>1, <2>2, InvocationType DEF WorkOfRun, JobOfRun
    <3>2. ranTo \in {None, FirstDate}
      BY <1>1, <3>1 DEF WorkOfRun, LayerOfRun
    <3>3. /\ FirstDate \in Nat /\ FirstDate > 0 /\ Late \in Nat
          /\ \A x \in Entity : stateAsOf[x] \in Nat
      BY <1>1, DayAssumption, DagAssumption DEF TypeOK, Day, None
    <3> QED BY <1>1, <3>1, <3>2, <3>3 DEF WorkOfRun, SealedWithinLayer, WatermarkAhead, None
  <2> QED BY <1>5, <2>1, <2>2
<1> QED BY <1>2, <1>7, <1>8

LEMMA NextMartFromLayer ==
    ASSUME InContract, KnownInContract, MartFromLayer, [DagNext]_allVars
    PROVE  MartFromLayer'
<1>1. /\ TypeOK /\ DagTypeInv /\ RetryInv /\ LayerInv /\ [Next]_vars /\ Disciplined
      /\ Covered
  BY KnownType, DagStepIsStep, DagIsDisciplined DEF KnownInContract
<1>2. ASSUME NEW e \in Stored PROVE e \in Stored'
  <2>1. e \in source
    BY <1>1 DEF LayerInv, StoredHasArrived
  <2>2. Permanent(e)
    BY <1>1, <2>1 DEF InContract, Covered
  <2> QED BY <1>1, <2>2, PermanentStays
<1>3. SUFFICES ASSUME NEW d \in Day
               PROVE  /\ WindowSpine => mart'[d].rows = {e.ent : e \in mart'[d].window}
                      /\ \A e \in mart'[d].window :
                             e \in Stored' /\ InWindow(e.day, d) /\ mart'[d].allTime[e] > 0
  BY DEF MartFromLayer, InWindow, WindowSpine
<1>4. CASE mart'[d] = mart[d]
  BY <1>2, <1>4 DEF MartFromLayer
<1>5. CASE mart'[d] # mart[d]
  <2>1. BuildMart
    BY <1>1, <1>5 DEF Next, Work, vars, warehouse, Start, BuildStaging, BuildPartials, BuildState,
                      WatermarkTest, MartTest, Abort
  <2>2. job.target = d /\ mart'[d] = PartitionFor(d)
    BY <1>1, <1>5, <2>1 DEF BuildMart, Published, TypeOK
  <2>3. SealRange(d, "build") = {}
    BY <2>1, <2>2, MartIsDue
  <2>4. WindowSpine => SpineOf(d) = {e.ent : e \in Rollup(d)}
    BY DEF SpineOf, WindowSpine
  <2>5. ASSUME NEW e \in Rollup(d)
        PROVE  e \in Stored /\ InWindow(e.day, d) /\ PartitionFor(d).allTime[e] > 0
    <3>1. e \in Stored /\ e \in Event /\ InWindow(e.day, d) /\ e.ent \in SpineOf(d)
      BY DEF Rollup, Stored, SpineOf
    <3>2. e.day <= d
      BY <3>1, EventType, WindowEnds DEF Day
    <3>3. sealed[e] + (IF e \in UnsealedTail(d) THEN 1 ELSE 0) = 1
      BY <2>3, <3>1, <3>2, CountedOnce
    <3> QED BY <3>1, <3>3 DEF PartitionFor
  <2> QED BY <1>2, <2>2, <2>4, <2>5 DEF PartitionFor
<1> QED BY <1>4, <1>5

LEMMA MartInvariant == ASSUME FullLoad, InContract PROVE DagSpec => []MartFromLayer
<1>1. DagInit => MartFromLayer
  BY DEF DagInit, Init, MartFromLayer, EmptyPartition
<1>2. KnownInContract /\ MartFromLayer /\ [DagNext]_allVars => MartFromLayer'
  BY NextMartFromLayer
<1> QED BY <1>1, <1>2, DagKnownInContract, PTL DEF DagSpec

\* In every partition of the warehouse, what a bounded window counts all_time counts too: with a
\* full initial load and a source in contract, no order of runs, failures and repeats makes the
\* accumulator and its tail miss what the roll-up finds.
THEOREM WindowsAreWithinAllTime == ASSUME FullLoad, InContract PROVE DagSpec => []WindowsWithinAllTime
<1>1. MartFromLayer => WindowsWithinAllTime
  BY DEF MartFromLayer, WindowsWithinAllTime
<1> QED BY <1>1, MartInvariant, PTL

-----------------------------------------------------------------------------
(***************************************************************************)
(* Whatever a run may publish is revised by then.                          *)
(***************************************************************************)

\* The partition of d, if the warehouse holds one, is the flat pass over the rows so far.
Exact(d) == mart[d].rows # {} => mart[d] = FlatPass(source, d, Contract!Horizon(d))

\* The dates that the run at hand may publish.
Revisable(d) == /\ run.date - Late <= d /\ d <= run.date
                /\ d = run.date \/ \A x \in Entity : stateAsOf[x] <= d

\* Behind build_and_test_mart the run's own partition is exact, and so is each one that the
\* refresh has dealt with, and in the end all those that are published.
RunRevised ==
    /\ Active /\ run.at > 3 => Exact(run.date)
    /\ Active /\ Task = "refresh_revision_window" /\ run.resolved =>
           \A d \in Day : Revisable(d) => Exact(d) \/ \E i \in DOMAIN run.dates : run.dates[i] = d
    /\ Active /\ Task = "publish_offline_store" =>
           /\ \A d \in Day : Revisable(d) => Exact(d)
           /\ \A i \in DOMAIN run.dates : Exact(run.dates[i])

\* The mart test follows the build of the partition.
Revised == (At("mart_test") => Exact(job.target)) /\ RunRevised

\* Building the mart makes its partition exact.
LEMMA BuiltIsExact ==
    ASSUME InContract, WindowSpine, KnownInContract, MartFromLayer, BuildMart,
           NEW d, d = job.target
    PROVE  Exact(d)'
<1>1. /\ TypeOK /\ d \in Day /\ d <= ranTo /\ ~WatermarkAhead(d) /\ SealRange(d, "build") = {}
      /\ UNCHANGED <<source, ranTo>>
  BY KnownType, MartIsDue DEF KnownInContract, BuildMart
<1>2. mart'[d] = Published(d)
  BY <1>1 DEF BuildMart, TypeOK
<1>3. Exact(d)' <=> (mart'[d].rows # {} => mart'[d] = FlatPass(source, d, Contract!Horizon(d)))
  BY <1>1 DEF Exact, Contract!Horizon, FlatPass, InWindow
<1>4. CASE SpineOf(d) = {}
  <2>1. Rollup(d) = {} /\ mart'[d] = mart[d]
    BY <1>1, <1>2, <1>4 DEF SpineOf, WindowSpine, Published
  <2>2. mart[d].window = {}
    BY <1>1, <2>1 DEF MartFromLayer, Rollup
  <2>3. mart[d].rows = {}
    BY <1>1, <2>2 DEF MartFromLayer
  <2> QED BY <1>2, <1>3, <2>1, <2>3
<1>5. CASE SpineOf(d) # {}
  <2>1. mart'[d] = PartitionFor(d)
    BY <1>1, <1>2, <1>5 DEF Published
  <2>2. PartitionFor(d) = FlatPass(source, d, Contract!Horizon(d))
    BY <1>1, <1>2, PartitionIsFlatPass
  <2> QED BY <1>2, <1>3, <2>1, <2>2
<1> QED BY <1>4, <1>5

\* What is exact stays so, for as long as the layer is built for no later date.
LEMMA ExactStays ==
    ASSUME InContract, WindowSpine, KnownInContract, MartFromLayer, [DagNext]_allVars,
           NEW d \in Day, Exact(d), ranTo' = ranTo
    PROVE  Exact(d)'
<1>1. TypeOK /\ DagTypeInv /\ [Next]_vars
  BY KnownType, DagStepIsStep DEF KnownInContract
<1>2. CASE mart'[d] = mart[d]
  <2>1. source' = source
    BY <1>1 DEF Next, Work, vars, warehouse, Start, BuildStaging, BuildPartials, BuildState,
                WatermarkTest, BuildMart, MartTest, Abort
  <2> QED BY <1>2, <2>1 DEF Exact, Contract!Horizon, FlatPass, InWindow
<1>3. CASE mart'[d] # mart[d]
  <2>1. BuildMart
    BY <1>1, <1>3 DEF Next, Work, vars, warehouse, Start, BuildStaging, BuildPartials, BuildState,
                      WatermarkTest, MartTest, Abort
  <2>2. d = job.target
    BY <1>1, <1>3, <2>1 DEF BuildMart, TypeOK
  <2> QED BY <2>1, <2>2, BuiltIsExact
<1> QED BY <1>2, <1>3

\* Behind the first task of a run the layer is not built for a later date.
LEMMA RanToStays ==
    ASSUME Known, WorkOfRun, [DagNext]_allVars, Active, run.at > 1
    PROVE  ranTo' = ranTo
<1>1. TypeOK /\ DagTypeInv /\ [Next]_vars
  BY KnownType, DagStepIsStep
<1>2. CASE Work
  <2>1. job # Idle /\ run.date \in Nat
    BY <1>1, <1>2, JobMoves, RunType
  <2>2. job.target \in Nat /\ job.target <= run.date /\ run.date <= ranTo
    BY <2>1, TargetBound DEF WorkOfRun, LayerOfRun
  <2>3. /\ ranTo \in Nat /\ ranTo' \in Nat /\ ranTo <= ranTo'
        /\ ranTo' = ranTo \/ ranTo' = job.target
    BY <1>2, LayerAfterWork
  <2> QED BY <2>1, <2>2, <2>3
<1>3. CASE ~Work
  BY <1>1, <1>3 DEF Next, vars, Start, Abort
<1> QED BY <1>2, <1>3

\* The accumulator's watermark only advances, and leaves less to be revised.
LEMMA RevisableOnlyShrinks ==
    ASSUME Known, [DagNext]_allVars, run'.date = run.date, NEW d \in Day, Revisable(d)'
    PROVE  Revisable(d)
<1>1. TypeOK /\ DagTypeInv /\ LayerInv /\ [Next]_vars
  BY KnownType, DagStepIsStep
<1>2. ASSUME NEW x \in Entity PROVE stateAsOf[x] <= stateAsOf'[x] /\ stateAsOf'[x] \in Int
  <2>1. stateAsOf[x] \in Nat /\ Late \in Nat
    BY <1>1, DayAssumption DEF TypeOK, Day, None
  <2>2. CASE BuildState
    <3>1. job.kind # "reset_state" /\ job.target \in Nat
      BY <1>1, <2>2, JobMoves, JobType, DagAssumption DEF LayerInv, LoadsForward, Work
    <3>2. stateAsOf'[x] = job.target - Late \/ stateAsOf'[x] = stateAsOf[x]
      BY <2>2, <3>1 DEF BuildState
    <3> QED BY <1>1, <2>1, <2>2, <3>1, <3>2, WatermarkOnlyAdvances
  <2>3. CASE ~BuildState
    <3>1. stateAsOf' = stateAsOf
      BY <1>1, <2>3 DEF Next, Work, vars, warehouse, Start, BuildStaging, BuildPartials,
                        WatermarkTest, BuildMart, MartTest, Abort
    <3> QED BY <2>1, <3>1
  <2> QED BY <2>2, <2>3
<1>3. d \in Int /\ \A x \in Entity : stateAsOf[x] \in Int
  BY <1>1, DayAssumption DEF TypeOK, Day, None
<1> QED BY <1>2, <1>3 DEF Revisable

\* Every node but the mart leaves the partition under test as it is.
LEMMA TestedIsExact ==
    ASSUME InContract, WindowSpine, KnownInContract, MartFromLayer, Revised, [DagNext]_allVars,
           At("mart_test")'
    PROVE  Exact(job.target)'
<1>1. TypeOK /\ DagTypeInv /\ RetryInv /\ LayerInv /\ [Next]_vars /\ job' # Idle
  BY KnownType, DagStepIsStep DEF KnownInContract, At, Idle
<1>2. CASE Work
  <2>1. job # Idle /\ job'.kind = job.kind /\ job'.target = job.target
    BY <1>1, <1>2, JobMoves
  <2>2. job.kind \in {"backfill", "build_partials", "fold_state", "build"}
    BY <1>1, <2>1, DagAssumption DEF LayerInv, LoadsForward
  <2>3. PICK i \in 1 .. Len(Plan[job.kind]) :
            /\ BuildStaging  => Plan[job.kind][i] = "staging"
            /\ BuildPartials => Plan[job.kind][i] = "partials"
            /\ BuildState    => Plan[job.kind][i] = "state"
            /\ WatermarkTest => Plan[job.kind][i] = "watermark_test"
            /\ MartTest      => Plan[job.kind][i] = "mart_test"
            /\ i + 1 \in 1 .. Len(Plan[job.kind])
            /\ Head(job'.todo) = Plan[job.kind][i + 1]
    BY <1>1, <1>2, WorkNode
  <2>4. Plan[job.kind][i + 1] = "mart_test"
    BY <2>3 DEF At
  <2>5. Plan[job.kind][i] = "mart"
    <3>1. CASE job.kind = "backfill"       BY <2>3, <2>4, <3>1 DEF Plan
    <3>2. CASE job.kind = "build"          BY <2>3, <2>4, <3>2 DEF Plan
    <3>3. CASE job.kind = "build_partials" BY <2>3, <2>4, <3>3 DEF Plan
    <3>4. CASE job.kind = "fold_state"     BY <2>3, <2>4, <3>4 DEF Plan
    <3> QED BY <2>2, <3>1, <3>2, <3>3, <3>4
  <2>6. BuildMart
    BY <1>2, <2>3, <2>5 DEF Work
  <2>7. PICK d : d = job.target
    OBVIOUS
  <2>8. Exact(d)'
    BY <2>6, <2>7, BuiltIsExact
  <2> QED BY <2>1, <2>7, <2>8 DEF Exact
<1>3. ASSUME NEW kind \in Kinds, NEW T \in Day, NEW from \in Froms(kind), Start(kind, T, from)
      PROVE  FALSE
  <2>1. Head(Plan[kind]) \in {"staging", "state"}
    BY DagAssumption DEF Plan
  <2> QED BY <1>3, <2>1 DEF Start, At
<1>4. CASE ~Work /\ UNCHANGED <<source, mart, ranTo, job>>
  <2>1. At("mart_test")
    BY <1>4 DEF At
  <2>2. Exact(job.target)
    BY <2>1 DEF Revised
  <2> QED BY <1>4, <2>2 DEF Exact, Contract!Horizon, FlatPass, InWindow
<1> QED BY <1>1, <1>2, <1>3, <1>4 DEF Next, Abort, vars, warehouse

\* A run that stays where it is has revised no less.
LEMMA RevisedStays ==
    ASSUME InContract, WindowSpine, KnownInContract, MartFromLayer, RunRevised, [DagNext]_allVars,
           run' = run
    PROVE  RunRevised'
<1>1. SUFFICES ASSUME Active, run.at > 3 PROVE RunRevised'
  <2>1. Active /\ Task \in {"refresh_revision_window", "publish_offline_store"} => run.at > 3
    BY KnownType, RunType, ChainOrder DEF KnownInContract, Task
  <2> QED BY <1>1, <2>1 DEF RunRevised, Active, Task
<1>2. ranTo' = ranTo /\ run.date \in Day /\ run.at \in Nat
      /\ \A i \in DOMAIN run.dates : run.dates[i] \in Day
  BY <1>1, KnownType, RunType, RanToStays DEF KnownInContract
<1>3. ASSUME NEW d \in Day, Exact(d) PROVE Exact(d)'
  BY <1>2, <1>3, ExactStays
<1>4. ASSUME NEW d \in Day, Revisable(d)' PROVE Revisable(d)
  BY <1>4, RevisableOnlyShrinks DEF KnownInContract
<1>5. Active' /\ Task' = Task
  BY <1>1 DEF Active, Task
<1>6. Exact(run.date)'
  BY <1>1, <1>2, <1>3 DEF RunRevised
<1>7. ASSUME Task = "refresh_revision_window", run.resolved, NEW d \in Day, Revisable(d)'
      PROVE  Exact(d)' \/ \E i \in DOMAIN run.dates : run.dates[i] = d
  BY <1>1, <1>3, <1>4, <1>7 DEF RunRevised
<1>8. ASSUME Task = "publish_offline_store", NEW d \in Day, Revisable(d)'
      PROVE  Exact(d)'
  BY <1>1, <1>3, <1>4, <1>8 DEF RunRevised
<1>9. ASSUME Task = "publish_offline_store", NEW i \in DOMAIN run.dates
      PROVE  Exact(run.dates[i])'
  <2>1. PICK d \in Day : d = run.dates[i]
    BY <1>2
  <2>2. Exact(d)
    BY <1>1, <1>9, <2>1 DEF RunRevised
  <2>3. Exact(d)'
    BY <1>3, <2>2
  <2> QED BY <2>1, <2>3 DEF Exact
<1> QED BY <1>5, <1>6, <1>7, <1>8, <1>9 DEF RunRevised, Exact

\* A run that starts over at its task, after a failed attempt, has revised no less.
LEMMA RevisedAfterFailure ==
    ASSUME InContract, WindowSpine, KnownInContract, MartFromLayer, RunRevised, [DagNext]_allVars,
           Active, run' # NoRun, run'.date = run.date, run'.at = run.at,
           run'.resolved = FALSE, run'.dates = << >>
    PROVE  RunRevised'
<1>1. Active' /\ Task' = Task
  BY DEF Active, Task
<1>2. SUFFICES ASSUME run.at > 3 PROVE RunRevised'
  <2>1. Task \in {"refresh_revision_window", "publish_offline_store"} => run.at > 3
    BY KnownType, RunType, ChainOrder DEF KnownInContract, Task
  <2> QED BY <1>1, <1>2, <2>1 DEF RunRevised
<1>3. ranTo' = ranTo /\ run.date \in Day
  BY <1>2, KnownType, RunType, RanToStays DEF KnownInContract
<1>4. Exact(run.date)'
  <2>1. PICK d \in Day : d = run.date
    BY <1>3
  <2>2. Exact(d)'
    BY <1>2, <1>3, <2>1, ExactStays DEF RunRevised
  <2> QED BY <2>1, <2>2 DEF Exact
<1>5. ASSUME Task = "publish_offline_store", NEW d \in Day, Revisable(d)' PROVE Exact(d)'
  <2>1. Revisable(d)
    BY <1>5, RevisableOnlyShrinks DEF KnownInContract
  <2> QED BY <1>3, <1>5, <2>1, ExactStays DEF RunRevised
<1> QED BY <1>1, <1>4, <1>5 DEF RunRevised, Exact

\* A run that goes on to its next task has done what that one relies on.
LEMMA RevisedAfterTask ==
    ASSUME InContract, WindowSpine, KnownInContract, MartFromLayer, Revised, [DagNext]_allVars,
           Active, run' # NoRun, run'.date = run.date, run'.at = run.at + 1,
           run.at # Len(Chain),
           run'.resolved = FALSE, run'.dates = << >>,
           \/ Work /\ job' = Idle /\ ~TestFails /\ Task \in DOMAIN Invocation
           \/ run.resolved /\ run.dates = << >>
    PROVE  RunRevised'
<1>1. /\ TypeOK /\ DagTypeInv /\ RetryInv /\ WorkOfRun /\ RunRevised
      /\ run.at \in DOMAIN Chain /\ run.at \in Nat /\ run.date \in Day /\ run.date \in Nat
      /\ Late \in Nat
  BY KnownType, RunType DEF KnownInContract, Revised
<1>2. Active' /\ Task' = Chain[run.at + 1]
  BY DEF Active, Task
<1>3. Task' = "publish_offline_store" \/ Task' = "refresh_revision_window" <=> run.at + 1 > 3
  BY <1>1, <1>2, ChainType, ChainOrder
<1>4. SUFFICES ASSUME run.at + 1 > 3 PROVE RunRevised'
  BY <1>2, <1>3, <1>4 DEF RunRevised
<1>5. ranTo' = ranTo
  BY <1>1, <1>4, RanToStays DEF KnownInContract
<1>6. Exact(run.date)
  <2>1. CASE run.at > 3
    BY <1>1, <2>1 DEF RunRevised
  <2>2. CASE ~(run.at > 3)
    <3>1. run.at = 3 /\ Task = "build_and_test_mart"
      BY <1>1, <1>4, <2>2, ChainOrder DEF Task
    <3>2. Work /\ job' = Idle /\ ~TestFails
      BY <1>1, <3>1 DEF WorkOfRun, DatesOfRun
    <3>3. job.kind = "build" /\ job.target = run.date
      BY <1>1, <3>1, <3>2, JobMoves DEF WorkOfRun, JobOfRun, Invocation
    <3>4. At("mart_test")
      BY <1>1, <3>2, <3>3, LastNode DEF MartTest
    <3> QED BY <3>3, <3>4 DEF Revised
  <2> QED BY <2>1, <2>2
<1>7. ASSUME NEW d \in Day, Exact(d) PROVE Exact(d)'
  BY <1>5, <1>7, ExactStays
<1>8. Exact(run.date)'
  <2>1. PICK d \in Day : d = run.date
    BY <1>1
  <2> QED BY <1>6, <1>7, <2>1 DEF Exact
<1>9. ASSUME Task' = "publish_offline_store", NEW d \in Day, Revisable(d)' PROVE Exact(d)
  <2>1. Revisable(d)
    BY <1>9, RevisableOnlyShrinks DEF KnownInContract
  <2>2. CASE Late > 0
    <3>1. run.at = 4 /\ Task = "refresh_revision_window"
      BY <1>1, <1>2, <1>4, <1>9, <2>2, ChainType, ChainOrder DEF Task
    <3>2. run.resolved /\ run.dates = << >>
      BY <3>1 DEF Invocation
    <3> QED BY <1>1, <2>1, <3>1, <3>2 DEF RunRevised
  <2>3. CASE ~(Late > 0)
    <3>1. d = run.date
      BY <1>1, <2>1, <2>3, DayAssumption DEF Revisable, Day
    <3> QED BY <1>6, <3>1
  <2> QED BY <2>2, <2>3
<1> QED BY <1>2, <1>7, <1>8, <1>9 DEF RunRevised, Exact

\* The dates that the resolver lists are all those that may still be revised.
LEMMA ResolvedAreRevisable ==
    ASSUME KnownInContract, Active, NEW d \in Day
    PROVE  LET rs == RefreshableDates(run.date, Late, Watermark)
           IN  /\ Revisable(d) => d = run.date \/ \E i \in DOMAIN rs : rs[i] = d
               /\ \A i \in DOMAIN rs : rs[i] = d => Revisable(d)
<1> DEFINE rs == RefreshableDates(run.date, Late, Watermark)
<1>1. /\ TypeOK /\ DagTypeInv /\ d \in Nat /\ run.date \in Nat /\ Late \in Nat /\ run.date > Late
  BY KnownType, RunType DEF KnownInContract, Day
<1>2. /\ Watermark \in Nat /\ \A x \in Entity : stateAsOf[x] \in Nat /\ stateAsOf[x] <= Watermark
      /\ Watermark = 0 \/ \E x \in Entity : stateAsOf[x] = Watermark
  BY <1>1, WatermarkIsMax, DayAssumption DEF TypeOK, Day, None
<1>3. ASSUME Revisable(d), d # run.date PROVE \E i \in DOMAIN rs : rs[i] = d
  <2> DEFINE oldest == IF Watermark > run.date - Late THEN Watermark ELSE run.date - Late
  <2>1. Watermark <= d /\ run.date - Late <= d /\ d < run.date
    BY <1>1, <1>2, <1>3 DEF Revisable
  <2>2. oldest \in Int /\ oldest <= d
    BY <1>1, <1>2, <2>1
  <2>3. run.date - d \in 1 .. (run.date - oldest)
    BY <1>1, <2>1, <2>2
  <2>4. rs = [i \in 1 .. (run.date - oldest) |-> run.date - i]
    BY DEF RefreshableDates
  <2> HIDE DEF oldest, rs
  <2>5. rs[run.date - d] = run.date - (run.date - d)
    BY <2>3, <2>4
  <2>6. rs[run.date - d] = d /\ run.date - d \in DOMAIN rs
    BY <1>1, <2>3, <2>4, <2>5
  <2> QED BY <2>6
<1>4. ASSUME NEW i \in DOMAIN rs, rs[i] = d PROVE Revisable(d)
  <2>1. /\ d = run.date - i /\ i \in Nat \ {0}
        /\ run.date - i >= Watermark /\ run.date - i >= run.date - Late
    BY <1>1, <1>2, <1>4, RefreshableRange
  <2> QED BY <1>1, <1>2, <2>1 DEF Revisable
<1> QED BY <1>3, <1>4

LEMMA ResolveRevised ==
    ASSUME InContract, WindowSpine, KnownInContract, MartFromLayer, RunRevised, [DagNext]_allVars,
           Resolve
    PROVE  RunRevised'
<1>1. /\ TypeOK /\ DagTypeInv /\ Active
      /\ run.date \in Day /\ run.date > Late /\ run.at \in DOMAIN Chain /\ run.at \in Nat
  BY KnownType, RunType DEF KnownInContract, Resolve
<1> DEFINE rs == RefreshableDates(run.date, Late, Watermark)
<1>2. rs \in Seq(Day) /\ \A i \in DOMAIN rs : rs[i] \in Day
  <2>1. Watermark \in Day \cup {None}
    BY <1>1, WatermarkIsMax
  <2>2. rs \in Seq(Day)
    BY <1>1, <2>1, RefreshableType
  <2> QED BY <2>2
<1>3. ASSUME NEW d \in Day
      PROVE  /\ Revisable(d) => d = run.date \/ \E i \in DOMAIN rs : rs[i] = d
             /\ \A i \in DOMAIN rs : rs[i] = d => Revisable(d)
  BY <1>1, ResolvedAreRevisable
<1>4. PICK ds \in {rs, <<run.date>> \o rs} :
          /\ run' = [run EXCEPT !.resolved = TRUE, !.dates = ds]
          /\ Task = "refresh_revision_window" => ds = rs
          /\ Task = "publish_offline_store" => ds = <<run.date>> \o rs
          /\ Task \in {"refresh_revision_window", "publish_offline_store"}
  BY DEF Resolve, PublishDates
<1> HIDE DEF rs
<1>5. /\ run'.date = run.date /\ run'.at = run.at /\ run'.dates = ds /\ run'.resolved = TRUE
  BY <1>1, <1>4 DEF DagTypeInv, DagTypeOK, Active
<1>6. Active' /\ Task' = Task
  BY <1>5 DEF Active, Task, NoRun
<1>7. UNCHANGED <<source, mart, ranTo, stateAsOf>>
  BY DEF Resolve, vars, warehouse
<1>8. \A d : (Exact(d)' <=> Exact(d)) /\ (Revisable(d)' <=> Revisable(d))
  BY <1>5, <1>7 DEF Exact, Contract!Horizon, FlatPass, InWindow, Revisable
<1>9. run.at > 3 /\ Exact(run.date)
  BY <1>1, <1>4, ChainOrder DEF Task, RunRevised
<1>10. Exact(run.date)'
  BY <1>5, <1>7, <1>9 DEF Exact, Contract!Horizon, FlatPass, InWindow
<1>11. CASE Task = "refresh_revision_window"
  <2>1. \A d \in Day : Revisable(d) => Exact(d) \/ \E i \in DOMAIN ds : ds[i] = d
    BY <1>3, <1>4, <1>9, <1>11
  <2> QED BY <1>5, <1>6, <1>8, <1>10, <1>11, <2>1 DEF RunRevised
<1>12. CASE Task = "publish_offline_store"
  <2>1. \A d \in Day : Revisable(d) => Exact(d)
    BY <1>1, <1>12 DEF RunRevised
  <2>2. \A i \in DOMAIN rs : Exact(rs[i])
    BY <1>2, <1>3, <2>1
  <2>3. ASSUME NEW i \in DOMAIN ds PROVE Exact(ds[i])
    <3>1. run.date \in Day /\ rs \in Seq(Day) /\ ds = <<run.date>> \o rs
      BY <1>1, <1>2, <1>4, <1>12
    <3>2. \A k \in DOMAIN (<<run.date>> \o rs) :
              \/ k = 1 /\ (<<run.date>> \o rs)[k] = run.date
              \/ k - 1 \in DOMAIN rs /\ (<<run.date>> \o rs)[k] = rs[k - 1]
      BY <3>1, OwnDateFirst
    <3>3. ds[i] = run.date \/ \E k \in DOMAIN rs : ds[i] = rs[k]
      BY <3>1, <3>2
    <3> QED BY <1>9, <2>2, <3>3
  <2>4. ASSUME NEW d \in Day, Revisable(d)' PROVE Exact(d)'
    BY <1>8, <2>1, <2>4
  <2>5. (\A i \in DOMAIN run.dates : Exact(run.dates[i]))'
    BY <1>5, <1>7, <2>3 DEF Exact, Contract!Horizon
  <2> QED BY <1>6, <1>10, <1>12, <2>4, <2>5 DEF RunRevised
<1> QED BY <1>4, <1>11, <1>12

\* A failed attempt takes nothing back.
LEMMA FailedRevised ==
    ASSUME InContract, WindowSpine, KnownInContract, MartFromLayer, RunRevised, [DagNext]_allVars,
           Active, AttemptFails
    PROVE  RunRevised'
<1>1. CASE run' = NoRun
  BY <1>1 DEF RunRevised, Active
<1>2. CASE run' # NoRun
  <2>1. AtTask(run.at, run.tries + 1)
    BY <1>2 DEF AttemptFails, RunFails
  <2>2. run'.date = run.date /\ run'.at = run.at /\ run'.resolved = FALSE /\ run'.dates = << >>
    BY <2>1 DEF AtTask, NoRun
  <2> QED BY <1>2, <2>2, RevisedAfterFailure
<1> QED BY <1>1, <1>2

LEMMA DbtStepRevised ==
    ASSUME InContract, WindowSpine, KnownInContract, MartFromLayer, Revised, [DagNext]_allVars,
           DbtStep, Active, job' = Idle
    PROVE  RunRevised'
<1>1. /\ TypeOK /\ DagTypeInv /\ RetryInv /\ WorkOfRun /\ RunRevised /\ Work /\ job # Idle
      /\ run.dates \in Seq(Day)
  BY KnownType, RunType, JobMoves DEF KnownInContract, Revised, DbtStep
<1>2. CASE ~TestFails /\ run.dates # << >>
  <2>1. run' = [run EXCEPT !.dates = Tail(@)]
    BY <1>2 DEF DbtStep
  <2>2. /\ run'.date = run.date /\ run'.at = run.at /\ run'.resolved = run.resolved /\ run' # NoRun
        /\ \A i \in DOMAIN run.dates : i = 1 \/ \E k \in DOMAIN run'.dates : run'.dates[k] = run.dates[i]
    BY <1>1, <1>2, <2>1, NextDates
  <2>3. Task = "refresh_revision_window"
    BY <1>1, <1>2 DEF WorkOfRun, JobOfRun, DatesOfRun, Invocation
  <2>4. Active' /\ Task' = Task
    BY <2>2 DEF Active, Task
  <2>5. job.kind = "build" /\ job.target = run.dates[1]
    BY <1>1, <1>2, <2>3 DEF WorkOfRun, JobOfRun, Invocation
  <2>6. MartTest
    BY <1>1, <1>2, <2>5, LastNode
  <2>7. Exact(run.dates[1])
    BY <2>5, <2>6 DEF MartTest, Revised
  <2>8. run.at > 3 /\ run.date \in Day /\ run.resolved /\ ranTo' = ranTo
    <3>1. run.at > 3 /\ run.date \in Day /\ run.at \in Nat
      BY <1>1, <2>3, RunType, ChainOrder DEF Task
    <3> QED BY <1>1, <1>2, <3>1, RanToStays DEF KnownInContract, WorkOfRun, DatesOfRun
  <2>9. Exact(run.date)'
    <3>1. PICK d \in Day : d = run.date
      BY <2>8
    <3>2. Exact(d)'
      BY <1>1, <2>8, <3>1, ExactStays DEF RunRevised
    <3> QED BY <2>2, <3>1, <3>2 DEF Exact
  <2>10. ASSUME NEW d \in Day, Revisable(d)'
         PROVE  Exact(d)' \/ \E k \in DOMAIN run'.dates : run'.dates[k] = d
    <3>1. Revisable(d)
      BY <2>2, <2>10, RevisableOnlyShrinks DEF KnownInContract
    <3>2. Exact(d) \/ \E i \in DOMAIN run.dates : run.dates[i] = d
      BY <1>1, <2>3, <2>8, <3>1 DEF RunRevised
    <3>3. Exact(d) \/ \E k \in DOMAIN run'.dates : run'.dates[k] = d
      BY <2>2, <2>7, <3>2
    <3> QED BY <2>8, <3>3, ExactStays
  <2> QED BY <2>3, <2>4, <2>9, <2>10 DEF RunRevised
<1>3. CASE ~TestFails /\ run.dates = << >>
  <2>1. TaskDone
    BY <1>3 DEF DbtStep
  <2>2. Task \in DOMAIN Invocation
    BY <1>1, <1>3 DEF WorkOfRun, JobOfRun
  <2>3. CASE run' = NoRun
    BY <2>3 DEF RunRevised, Active
  <2>4. CASE run' # NoRun
    <3>1. AtTask(run.at + 1, 0) /\ run.at # Len(Chain)
      BY <2>1, <2>4 DEF TaskDone
    <3>2. run'.date = run.date /\ run'.at = run.at + 1 /\ run'.resolved = FALSE /\ run'.dates = << >>
      BY <3>1 DEF AtTask, NoRun
    <3> QED BY <1>1, <1>3, <2>2, <2>4, <3>1, <3>2, RevisedAfterTask
  <2> QED BY <2>3, <2>4
<1>4. CASE TestFails
  <2>1. AttemptFails
    BY <1>4 DEF DbtStep
  <2> QED BY <1>1, <2>1, FailedRevised
<1> QED BY <1>2, <1>3, <1>4

LEMMA PublishRevised ==
    ASSUME InContract, WindowSpine, KnownInContract, MartFromLayer, RunRevised, [DagNext]_allVars,
           Publish
    PROVE  RunRevised'
<1>1. /\ TypeOK /\ DagTypeInv /\ Active /\ Task = "publish_offline_store" /\ run.dates # << >>
      /\ UNCHANGED <<source, mart, ranTo, stateAsOf>>
  BY KnownType DEF KnownInContract, Publish, vars, warehouse
<1>2. CASE run' = [run EXCEPT !.dates = Tail(@)]
  <2>1. /\ run'.date = run.date /\ run'.at = run.at /\ run' # NoRun
        /\ \A i \in DOMAIN run'.dates : i + 1 \in DOMAIN run.dates /\ run'.dates[i] = run.dates[i + 1]
    BY <1>1, <1>2, NextDates
  <2>2. Active' /\ Task' = Task
    BY <2>1 DEF Active, Task
  <2>3. run.at > 3 /\ Exact(run.date)
    BY <1>1, RunType, ChainOrder DEF Task, RunRevised
  <2>4. Exact(run.date)'
    BY <1>1, <2>1, <2>3 DEF Exact, Contract!Horizon
  <2>5. ASSUME NEW d \in Day, Revisable(d)' PROVE Exact(d)'
    <3>1. Revisable(d)
      BY <1>1, <2>1, <2>5 DEF Revisable
    <3>2. Exact(d)
      BY <1>1, <3>1 DEF RunRevised
    <3> QED BY <1>1, <3>2 DEF Exact, Contract!Horizon
  <2>6. (\A i \in DOMAIN run.dates : Exact(run.dates[i]))'
    <3>1. \A i \in DOMAIN run.dates : Exact(run.dates[i])
      BY <1>1 DEF RunRevised
    <3>2. \A i \in DOMAIN run'.dates : Exact(run'.dates[i])
      BY <2>1, <3>1
    <3> QED BY <1>1, <3>2 DEF Exact, Contract!Horizon
  <2> QED BY <1>1, <2>2, <2>4, <2>5, <2>6 DEF RunRevised
<1>3. CASE AttemptFails
  BY <1>1, <1>3, FailedRevised
<1> QED BY <1>2, <1>3 DEF Publish

LEMMA NextRevised ==
    ASSUME InContract, WindowSpine, KnownInContract, MartFromLayer, Revised, [DagNext]_allVars
    PROVE  Revised'
<1>1. RunRevised /\ WorkOfRun /\ DagTypeInv
  BY KnownType DEF Revised, KnownInContract
<1>2. SUFFICES RunRevised'
  BY <1>2, TestedIsExact DEF Revised
<1>3. CASE run' = run
  BY <1>1, <1>3, RevisedStays
<1>4. CASE \E T \in Day : Schedule(T) \/ Rerun(T)
  <2>1. run'.at = 1
    BY <1>4 DEF Schedule, Rerun, NoRun
  <2>2. Task' = Chain[1] /\ ~(run'.at > 3)
    BY <2>1 DEF Task
  <2> QED BY <2>2, ChainType, ChainOrder DEF RunRevised
<1>5. CASE Resolve
  BY <1>1, <1>5, ResolveRevised
<1>6. CASE DbtStep
  <2>1. CASE Active /\ job' = Idle
    BY <1>6, <2>1, DbtStepRevised
  <2>2. CASE ~(Active /\ job' = Idle)
    BY <1>3, <1>6, <2>2 DEF DbtStep
  <2> QED BY <2>1, <2>2
<1>7. CASE Publish
  BY <1>1, <1>7, PublishRevised
<1>8. CASE EndOfDates
  <2>1. Active /\ TaskDone /\ run.resolved /\ run.dates = << >>
    BY <1>8 DEF EndOfDates
  <2>2. CASE run' = NoRun
    BY <2>2 DEF RunRevised, Active
  <2>3. CASE run' # NoRun
    <3>1. AtTask(run.at + 1, 0) /\ run.at # Len(Chain)
      BY <2>1, <2>3 DEF TaskDone
    <3>2. run'.date = run.date /\ run'.at = run.at + 1 /\ run'.resolved = FALSE /\ run'.dates = << >>
      BY <3>1 DEF AtTask, NoRun
    <3> QED BY <2>1, <2>3, <3>1, <3>2, RevisedAfterTask
  <2> QED BY <2>2, <2>3
<1>9. CASE Fault
  <2>1. CASE Active
    BY <1>1, <1>9, <2>1, FailedRevised DEF Fault
  <2>2. CASE ~Active
    BY <1>3, <1>9, <2>2 DEF Fault
  <2> QED BY <2>1, <2>2
<1> QED
  BY <1>3, <1>4, <1>5, <1>6, <1>7, <1>8, <1>9
  DEF DagNext, Progress, InitialLoad, RunDbt, Refresh, allVars, dagVars

LEMMA RevisedInvariant ==
    ASSUME FullLoad, InContract, WindowSpine
    PROVE  DagSpec => []Revised
<1>1. DagInit => Revised
  BY DEF DagInit, Init, Revised, RunRevised, Active, NoRun, At, Idle
<1>2. KnownInContract /\ MartFromLayer /\ Revised /\ [DagNext]_allVars => Revised'
  BY NextRevised
<1> QED BY <1>1, <1>2, DagKnownInContract, MartInvariant, PTL DEF DagSpec

-----------------------------------------------------------------------------
(***************************************************************************)
(* The refinement.                                                         *)
(***************************************************************************)

\* Only the publisher writes object storage, and what it writes is exact.
LEMMA PublishKeepsContract ==
    ASSUME KnownInContract, Revised, Publish
    PROVE  [Contract!Next]_Contract!vars
<1>1. /\ DagTypeInv /\ WorkOfRun /\ Active /\ Task = "publish_offline_store" /\ run.dates # << >>
      /\ UNCHANGED <<source, ranTo>>
  BY KnownType DEF KnownInContract, Publish, vars
<1>2. /\ run.dates \in Seq(Day) /\ run.at \in DOMAIN Chain /\ run.at \in Nat /\ run.date \in Nat
      /\ \A i \in DOMAIN run.dates : run.dates[i] \in Day /\ run.dates[i] \in Nat
  BY <1>1, RunType
<1>3. PICK d \in Day : d = Head(run.dates) /\ d = run.dates[1] /\ 1 \in DOMAIN run.dates /\ d \in Nat
  BY <1>1, <1>2
<1>4. CASE ~Publishable(mart[d], d)
  BY <1>1, <1>3, <1>4 DEF Publish, Contract!vars
<1>5. CASE Publishable(mart[d], d)
  <2>1. mart[d].rows # {} /\ Exact(d)
    BY <1>1, <1>3, <1>5 DEF Publishable, Revised, RunRevised
  <2>2. mart[d] = FlatPass(source, d, Contract!Horizon(d))
    BY <2>1 DEF Exact
  <2>3. store' = [store EXCEPT ![d] = FlatPass(source, d, Contract!Horizon(d))]
    BY <1>3, <1>5, <2>2 DEF Publish
  <2>4. d <= ranTo
    <3>1. run.at > 1 /\ ranTo \in Nat
      BY <1>1, <1>2, ChainOrder, KnownType, DayAssumption
      DEF Task, KnownInContract, TypeOK, Day, None
    <3>2. d <= run.date /\ run.date <= ranTo
      BY <1>1, <1>3, <3>1 DEF WorkOfRun, DatesOfRun, LayerOfRun
    <3> QED BY <1>2, <1>3, <3>1, <3>2
  <2>5. Contract!Publish(d)
    BY <1>1, <2>3, <2>4 DEF Contract!Publish
  <2> QED BY <2>5 DEF Contract!Next
<1> QED BY <1>4, <1>5

LEMMA StepKeepsContract ==
    ASSUME KnownInContract, Revised, [DagNext]_allVars
    PROVE  [Contract!Next]_Contract!vars
<1>1. /\ TypeOK /\ DagTypeInv /\ [Next]_vars
  BY KnownType, DagStepIsStep DEF KnownInContract
<1>2. CASE Publish
  BY <1>2, PublishKeepsContract
<1>3. CASE ~Publish
  <2>1. store' = store
    BY <1>3 DEF DagNext, Progress, allVars, dagVars, Schedule, Rerun, InitialLoad, RunDbt, Resolve,
                Refresh, DbtStep, EndOfDates, Fault
  <2>2. source' = source
    BY <1>1 DEF Next, Work, vars, warehouse, Start, BuildStaging, BuildPartials, BuildState,
                WatermarkTest, BuildMart, MartTest, Abort
  <2>3. ranTo' = ranTo \/ (ranTo < ranTo' /\ ranTo' \in Day)
    <3>1. CASE BuildPartials
      <4>1. job.target \in Day
        BY <1>1, <3>1, JobMoves, JobType DEF Work
      <4>2. ranTo' = IF job.target > ranTo THEN job.target ELSE ranTo
        BY <3>1 DEF BuildPartials
      <4>3. ranTo \in Int /\ job.target \in Int
        BY <1>1, <4>1, DayAssumption DEF TypeOK, Day, None
      <4> QED BY <4>1, <4>2, <4>3
    <3>2. CASE ~BuildPartials
      BY <1>1, <3>2 DEF Next, Work, vars, Start, BuildStaging, BuildState, WatermarkTest,
                        BuildMart, MartTest, Abort
    <3> QED BY <3>1, <3>2
  <2> QED BY <2>1, <2>2, <2>3 DEF Contract!Next, Contract!Pass, Contract!vars
<1> QED BY <1>2, <1>3

\* The warehouse, the DAG and its retries implement the contract of the offline store: over any
\* missed dates, failures, retries and repeated runs, whatever is published for a date is the
\* flat pass over the source rows so far.  What it takes is a full initial load, a source within
\* the lateness contract and the spine that the flat pass has.
THEOREM DagImplementsContract ==
    ASSUME FullLoad, InContract, WindowSpine
    PROVE  DagSpec => ImplementsContract
<1>1. DagInit => Contract!Init
  BY DEF DagInit, Init, Contract!Init, None
<1>2. KnownInContract /\ Revised /\ [DagNext]_allVars => [Contract!Next]_Contract!vars
  BY StepKeepsContract
<1> QED
  BY <1>1, <1>2, DagKnownInContract, RevisedInvariant, PTL
  DEF DagSpec, ImplementsContract, Contract!Spec

=============================================================================
