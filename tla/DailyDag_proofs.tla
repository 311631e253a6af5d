--------------------------- MODULE DailyDag_proofs --------------------------
(***************************************************************************)
(* Theorems about the daily DAG, for every source, calendar, lateness,     *)
(* window, spine and adapter, any gaps, retries, failures and repeated     *)
(* runs.                                                                   *)
(***************************************************************************)
EXTENDS DailyDag, FeatureStore_proofs, WellFoundedInduction

\* The DAG and the initial load before it keep to what is asked of the operators.
LEMMA DagIsDisciplined == Disciplined
BY DagAssumption DEF Disciplined

-----------------------------------------------------------------------------
(***************************************************************************)
(* Types.                                                                  *)
(***************************************************************************)

\* Runs are for dates from the first one on, so that no refresh leaves the calendar.
DagTypeInv ==
    /\ DagTypeOK
    /\ Active => FirstDate <= run.date
    /\ newest # None => FirstDate <= newest

LEMMA LeastNat ==
    ASSUME NEW S, S \subseteq Nat, S # {}
    PROVE  \E n \in S : \A m \in S : n <= m
<1> DEFINE R == {ss \in Nat \X Nat : ss[1] < ss[2]}
<1>1. IsWellFoundedOn(R, Nat)
  BY NatLessThanWellFounded DEF OpToRel
<1>2. PICK n \in S : \A m \in S : ~(<<m, n>> \in R)
  BY <1>1, WFMin
<1>3. \A m \in S : ~(m < n)
  BY <1>2
<1> QED BY <1>3

\* What the resolver reads is the newest stamp of the accumulator, or no date.
LEMMA WatermarkIsMax ==
    ASSUME TypeOK
    PROVE  /\ Watermark \in Day \cup {None}
           /\ \A x \in Entity : stateAsOf[x] <= Watermark
           /\ Watermark = None \/ \E x \in Entity : stateAsOf[x] = Watermark
<1>1. \A x \in Entity : stateAsOf[x] \in Nat /\ stateAsOf[x] <= LastDay /\ LastDay \in Nat
  BY DayAssumption DEF TypeOK, Day, None
<1>2. \E w \in Day \cup {None} :
          /\ \A x \in Entity : stateAsOf[x] <= w
          /\ w = None \/ \E x \in Entity : stateAsOf[x] = w
  <2>1. CASE Entity = {}
    BY <2>1
  <2>2. CASE Entity # {}
    <3> DEFINE S == {LastDay - stateAsOf[x] : x \in Entity}
    <3>1. S \subseteq Nat /\ S # {}
      BY <1>1, <2>2
    <3>2. PICK n \in S : \A m \in S : n <= m
      BY <3>1, LeastNat
    <3>3. PICK x \in Entity : n = LastDay - stateAsOf[x]
      BY <3>2
    <3>4. ASSUME NEW y \in Entity PROVE stateAsOf[y] <= stateAsOf[x]
      <4>1. LastDay - stateAsOf[y] \in S
        OBVIOUS
      <4>2. n <= LastDay - stateAsOf[y]
        BY <3>2, <4>1
      <4> QED BY <1>1, <3>3, <4>2
    <3>5. PICK w \in Day \cup {None} : w = stateAsOf[x]
      BY DEF TypeOK
    <3>6. \A y \in Entity : stateAsOf[y] <= w
      BY <3>4, <3>5
    <3> QED BY <3>5, <3>6
  <2> QED BY <2>1, <2>2
<1> QED BY <1>2 DEF Watermark

\* The refreshable dates are those of the late-arrival window before the run's own date that
\* are not behind the watermark.
LEMMA RefreshableRange ==
    ASSUME NEW T \in Nat, NEW late \in Nat, NEW w \in Nat, T > late,
           NEW i \in DOMAIN RefreshableDates(T, late, w)
    PROVE  /\ RefreshableDates(T, late, w)[i] = T - i
           /\ i \in Nat \ {0} /\ T - i >= w /\ T - i >= T - late /\ T - i > 0
<1> DEFINE oldest == IF w > T - late THEN w ELSE T - late
<1>1. oldest \in Int /\ oldest >= w /\ oldest >= T - late
  OBVIOUS
<1>2. i \in 1 .. (T - oldest) /\ RefreshableDates(T, late, w)[i] = T - i
  BY DEF RefreshableDates
<1> QED BY <1>1, <1>2

\* They are dates of the calendar, and no more than the late-arrival window holds.
LEMMA RefreshableType ==
    ASSUME NEW T \in Day, NEW w \in Day \cup {None}, T > Late
    PROVE  RefreshableDates(T, Late, w) \in Seq(Day) /\ PublishDates(T, Late, w) \in Seq(Day)
<1>1. T \in Nat /\ w \in Nat /\ Late \in Nat /\ LastDay \in Nat /\ T <= LastDay
  BY DayAssumption DEF Day, None
<1> DEFINE oldest == IF w > T - Late THEN w ELSE T - Late
           n      == IF T - oldest > 0 THEN T - oldest ELSE 0
<1>2. RefreshableDates(T, Late, w) = [i \in 1 .. n |-> T - i] /\ n \in Nat
  <2>1. 1 .. (T - oldest) = 1 .. n /\ n \in Nat
    BY <1>1
  <2> QED BY <2>1 DEF RefreshableDates
<1>3. \A i \in 1 .. n : T - i \in Day
  BY <1>1 DEF Day
<1>4. RefreshableDates(T, Late, w) \in Seq(Day)
  BY <1>2, <1>3
<1> QED BY <1>4 DEF PublishDates

\* The chain of tasks.
LEMMA ChainType ==
    /\ Len(Chain) \in {4, 5} /\ DOMAIN Chain = 1 .. Len(Chain)
    /\ \A i \in DOMAIN Chain :
           Chain[i] \in {"build_daily_partials", "fold_alltime_state", "build_and_test_mart",
                         "refresh_revision_window", "publish_offline_store"}
<1>1. CASE Late > 0
  BY <1>1 DEF Chain
<1>2. CASE ~(Late > 0)
  BY <1>2 DEF Chain
<1> QED BY <1>1, <1>2

LEMMA InvocationType ==
    ASSUME Task \in DOMAIN Invocation
    PROVE  Invocation[Task] \in {"build_partials", "fold_state", "build"}
BY DEF Invocation

\* The DAG is one way to run the project: each of its steps is one of FeatureStore, or none.
LEMMA DagStepIsStep ==
    ASSUME DagTypeInv, [DagNext]_allVars
    PROVE  [Next]_vars
<1>1. CASE UNCHANGED vars
  BY <1>1
<1>2. CASE InitialLoad
  <2>1. PICK from \in BackfillFroms : Start("backfill", FirstDate, from)
    BY <1>2 DEF InitialLoad
  <2>2. "backfill" \in Kinds /\ FirstDate \in Day /\ from \in Froms("backfill")
    BY DagAssumption DEF Froms
  <2> QED BY <2>1, <2>2 DEF Next
<1>3. CASE RunDbt
  <2>1. Invocation[Task] \in Kinds /\ None \in Froms(Invocation[Task])
    BY <1>3, InvocationType, DagAssumption DEF RunDbt, Froms
  <2>2. run.date \in Day
    BY <1>3 DEF RunDbt, Active, DagTypeInv, DagTypeOK
  <2> QED BY <1>3, <2>1, <2>2 DEF RunDbt, Next
<1>4. CASE Refresh
  <2>1. "build" \in Kinds /\ None \in Froms("build")
    BY DagAssumption DEF Froms
  <2>2. Head(run.dates) \in Day
    BY <1>4 DEF Refresh, Active, DagTypeInv, DagTypeOK
  <2> QED BY <1>4, <2>1, <2>2 DEF Refresh, Next
<1>5. CASE DbtStep
  BY <1>5 DEF DbtStep, Next
<1>6. CASE Fault
  BY <1>6 DEF Fault, Next
<1> QED
  BY <1>1, <1>2, <1>3, <1>4, <1>5, <1>6
  DEF DagNext, Progress, allVars, Schedule, Rerun, Resolve, Publish, EndOfDates

\* Going on with a run leaves one that is well formed, or none.
LEMMA AtTaskType ==
    ASSUME DagTypeInv, Active, NEW at \in DOMAIN Chain, NEW tries \in 0 .. Retries,
           AtTask(at, tries)
    PROVE  /\ run' \in [date : Day, manual : BOOLEAN, at : DOMAIN Chain, resolved : BOOLEAN,
                        dates : Seq(Day), tries : 0 .. Retries]
           /\ run'.date = run.date
<1>1. run.date \in Day /\ run.manual \in BOOLEAN
  BY DEF DagTypeInv, DagTypeOK, Active
<1>2. run' = [date |-> run.date, manual |-> run.manual, at |-> at, resolved |-> FALSE,
              dates |-> << >>, tries |-> tries]
  BY DEF AtTask, NoRun
<1> QED BY <1>1, <1>2

\* What the life of a run may make of it.
RunMovesOn ==
    /\ run' \in [date : Day, manual : BOOLEAN, at : DOMAIN Chain, resolved : BOOLEAN,
                 dates : Seq(Day), tries : 0 .. Retries] \cup {NoRun}
    /\ run' # NoRun => run'.date = run.date
    /\ lost' \in SUBSET Day

LEMMA TaskDoneType == ASSUME DagTypeInv, Active, TaskDone PROVE RunMovesOn
<1>1. run.at \in DOMAIN Chain /\ lost \in SUBSET Day
  BY DEF DagTypeInv, DagTypeOK, Active
<1>2. CASE run.at = Len(Chain)
  BY <1>1, <1>2 DEF TaskDone, RunMovesOn
<1>3. CASE run.at # Len(Chain)
  <2>1. run.at + 1 \in DOMAIN Chain
    BY <1>1, <1>3, ChainType
  <2>2. AtTask(run.at + 1, 0) /\ lost' = lost /\ 0 \in 0 .. Retries
    BY <1>3, DagAssumption DEF TaskDone
  <2> QED BY <1>1, <2>1, <2>2, AtTaskType DEF RunMovesOn
<1> QED BY <1>2, <1>3

LEMMA AttemptFailsType == ASSUME DagTypeInv, Active, AttemptFails PROVE RunMovesOn
<1>1. /\ run.at \in DOMAIN Chain /\ run.tries \in 0 .. Retries /\ run.date \in Day
      /\ lost \in SUBSET Day
  BY DEF DagTypeInv, DagTypeOK, Active
<1>2. CASE run.tries = Retries
  BY <1>1, <1>2 DEF AttemptFails, RunFails, RunMovesOn
<1>3. CASE run.tries # Retries
  <2>1. run.tries + 1 \in 0 .. Retries
    BY <1>1, <1>3, DagAssumption
  <2>2. AtTask(run.at, run.tries + 1) /\ lost' = lost
    BY <1>3 DEF AttemptFails
  <2> QED BY <1>1, <2>1, <2>2, AtTaskType DEF RunMovesOn
<1> QED BY <1>2, <1>3

\* The dates that are left when one of them has been dealt with.
LEMMA NextDateType ==
    ASSUME DagTypeInv, Active, run.dates # << >>, run' = [run EXCEPT !.dates = Tail(@)], lost' = lost
    PROVE  RunMovesOn
<1>1. run.dates \in Seq(Day) /\ lost \in SUBSET Day
  BY DEF DagTypeInv, DagTypeOK, Active
<1>2. Tail(run.dates) \in Seq(Day)
  BY <1>1
<1> QED BY <1>1, <1>2 DEF DagTypeInv, DagTypeOK, Active, RunMovesOn

\* Steps that leave the tables alone, and what the DAG keeps beside them.
LEMMA RunTypeKept ==
    ASSUME DagTypeInv, TypeOK', Active, RunMovesOn, newest' = newest,
           store' \in [Day -> Partition], faults' \in 0 .. MaxFaults, reruns' \in 0 .. MaxReruns
    PROVE  DagTypeInv'
BY DEF DagTypeInv, DagTypeOK, RunMovesOn, Active, NoRun

LEMMA InitDagType == DagInit => DagTypeInv
<1> SUFFICES ASSUME DagInit PROVE DagTypeInv
  OBVIOUS
<1>1. TypeOK
  BY InitType DEF DagInit
<1>2. EmptyPartition \in Partition
  BY DEF EmptyPartition, Partition, NoEvents
<1>3. store \in [Day -> Partition]
  BY <1>2 DEF DagInit
<1>4. faults \in 0 .. MaxFaults /\ reruns \in 0 .. MaxReruns
  BY DagAssumption DEF DagInit
<1> QED BY <1>1, <1>3, <1>4 DEF DagInit, DagTypeInv, DagTypeOK, Active

LEMMA NextDagType == DagTypeInv /\ [DagNext]_allVars => DagTypeInv'
<1> SUFFICES ASSUME DagTypeInv, [DagNext]_allVars PROVE DagTypeInv'
  OBVIOUS
<1>1. TypeOK'
  BY DagStepIsStep, NextType DEF DagTypeInv, DagTypeOK
<1>2. /\ store \in [Day -> Partition] /\ faults \in 0 .. MaxFaults /\ reruns \in 0 .. MaxReruns
      /\ newest \in Day \cup {None} /\ lost \in SUBSET Day
      /\ MaxFaults \in Nat /\ MaxReruns \in Nat
  BY DagAssumption DEF DagTypeInv, DagTypeOK
<1>3. CASE UNCHANGED dagVars
  BY <1>1, <1>3 DEF dagVars, DagTypeInv, DagTypeOK, Active, NoRun
<1>4. ASSUME NEW T \in Day, FirstDate <= T, NEW manual \in BOOLEAN,
             run' = [date |-> T, manual |-> manual, at |-> 1, resolved |-> FALSE, dates |-> << >>,
                     tries |-> 0],
             newest' \in Day, FirstDate <= newest',
             store' = store, lost' = lost, faults' = faults, reruns' \in 0 .. MaxReruns
      PROVE  DagTypeInv'
  <2>1. 1 \in DOMAIN Chain /\ 0 \in 0 .. Retries
    BY ChainType, DagAssumption
  <2>2. run' \in [date : Day, manual : BOOLEAN, at : DOMAIN Chain, resolved : BOOLEAN,
                  dates : Seq(Day), tries : 0 .. Retries]
    BY <1>4, <2>1
  <2> QED BY <1>1, <1>2, <1>4, <2>2 DEF DagTypeInv, DagTypeOK
<1>5. ASSUME NEW T \in Day, Schedule(T) PROVE DagTypeInv'
  <2>1. FirstDate <= T
    BY <1>2, <1>5, DagAssumption, DayAssumption DEF Schedule, DagTypeInv, Day, None
  <2>2. run' = [date |-> T, manual |-> FALSE, at |-> 1, resolved |-> FALSE, dates |-> << >>,
                tries |-> 0]
    BY <1>5 DEF Schedule, NoRun
  <2> QED BY <1>2, <1>4, <1>5, <2>1, <2>2 DEF Schedule
<1>6. ASSUME NEW T \in Day, Rerun(T) PROVE DagTypeInv'
  <2>1. FirstDate <= T /\ newest' = newest /\ newest \in Day /\ FirstDate <= newest
    BY <1>2, <1>6 DEF Rerun, DagTypeInv
  <2>2. reruns' \in 0 .. MaxReruns
    BY <1>2, <1>6 DEF Rerun
  <2>3. run' = [date |-> T, manual |-> TRUE, at |-> 1, resolved |-> FALSE, dates |-> << >>,
                tries |-> 0]
    BY <1>6 DEF Rerun, NoRun
  <2> QED BY <1>2, <1>4, <1>6, <2>1, <2>2, <2>3 DEF Rerun
<1>7. CASE Resolve
  <2>1. run.date \in Day /\ run.date > Late /\ Active
    BY <1>7, DagAssumption, DayAssumption DEF Resolve, DagTypeInv, DagTypeOK, Active, Day
  <2>2. /\ RefreshableDates(run.date, Late, Watermark) \in Seq(Day)
        /\ PublishDates(run.date, Late, Watermark) \in Seq(Day)
    <3>1. Watermark \in Day \cup {None}
      BY WatermarkIsMax DEF DagTypeInv, DagTypeOK
    <3> QED BY <2>1, <3>1, RefreshableType
  <2>3. PICK dates \in Seq(Day) : run' = [run EXCEPT !.resolved = TRUE, !.dates = dates]
    BY <1>7, <2>2 DEF Resolve
  <2>4. RunMovesOn
    BY <1>2, <1>7, <2>1, <2>3 DEF Resolve, RunMovesOn, DagTypeInv, DagTypeOK, Active
  <2> QED BY <1>1, <1>2, <1>7, <2>1, <2>4, RunTypeKept DEF Resolve
<1>8. CASE DbtStep
  <2>1. CASE Active /\ job' = Idle
    <3>1. RunMovesOn
      BY <1>8, <2>1, TaskDoneType, AttemptFailsType, NextDateType DEF DbtStep
    <3> QED BY <1>1, <1>2, <1>8, <2>1, <3>1, RunTypeKept DEF DbtStep
  <2>2. CASE ~(Active /\ job' = Idle)
    <3>1. run' = run /\ lost' = lost /\ store' = store /\ faults' = faults /\ reruns' = reruns
      BY <1>8, <2>2 DEF DbtStep
    <3>2. newest' = newest \/ newest' = FirstDate
      BY <1>8 DEF DbtStep
    <3>3. FirstDate \in Day /\ FirstDate <= FirstDate
      BY DagAssumption, DayAssumption DEF Day
    <3> QED BY <1>1, <3>1, <3>2, <3>3 DEF DagTypeInv, DagTypeOK, Active, NoRun
  <2> QED BY <2>1, <2>2
<1>9. CASE Publish
  <2>1. Active /\ newest' = newest /\ faults' = faults /\ reruns' = reruns
    BY <1>9 DEF Publish
  <2>2. store' \in [Day -> Partition]
    <3>1. Head(run.dates) \in Day
      BY <1>9 DEF Publish, Active, DagTypeInv, DagTypeOK
    <3>2. mart[Head(run.dates)] \in Partition
      BY <3>1 DEF DagTypeInv, DagTypeOK, TypeOK
    <3> QED BY <1>2, <1>9, <3>2 DEF Publish
  <2>3. RunMovesOn
    BY <1>9, AttemptFailsType, NextDateType DEF Publish
  <2> QED BY <1>1, <1>2, <2>1, <2>2, <2>3, RunTypeKept
<1>10. CASE EndOfDates
  <2>1. RunMovesOn
    BY <1>10, TaskDoneType DEF EndOfDates
  <2> QED BY <1>1, <1>2, <1>10, <2>1, RunTypeKept DEF EndOfDates
<1>11. CASE Fault
  <2>1. newest' = newest /\ store' = store /\ reruns' = reruns /\ faults' \in 0 .. MaxFaults
    BY <1>2, <1>11 DEF Fault
  <2>2. CASE Active
    <3>1. RunMovesOn
      BY <1>11, <2>2, AttemptFailsType DEF Fault
    <3> QED BY <1>1, <1>2, <2>1, <2>2, <3>1, RunTypeKept
  <2>3. CASE ~Active
    <3>1. run' = run /\ lost' = lost
      BY <1>11, <2>3 DEF Fault
    <3> QED BY <1>1, <2>1, <3>1 DEF DagTypeInv, DagTypeOK, Active, NoRun
  <2> QED BY <2>2, <2>3
<1> QED
  BY <1>3, <1>5, <1>6, <1>7, <1>8, <1>9, <1>10, <1>11
  DEF DagNext, Progress, InitialLoad, RunDbt, Refresh, allVars, dagVars

LEMMA DagTypeInvariant == DagSpec => []DagTypeInv
BY InitDagType, NextDagType, PTL DEF DagSpec

\* The DAG keeps to the types: whatever is scheduled, repeated, retried, refused or lost, a run
\* is at a task of its chain, has an attempt left or has ended, and refreshes and publishes days
\* of the calendar only.
THEOREM DagTypeCorrect == DagSpec => []DagTypeOK
<1>1. DagTypeInv => DagTypeOK
  BY DEF DagTypeInv
<1> QED BY <1>1, DagTypeInvariant, PTL

\* The daily DAG is one way to run the project: every behaviour of it is one of FeatureStore, so
\* that all that is proved of any order of runs holds under the DAG.
THEOREM DagRunsTheProject == DagSpec => Spec
<1>1. DagInit => Init
  BY DEF DagInit
<1>2. DagTypeInv /\ [DagNext]_allVars => [Next]_vars
  BY DagStepIsStep
<1> QED BY <1>1, <1>2, DagTypeInvariant, PTL DEF DagSpec, Spec

=============================================================================
