------------------------ MODULE DailyDag_store_proofs ------------------------
(***************************************************************************)
(* What warehouse and object storage hold when the daily DAG is between    *)
(* two runs, and what its publications do to what was published before:    *)
(* consequences of the contract and of the order in which a run revises    *)
(* and publishes, for every source in contract, calendar and lateness, and *)
(* any retries, failures, lost and repeated runs.                          *)
(***************************************************************************)
EXTENDS DailyDag_contract_proofs

-----------------------------------------------------------------------------
(***************************************************************************)
(* Publications of one date only grow.                                     *)
(***************************************************************************)

\* What is published was the flat pass over the rows of some day that has gone by.
StoreFromThePast ==
    \A d \in Day :
        \/ store[d] = EmptyPartition
        \/ \E h \in Nat : h <= Contract!Horizon(d) /\ store[d] = FlatPass(source, d, h)

\* What the publisher of the contract does to one date, and what it leaves alone.
LEMMA ContractStep ==
    ASSUME TypeOK, DagTypeInv, [Contract!Next]_Contract!vars, NEW d \in Day
    PROVE  /\ source' = source
           /\ Contract!Horizon(d) \in Nat /\ Contract!Horizon(d)' \in Int
           /\ Contract!Horizon(d) <= Contract!Horizon(d)'
           /\ \/ store'[d] = store[d]
              \/ /\ store'[d] = FlatPass(source, d, Contract!Horizon(d))
                 /\ ranTo' = ranTo
<1>1. d \in Nat /\ Late \in Nat /\ ranTo \in Nat /\ store \in [Day -> Partition]
  BY DayAssumption DEF TypeOK, DagTypeInv, DagTypeOK, Day, None
<1>2. CASE \E T \in Day : ranTo < T /\ ranTo' = T /\ UNCHANGED <<source, store>>
  <2>1. ranTo' \in Nat /\ ranTo <= ranTo'
    BY <1>1, <1>2, DayAssumption DEF Day
  <2> QED BY <1>1, <1>2, <2>1 DEF Contract!Horizon
<1>3. ASSUME NEW c \in Day, Contract!Publish(c)
      PROVE  /\ UNCHANGED <<source, ranTo>>
             /\ store'[d] = store[d] \/ store'[d] = FlatPass(source, d, Contract!Horizon(d))
  BY <1>1, <1>3 DEF Contract!Publish
<1>4. CASE UNCHANGED <<source, ranTo>> /\
           (store'[d] = store[d] \/ store'[d] = FlatPass(source, d, Contract!Horizon(d)))
  BY <1>1, <1>4 DEF Contract!Horizon
<1>5. CASE UNCHANGED Contract!vars
  BY <1>4, <1>5 DEF Contract!vars
<1> QED BY <1>2, <1>3, <1>4, <1>5 DEF Contract!Next, Contract!Pass

\* The flat pass takes in no row of a later day.
LEMMA FlatPassHoldsNoFuture ==
    ASSUME NEW S \in SUBSET Event, NEW d \in Day, NEW h \in Int
    PROVE  HoldsNoFuture(FlatPass(S, d, h), d)
BY DEF FlatPass, HoldsNoFuture

\* The more rows have been ingested, the more it counts.
LEMMA FlatPassGrows ==
    ASSUME NEW S \in SUBSET Event, NEW d \in Day, NEW h \in Int, NEW k \in Int, h <= k
    PROVE  /\ FlatPass(S, d, h).window \subseteq FlatPass(S, d, k).window
           /\ \A e \in Event : FlatPass(S, d, h).allTime[e] > 0 => FlatPass(S, d, k).allTime[e] > 0
<1> DEFINE due(n)    == {e \in S : e.day <= d /\ e.arr <= n /\ d < e.end}
           window(n) == {e \in due(n) : InWindow(e.day, d)}
           rows(n)   == {e.ent : e \in IF Spine = "active_window" /\ Window > 0 THEN window(n)
                                                                               ELSE due(n)}
<1>1. ASSUME NEW n \in Int
      PROVE  /\ FlatPass(S, d, n).window = window(n)
             /\ FlatPass(S, d, n).allTime =
                    [e \in Event |-> IF e \in due(n) /\ e.ent \in rows(n) THEN 1 ELSE 0]
  BY DEF FlatPass
<1>2. due(h) \subseteq due(k)
  <2>1. \A e \in S : e.arr \in Int
    BY EventType
  <2> QED BY <2>1
<1>3. window(h) \subseteq window(k)
  BY <1>2
<1>4. rows(h) \subseteq rows(k)
  BY <1>2, <1>3
<1>6. FlatPass(S, d, h).window \subseteq FlatPass(S, d, k).window
  BY <1>1, <1>3
<1> HIDE DEF due, rows
<1>5. ASSUME NEW e \in Event, NEW n \in Int
      PROVE  FlatPass(S, d, n).allTime[e] > 0 <=> e \in due(n) /\ e.ent \in rows(n)
  <2>1. FlatPass(S, d, n).allTime[e] = IF e \in due(n) /\ e.ent \in rows(n) THEN 1 ELSE 0
    BY <1>1
  <2> QED BY <2>1
<1> QED BY <1>2, <1>4, <1>5, <1>6

LEMMA NextStoreFromThePast ==
    ASSUME TypeOK, DagTypeInv, StoreFromThePast, [Contract!Next]_Contract!vars
    PROVE  StoreFromThePast'
<1>1. SUFFICES ASSUME NEW d \in Day
               PROVE  \/ store'[d] = EmptyPartition
                      \/ \E h \in Nat : /\ h <= Contract!Horizon(d)'
                                        /\ store'[d] = FlatPass(source, d, h)
  <2>1. source' = source
    BY ContractStep, DagAssumption
  <2>2. ASSUME NEW d \in Day
        PROVE  (\/ store[d] = EmptyPartition
                \/ \E h \in Nat : h <= Contract!Horizon(d) /\ store[d] = FlatPass(source, d, h))'
    <3>1. CASE store'[d] = EmptyPartition
      BY <3>1
    <3>2. ASSUME NEW h \in Nat, h <= Contract!Horizon(d)', store'[d] = FlatPass(source, d, h)
          PROVE  (\E k \in Nat : k <= Contract!Horizon(d) /\ store[d] = FlatPass(source, d, k))'
      BY <2>1, <3>2 DEF FlatPass, InWindow
    <3> QED BY <1>1, <3>1, <3>2
  <2> QED BY <2>2 DEF StoreFromThePast
<1>2. /\ Contract!Horizon(d) \in Nat /\ Contract!Horizon(d)' \in Int
      /\ Contract!Horizon(d) <= Contract!Horizon(d)'
      /\ store'[d] = store[d] \/ store'[d] = FlatPass(source, d, Contract!Horizon(d))
  BY ContractStep
<1> QED BY <1>2 DEF StoreFromThePast

\* A publication holds no event after its own date, and takes back nothing of what was published
\* for it, in the window or in all_time: later publications of a date are passes over the same rows and more.
THEOREM PublicationsOnlyGrow ==
    ASSUME FullLoad, InContract, WindowSpine
    PROVE  DagSpec => PublishedOnlyGrows
<1>1. DagInit => StoreFromThePast
  BY DEF DagInit, StoreFromThePast
<1>2. KnownInContract /\ Revised /\ StoreFromThePast /\ [DagNext]_allVars => StoreFromThePast'
  BY StepKeepsContract, NextStoreFromThePast, KnownType DEF KnownInContract
<1>3. ASSUME KnownInContract, Revised, StoreFromThePast, [DagNext]_allVars
      PROVE  \A d \in Day :
                 /\ HoldsNoFuture(store'[d], d)
                 /\ \A e \in Event :
                        Permanent(e) => /\ e \in store[d].window => e \in store'[d].window
                                        /\ store[d].allTime[e] > 0 => store'[d].allTime[e] > 0
  <2> SUFFICES ASSUME NEW d \in Day
               PROVE  /\ HoldsNoFuture(store'[d], d)
                      /\ store[d].window \subseteq store'[d].window
                      /\ \A e \in Event : store[d].allTime[e] > 0 => store'[d].allTime[e] > 0
    OBVIOUS
  <2>1. TypeOK /\ DagTypeInv /\ source \in SUBSET Event
    BY <1>3, KnownType DEF KnownInContract, TypeOK
  <2>2. /\ Contract!Horizon(d) \in Nat
        /\ store'[d] = store[d] \/ store'[d] = FlatPass(source, d, Contract!Horizon(d))
    BY <1>3, <2>1, StepKeepsContract, ContractStep
  <2>3. CASE store[d] = EmptyPartition
    <3>1. /\ HoldsNoFuture(store[d], d) /\ store[d].window = {}
          /\ \A e \in Event : ~(store[d].allTime[e] > 0)
      BY <2>3 DEF EmptyPartition, NoEvents, HoldsNoFuture
    <3> QED BY <2>1, <2>2, <3>1, FlatPassHoldsNoFuture
  <2>4. ASSUME NEW h \in Nat, h <= Contract!Horizon(d), store[d] = FlatPass(source, d, h)
        PROVE  /\ HoldsNoFuture(store'[d], d)
               /\ store[d].window \subseteq store'[d].window
               /\ \A e \in Event : store[d].allTime[e] > 0 => store'[d].allTime[e] > 0
    <3>1. h \in Int /\ Contract!Horizon(d) \in Int
      BY <2>2
    <3>2. CASE store'[d] = store[d]
      BY <2>1, <2>4, <3>1, <3>2, FlatPassHoldsNoFuture
    <3>3. CASE store'[d] = FlatPass(source, d, Contract!Horizon(d))
      <4>1. HoldsNoFuture(store'[d], d)
        BY <2>1, <3>1, <3>3, FlatPassHoldsNoFuture
      <4>2. /\ FlatPass(source, d, h).window \subseteq FlatPass(source, d, Contract!Horizon(d)).window
            /\ \A e \in Event : FlatPass(source, d, h).allTime[e] > 0 =>
                  FlatPass(source, d, Contract!Horizon(d)).allTime[e] > 0
        BY <2>1, <2>4, <3>1, FlatPassGrows
      <4> QED BY <2>4, <3>3, <4>1, <4>2
    <3> QED BY <2>2, <3>2, <3>3
  <2> QED BY <1>3, <2>3, <2>4 DEF StoreFromThePast
<1> QED
  BY <1>1, <1>2, <1>3, DagKnownInContract, RevisedInvariant, PTL DEF DagSpec, PublishedOnlyGrows

\* Once a date is final, the store changes its partition at most one more time, to the flat pass
\* over all the rows that came in time: what a consumer has read then stays as it is, whatever
\* runs are repeated.
FinalStays ==
    [][\A d \in Day : ranTo >= d + Late /\ store'[d] # store[d] =>
           /\ store'[d] = FlatPass(source, d, d + Late)
           /\ store[d] # FlatPass(source, d, d + Late)]_allVars

THEOREM FinalPartitionsStay ==
    ASSUME FullLoad, InContract, WindowSpine
    PROVE  DagSpec => FinalStays
<1>1. ASSUME KnownInContract, Revised, [DagNext]_allVars, NEW d \in Day,
             ranTo >= d + Late, store'[d] # store[d]
      PROVE  store'[d] = FlatPass(source, d, d + Late)
  <2>1. TypeOK /\ DagTypeInv
    BY <1>1, KnownType DEF KnownInContract
  <2>2. store'[d] = FlatPass(source, d, Contract!Horizon(d))
    BY <1>1, <2>1, StepKeepsContract, ContractStep
  <2>3. Contract!Horizon(d) = d + Late
    <3>1. d \in Nat /\ Late \in Nat /\ ranTo \in Nat
      BY <2>1, DayAssumption DEF TypeOK, Day, None
    <3> QED BY <1>1, <3>1 DEF Contract!Horizon
  <2> QED BY <2>2, <2>3
<1>2. KnownInContract /\ Revised /\ [DagNext]_allVars =>
        [\A d \in Day : ranTo >= d + Late /\ store'[d] # store[d] =>
             /\ store'[d] = FlatPass(source, d, d + Late)
             /\ store[d] # FlatPass(source, d, d + Late)]_allVars
  BY <1>1
<1> QED BY <1>2, DagKnownInContract, RevisedInvariant, PTL DEF DagSpec, FinalStays

-----------------------------------------------------------------------------
(***************************************************************************)
(* Between two runs everything is settled that no lost run has left open.  *)
(***************************************************************************)

\* The newest run whose business the partition of d has been, and the partition it owes.
DueBy(d)  == IF d + Late < newest THEN d + Late ELSE newest
Owed(d)   == FlatPass(source, d, DueBy(d))
Open(d)   == DueBy(d) \in lost \/ (Active /\ ~run.manual /\ DueBy(d) = run.date)

\* A partition of the mart without rows is none.
MartHasRows == \A d \in Day : mart[d] = EmptyPartition \/ mart[d].rows # {}

\* Until the initial load has gone through, there is at most its own partition.
BeforeTheLoad ==
    newest = None => \A d \in Day :
        /\ store[d] = EmptyPartition
        /\ mart[d] # EmptyPartition => d = FirstDate /\ mart[d] = FlatPass(source, d, FirstDate)

\* Days that the layer has not been built for are those of lost runs, and of the one at work.
OnlyLostDaysAreMissed ==
    \A t \in Day : ranTo < t /\ t <= newest =>
        (t \in lost \/ (Active /\ ~run.manual /\ t = run.date))

\* All that is not left to a lost run, or to the scheduled run at work, is settled at any time.
SettledSoFar ==
    \A d \in Day : d <= newest /\ ~Open(d) =>
        /\ mart[d] # EmptyPartition => mart[d] = Owed(d)
        /\ store[d] # EmptyPartition => store[d] = Owed(d)

\* What the publisher has dealt with is on object storage as the contract asks.
PublishedSoFar ==
    Active /\ Task = "publish_offline_store" /\ run.resolved =>
        \A d \in Day : Revisable(d) =>
            \/ \E i \in DOMAIN run.dates : run.dates[i] = d
            \/ store[d] = FlatPass(source, d, Contract!Horizon(d))

AllSettled ==
    /\ MartHasRows /\ BeforeTheLoad /\ OnlyLostDaysAreMissed
    /\ SettledSoFar /\ PublishedSoFar

\* What is known of every state when the hypotheses of the contract hold.
KnownOfContract == KnownInContract /\ MartFromLayer /\ Revised

\* No day between two runs: the catch-up that the DAG does not do is never called for.
NoGap == MaxGap = 1

LEMMA DagKnownOfContract ==
    ASSUME FullLoad, InContract, WindowSpine PROVE DagSpec => []KnownOfContract
<1>1. KnownOfContract <=> KnownInContract /\ MartFromLayer /\ Revised
  BY DEF KnownOfContract
<1> QED BY <1>1, DagKnownInContract, MartInvariant, RevisedInvariant, PTL

\* The numbers behind the days of a state.
LEMMA DaysOfState ==
    ASSUME KnownOfContract
    PROVE  /\ TypeOK /\ DagTypeInv /\ Known /\ WorkOfRun
           /\ ranTo \in Nat /\ newest \in Nat /\ Late \in Nat /\ FirstDate \in Nat /\ FirstDate > 0
           /\ mart \in [Day -> Partition] /\ store \in [Day -> Partition]
           /\ \A d \in Day : d \in Nat /\ d > 0
           /\ \A x \in Entity : stateAsOf[x] \in Nat
           /\ newest # None => ranTo <= newest
           /\ Active => newest # None /\ run.date <= newest /\ run.date \in Nat
           /\ Active /\ ~run.manual => run.date = newest
<1>1. TypeOK /\ DagTypeInv /\ Known /\ WorkOfRun
  BY KnownType DEF KnownOfContract, KnownInContract
<1> QED
  BY <1>1, RunType, DayAssumption, DagAssumption
  DEF TypeOK, DagTypeInv, DagTypeOK, Day, None, WorkOfRun, LayerOfRun

\* The publisher's horizon is the one that is owed, unless a run was lost or is at work.
LEMMA HorizonIsDue ==
    ASSUME KnownOfContract, OnlyLostDaysAreMissed, NEW d \in Day, d <= newest, ~Open(d)
    PROVE  Contract!Horizon(d) = DueBy(d)
<1>1. /\ d \in Nat /\ d > 0 /\ ranTo \in Nat /\ newest \in Nat /\ Late \in Nat /\ ranTo <= newest
      /\ newest \in Day /\ newest # None
  BY DaysOfState DEF DagTypeInv, DagTypeOK, None
<1>2. DueBy(d) \in Day /\ DueBy(d) <= newest
  <2>1. newest <= LastDay /\ LastDay \in Nat
    BY <1>1, DayAssumption DEF Day
  <2> QED BY <1>1, <2>1 DEF DueBy, Day
<1>3. ~(ranTo < DueBy(d))
  BY <1>2 DEF OnlyLostDaysAreMissed, Open
<1> QED BY <1>1, <1>2, <1>3 DEF DueBy, Contract!Horizon

\* Only the mart's node changes the mart, and it produces a partition with rows or none at all.
LEMMA MartChanges ==
    ASSUME KnownOfContract, InContract, WindowSpine, [DagNext]_allVars, NEW d \in Day, mart'[d] # mart[d]
    PROVE  /\ BuildMart /\ DbtStep /\ d = job.target /\ UNCHANGED <<source, ranTo>>
           /\ mart'[d].rows # {} /\ mart'[d] = FlatPass(source, d, Contract!Horizon(d))
<1>1. /\ TypeOK /\ DagTypeInv /\ KnownInContract /\ MartFromLayer /\ [Next]_vars
      /\ mart \in [Day -> Partition]
  BY DaysOfState, DagStepIsStep DEF KnownOfContract
<1>2. BuildMart
  BY <1>1 DEF Next, Work, vars, warehouse, Start, BuildStaging, BuildPartials, BuildState,
              WatermarkTest, MartTest, Abort
<1>3. d = job.target /\ mart'[d] = Published(d) /\ UNCHANGED <<source, ranTo>>
  BY <1>1, <1>2 DEF BuildMart
<1>4. mart'[d] = PartitionFor(d) /\ SpineOf(d) # {}
  BY <1>3 DEF Published
<1>5. PartitionFor(d) = FlatPass(source, d, Contract!Horizon(d))
  BY <1>1, <1>2, <1>3, MartIsDue, PartitionIsFlatPass
<1>6. mart'[d].rows # {}
  BY <1>4 DEF PartitionFor
<1>7. DbtStep
  <2>1. mart' # mart
    OBVIOUS
  <2>2. CASE Fault \/ InitialLoad \/ RunDbt \/ Refresh
    BY <2>1, <2>2 DEF Fault, Abort, InitialLoad, RunDbt, Refresh, Start, vars, warehouse
  <2>3. CASE Resolve \/ Publish \/ EndOfDates
    BY <2>1, <2>3 DEF Resolve, Publish, EndOfDates, vars, warehouse
  <2>4. CASE \E T \in Day : Schedule(T) \/ Rerun(T)
    BY <2>1, <2>4 DEF Schedule, Rerun, vars, warehouse
  <2> QED BY <2>1, <2>2, <2>3, <2>4 DEF DagNext, Progress, allVars, vars, warehouse
<1> QED BY <1>2, <1>3, <1>4, <1>5, <1>6, <1>7

LEMMA NextMartHasRows ==
    ASSUME KnownOfContract, InContract, WindowSpine, MartHasRows, [DagNext]_allVars
    PROVE  MartHasRows'
<1>1. SUFFICES ASSUME NEW d \in Day PROVE mart'[d] = EmptyPartition \/ mart'[d].rows # {}
  BY DEF MartHasRows
<1> QED BY MartChanges DEF MartHasRows

\* Nothing is published, and no run is in progress, before the initial load.
LEMMA NextBeforeTheLoad ==
    ASSUME KnownOfContract, InContract, WindowSpine, BeforeTheLoad, [DagNext]_allVars
    PROVE  BeforeTheLoad'
<1>1. /\ TypeOK /\ DagTypeInv /\ WorkOfRun /\ ranTo \in Nat /\ FirstDate \in Nat /\ Late \in Nat
      /\ FirstDate > 0
  BY DaysOfState
<1>2. SUFFICES ASSUME newest' = None, NEW d \in Day
               PROVE  /\ store'[d] = EmptyPartition
                      /\ mart'[d] # EmptyPartition =>
                             d = FirstDate /\ mart'[d] = FlatPass(source', d, FirstDate)
  BY DEF BeforeTheLoad, FlatPass, InWindow
<1>3. newest = None /\ ~Active /\ ~Publish /\ source' = source
  <2>1. newest = None
    <3>1. ASSUME NEW T \in Day, Schedule(T) PROVE FALSE
      BY <1>2, <3>1, DayAssumption DEF Schedule, Day, None
    <3>2. CASE DbtStep
      BY <1>1, <1>2, <3>2 DEF DbtStep, None
    <3>3. CASE newest' = newest
      BY <1>2, <3>3
    <3> QED
      BY <3>1, <3>2, <3>3
      DEF DagNext, Progress, allVars, dagVars, Rerun, InitialLoad, RunDbt, Resolve, Refresh, Publish,
          EndOfDates, Fault
  <2>2. ~Active
    BY <2>1, DaysOfState
  <2>3. source' = source
    BY <1>1, DagStepIsStep
    DEF Next, Work, vars, warehouse, Start, BuildStaging, BuildPartials, BuildState, WatermarkTest,
        BuildMart, MartTest, Abort
  <2> QED BY <2>1, <2>2, <2>3 DEF Publish
<1>4. store' = store
  BY <1>3 DEF DagNext, Progress, allVars, dagVars, Schedule, Rerun, InitialLoad, RunDbt, Resolve,
              Refresh, DbtStep, EndOfDates, Fault
<1>5. CASE mart'[d] = mart[d]
  BY <1>3, <1>4, <1>5 DEF BeforeTheLoad
<1>6. CASE mart'[d] # mart[d]
  <2>1. /\ BuildMart /\ d = job.target /\ mart'[d] = FlatPass(source, d, Contract!Horizon(d))
    BY <1>6, MartChanges
  <2>2. job # Idle
    BY <1>1, <2>1, JobMoves DEF Work
  <2>3. d = FirstDate
    BY <1>1, <1>3, <2>1, <2>2 DEF WorkOfRun, JobOfRun
  <2>4. ranTo = FirstDate
    <3>1. d <= ranTo
      BY <2>1, MartIsDue DEF KnownOfContract
    <3> QED BY <1>1, <1>3, <2>3, <3>1 DEF WorkOfRun, LayerOfRun, None
  <2>5. Contract!Horizon(d) = FirstDate
    BY <1>1, <2>3, <2>4 DEF Contract!Horizon
  <2> QED BY <1>3, <1>4, <2>1, <2>3, <2>5 DEF BeforeTheLoad
<1> QED BY <1>5, <1>6

\* How a step of the DAG moves what is lost and who is at work: a run begins, with the next date
\* or with an earlier one; it goes on; it fails; it ends well, behind its last task; or the
\* initial load ends.
RunBegins == /\ ~Active /\ run'.manual \in BOOLEAN /\ run' # NoRun
             /\ UNCHANGED <<source, mart, store, lost, ranTo>>
             /\ \/ ~run'.manual /\ run'.date = newest' /\ newest' = newest + 1 /\ newest # None
                \/ run'.manual /\ newest' = newest
RunGoesOn == /\ newest' = newest /\ lost' = lost
             /\ \/ ~Active /\ run' = run
                \/ Active /\ run' # NoRun /\ run'.date = run.date /\ run'.manual = run.manual
RunEndsBadly == Active /\ RunFails /\ newest' = newest
RunEndsWell == /\ Active /\ run.at = Len(Chain) /\ run' = NoRun
               /\ run.resolved /\ run.dates = << >>
               /\ lost' = IF run.date = newest THEN lost \ {newest} ELSE lost
               /\ UNCHANGED <<source, mart, store, newest, ranTo, stateAsOf>>
LoadEnds == /\ newest = None /\ newest' = FirstDate /\ ~Active /\ run' = run
            /\ UNCHANGED <<lost, store>> /\ ranTo' = FirstDate

\* An attempt that fails, or a task that ends before the chain does, leaves the run going on,
\* or ends it badly.
LEMMA AfterAttempt ==
    ASSUME DagTypeInv, Active, newest' = newest,
           AttemptFails \/ (TaskDone /\ run.at # Len(Chain))
    PROVE  RunGoesOn \/ RunEndsBadly
<1>1. CASE RunFails
  BY <1>1 DEF RunEndsBadly
<1>2. ASSUME NEW at \in {run.at, run.at + 1}, NEW tries, AtTask(at, tries), UNCHANGED lost
      PROVE  RunGoesOn
  <2>1. run'.date = run.date /\ run'.manual = run.manual
    BY <1>2 DEF AtTask, NoRun
  <2>2. run' # NoRun
    <3>1. run'.date \in Nat /\ run'.date > 0
      BY <2>1, RunType DEF Day
    <3> QED BY <3>1 DEF NoRun, None
  <2> QED BY <1>2, <2>1, <2>2 DEF RunGoesOn
<1> QED BY <1>1, <1>2 DEF AttemptFails, TaskDone

LEMMA StepOfRun ==
    ASSUME KnownOfContract, FullLoad, NoGap, [DagNext]_allVars
    PROVE  RunBegins \/ RunGoesOn \/ RunEndsBadly \/ RunEndsWell \/ LoadEnds
<1>1. /\ TypeOK /\ DagTypeInv /\ RetryInv /\ WorkOfRun /\ ranTo \in Nat /\ newest \in Nat
      /\ FirstDate \in Nat
  BY DaysOfState, KnownType DEF Known
<1>2. CASE UNCHANGED <<run, newest, lost>>
  BY <1>2 DEF RunGoesOn, Active
<1>3. ASSUME NEW T \in Day, Schedule(T) \/ Rerun(T) PROVE RunBegins
  <2>1. /\ run'.date = T /\ run'.manual \in BOOLEAN /\ ~Active
        /\ run'.manual <=> ~Schedule(T) 
        /\ UNCHANGED <<source, mart, store, lost, ranTo>>
    BY <1>3 DEF Schedule, Rerun, NoRun, vars, warehouse
  <2>2. run' # NoRun
    BY <2>1, DayAssumption DEF NoRun, Day, None
  <2>3. ~run'.manual => newest # None /\ newest' = newest + 1 /\ T = newest'
    BY <1>1, <1>3, <2>1, DayAssumption DEF Schedule, FullLoad, NoGap, Day
  <2>4. run'.manual => newest' = newest
    BY <1>3, <2>1 DEF Rerun
  <2> QED BY <2>1, <2>2, <2>3, <2>4 DEF RunBegins
<1>4. ASSUME Active, run.dates # << >>, run' = [run EXCEPT !.dates = Tail(@)],
             UNCHANGED <<newest, lost>>
      PROVE  RunGoesOn
  BY <1>1, <1>4, NextDates DEF RunGoesOn
<1>5. CASE Resolve
  <2>1. Active /\ UNCHANGED <<newest, lost>>
    BY <1>5 DEF Resolve
  <2>2. run'.date = run.date /\ run'.manual = run.manual
    BY <1>1, <1>5, <2>1 DEF Resolve, DagTypeInv, DagTypeOK, Active
  <2>3. run' # NoRun
    <3>1. run'.date \in Nat /\ run'.date > 0
      BY <1>1, <2>1, <2>2, RunType DEF Day
    <3> QED BY <3>1 DEF NoRun, None
  <2> QED BY <2>1, <2>2, <2>3 DEF RunGoesOn
<1>6. CASE DbtStep
  <2>1. Work /\ job # Idle /\ store' = store
    BY <1>1, <1>6, JobMoves DEF DbtStep
  <2>2. CASE Active /\ job' = Idle
    <3>1. newest' = newest
      BY <1>6, <2>2 DEF DbtStep
    <3>2. CASE TestFails
      BY <1>1, <1>6, <2>2, <3>1, <3>2, AfterAttempt DEF DbtStep
    <3>3. CASE ~TestFails /\ run.dates # << >>
      BY <1>4, <1>6, <2>2, <3>1, <3>3 DEF DbtStep
    <3>4. CASE ~TestFails /\ run.dates = << >>
      <4>1. TaskDone
        BY <1>6, <2>2, <3>4 DEF DbtStep
      <4>2. Task \in DOMAIN Invocation
        BY <1>1, <2>1, <2>2, <3>4 DEF WorkOfRun, JobOfRun
      <4>3. run.at # Len(Chain)
        BY <1>1, <2>2, <4>2, RunType, ChainOrder DEF Task, Invocation
      <4> QED BY <1>1, <2>2, <3>1, <4>1, <4>3, AfterAttempt
    <3> QED BY <3>2, <3>3, <3>4
  <2>3. CASE ~Active /\ job' = Idle
    <3>1. /\ newest = None /\ job.kind = "backfill" /\ job.target = FirstDate
          /\ newest' = FirstDate /\ UNCHANGED <<run, lost>>
      BY <1>1, <1>6, <2>1, <2>3 DEF WorkOfRun, JobOfRun, DbtStep
    <3>2. ~TestFails
      <4>1. PICK i \in 1 .. Len(Plan[job.kind]) : \A node : At(node) => node = Plan[job.kind][i]
        BY <1>1, <2>1, WorkNode
      <4>2. Plan["backfill"] = <<"staging", "partials", "state", "mart">>
        BY DEF Plan
      <4> QED BY <3>1, <4>1, <4>2 DEF TestFails
    <3>3. BuildMart /\ partialsExist
      BY <1>1, <2>1, <2>3, <3>1, <3>2, LastNode
    <3>4. ranTo = FirstDate /\ ranTo' = ranTo
      BY <1>1, <3>1, <3>3 DEF WorkOfRun, LayerOfRun, BuildMart
    <3> QED BY <2>1, <2>3, <3>1, <3>4 DEF LoadEnds
  <2>4. CASE job' # Idle
    BY <1>2, <1>6, <2>4 DEF DbtStep
  <2> QED BY <2>2, <2>3, <2>4
<1>7. CASE Publish
  BY <1>1, <1>4, <1>7, AfterAttempt DEF Publish
<1>8. CASE EndOfDates
  <2>1. CASE run.at = Len(Chain)
    BY <1>8, <2>1 DEF EndOfDates, TaskDone, RunEndsWell, vars, warehouse
  <2>2. CASE run.at # Len(Chain)
    BY <1>1, <1>8, <2>2, AfterAttempt DEF EndOfDates
  <2> QED BY <2>1, <2>2
<1>9. CASE Fault
  <2>1. CASE Active
    BY <1>1, <1>9, <2>1, AfterAttempt DEF Fault
  <2>2. CASE ~Active
    BY <1>2, <1>9, <2>2 DEF Fault
  <2> QED BY <2>1, <2>2
<1> QED
  BY <1>2, <1>3, <1>5, <1>6, <1>7, <1>8, <1>9
  DEF DagNext, Progress, InitialLoad, RunDbt, Refresh, allVars, dagVars

\* A day that the layer has not come to is one of a lost run, or of the one at work.
LEMMA NextOnlyLostDaysAreMissed ==
    ASSUME KnownOfContract, FullLoad, NoGap, OnlyLostDaysAreMissed, [DagNext]_allVars
    PROVE  OnlyLostDaysAreMissed'
<1>1. /\ TypeOK /\ DagTypeInv /\ WorkOfRun /\ ranTo \in Nat /\ newest \in Nat /\ FirstDate \in Nat
  BY DaysOfState
<1>2. ranTo' \in Nat /\ ranTo <= ranTo'
  <2>1. CASE Work
    BY <2>1, LayerAfterWork, DaysOfState
  <2>2. CASE ~Work
    BY <1>1, <2>2, DagStepIsStep DEF Next, vars, Start, Abort
  <2> QED BY <2>1, <2>2
<1>3. SUFFICES ASSUME NEW t \in Day, ranTo' < t, t <= newest'
               PROVE  t \in lost' \/ (run' # NoRun /\ ~run'.manual /\ t = run'.date)
  BY DEF OnlyLostDaysAreMissed, Active
<1>4. t \in Nat /\ ranTo < t
  BY <1>1, <1>2, <1>3, DayAssumption DEF Day
<1>5. t <= newest => t \in lost \/ (Active /\ ~run.manual /\ t = run.date)
  BY <1>4 DEF OnlyLostDaysAreMissed
<1>6. CASE RunBegins
  BY <1>1, <1>3, <1>4, <1>5, <1>6 DEF RunBegins
<1>7. CASE RunGoesOn
  BY <1>3, <1>5, <1>7 DEF RunGoesOn, Active
<1>8. CASE RunEndsBadly
  BY <1>3, <1>5, <1>8 DEF RunEndsBadly, RunFails
<1>9. CASE RunEndsWell
  <2>1. run.at > 1 /\ run.date <= ranTo /\ run.date \in Nat
    BY <1>1, <1>9, RunType, ChainOrder DEF RunEndsWell, WorkOfRun, LayerOfRun
  <2>2. t # run.date
    BY <1>1, <1>4, <2>1
  <2> QED BY <1>3, <1>5, <1>9, <2>2 DEF RunEndsWell
<1>10. CASE LoadEnds
  BY <1>1, <1>3, <1>4, <1>10 DEF LoadEnds
<1> QED BY <1>6, <1>7, <1>8, <1>9, <1>10, StepOfRun

\* Whatever an attempt ends in, nothing is resolved any more.
LEMMA UnresolvedAfter ==
    ASSUME AttemptFails \/ TaskDone
    PROVE  run'.resolved = FALSE
<1>1. CASE run' = NoRun
  BY <1>1 DEF NoRun
<1>2. ASSUME NEW at, NEW tries, AtTask(at, tries) PROVE run'.resolved = FALSE
  BY <1>2 DEF AtTask, NoRun
<1> QED BY <1>1, <1>2 DEF AttemptFails, TaskDone, RunFails

\* A run publishes all that it may, from its own date backwards.
LEMMA NextPublishedSoFar ==
    ASSUME KnownOfContract, InContract, FullLoad, WindowSpine, NoGap, PublishedSoFar, [DagNext]_allVars
    PROVE  PublishedSoFar'
<1>1. /\ TypeOK /\ DagTypeInv /\ Known /\ WorkOfRun /\ RunRevised /\ KnownInContract
      /\ store \in [Day -> Partition]
  BY DaysOfState DEF KnownOfContract, Revised
<1>2. SUFFICES ASSUME Active', Task' = "publish_offline_store", run'.resolved
               PROVE  \A d \in Day : Revisable(d)' =>
                          \/ \E i \in DOMAIN run'.dates : run'.dates[i] = d
                          \/ store'[d] = FlatPass(source, d, Contract!Horizon(d))'
  BY DEF PublishedSoFar, FlatPass, InWindow, Contract!Horizon
<1>3. CASE run' = run
  <2>1. Active /\ Task = "publish_offline_store" /\ run.resolved
    BY <1>2, <1>3 DEF Active, Task
  <2>2. run.at > 1 /\ ranTo' = ranTo
    <3>1. run.at > 1
      BY <1>1, <2>1, RunType, ChainOrder DEF Task
    <3> QED BY <1>1, <2>1, <3>1, RanToStays
  <2>3. ~Publish
    <3>1. ASSUME run.dates # << >>, run' = [run EXCEPT !.dates = Tail(@)] PROVE FALSE
      <4>1. run.dates \in Seq(Day) /\ run'.dates = Tail(run.dates)
        BY <1>1, <2>1, <3>1, RunType DEF DagTypeInv, DagTypeOK, Active
      <4>2. Len(run'.dates) # Len(run.dates)
        BY <3>1, <4>1
      <4> QED BY <1>3, <4>2
    <3>2. ASSUME AttemptFails PROVE FALSE
      BY <1>2, <3>2, UnresolvedAfter
    <3> QED BY <3>1, <3>2 DEF Publish
  <2>4. store' = store
    BY <2>3 DEF DagNext, Progress, allVars, dagVars, Schedule, Rerun, InitialLoad, RunDbt, Resolve,
                Refresh, DbtStep, EndOfDates, Fault
  <2>5. source' = source
    BY <1>1, DagStepIsStep
    DEF Next, Work, vars, warehouse, Start, BuildStaging, BuildPartials, BuildState, WatermarkTest,
        BuildMart, MartTest, Abort
  <2>6. \A d \in Day : Revisable(d)' => Revisable(d)
    BY <1>1, <1>3, RevisableOnlyShrinks
  <2> QED BY <1>3, <2>1, <2>2, <2>4, <2>5, <2>6 DEF PublishedSoFar, FlatPass, InWindow, Contract!Horizon
<1>4. CASE run'.resolved = FALSE
  BY <1>2, <1>4
<1>5. CASE AttemptFails \/ TaskDone
  BY <1>4, <1>5, UnresolvedAfter
<1>6. CASE Resolve
  <2>1. Active /\ run.at \in DOMAIN Chain /\ run.date \in Day
    BY <1>1, <1>6, RunType DEF Resolve
  <2>2. run'.at = run.at /\ run'.date = run.date
    BY <1>1, <1>6, <2>1 DEF Resolve, DagTypeInv, DagTypeOK, Active
  <2>3. Task = "publish_offline_store"
    BY <1>2, <2>2 DEF Task
  <2> DEFINE rs == RefreshableDates(run.date, Late, Watermark)
  <2>4. run'.dates = <<run.date>> \o rs
    BY <1>1, <1>6, <2>1, <2>3 DEF Resolve, PublishDates, DagTypeInv, DagTypeOK, Active
  <2>5. rs \in Seq(Day)
    <3>1. run.date > Late /\ Watermark \in Day \cup {None}
      BY <1>1, <2>1, RunType, WatermarkIsMax
    <3> QED BY <2>1, <3>1, RefreshableType
  <2>6. ASSUME NEW d \in Day, Revisable(d)'
        PROVE  \E i \in DOMAIN run'.dates : run'.dates[i] = d
    <3>1. Revisable(d)
      BY <1>1, <2>2, <2>6, RevisableOnlyShrinks
    <3>2. d = run.date \/ \E i \in DOMAIN rs : rs[i] = d
      BY <1>1, <2>1, <3>1, ResolvedAreRevisable
    <3> HIDE DEF rs
    <3>3. CASE d = run.date
      BY <2>1, <2>4, <2>5, <3>3
    <3>4. ASSUME NEW i \in DOMAIN rs, rs[i] = d
          PROVE  i + 1 \in DOMAIN (<<run.date>> \o rs) /\ (<<run.date>> \o rs)[i + 1] = d
      BY <2>1, <2>5, <3>4
    <3> QED BY <2>4, <3>2, <3>3, <3>4
  <2> QED BY <2>6
<1>7. CASE Publish /\ ~AttemptFails
  <2>1. /\ Active /\ Task = "publish_offline_store" /\ run.dates # << >>
        /\ run' = [run EXCEPT !.dates = Tail(@)] /\ run.resolved
        /\ UNCHANGED <<source, ranTo, stateAsOf>>
    BY <1>1, <1>7 DEF Publish, vars, warehouse, WorkOfRun, DatesOfRun
  <2>2. PICK c \in Day : c = Head(run.dates) /\ c = run.dates[1] /\ 1 \in DOMAIN run.dates
    <3>1. run.dates \in Seq(Day)
      BY <1>1, <2>1, RunType
    <3> QED BY <2>1, <3>1
  <2>3. store' = [store EXCEPT ![c] = mart[c]] /\ Publishable(mart[c], c)
    BY <1>7, <2>2 DEF Publish
  <2>4. store'[c] = FlatPass(source, c, Contract!Horizon(c))
    BY <1>1, <2>1, <2>2, <2>3 DEF Publishable, RunRevised, Exact
  <2>5. /\ run'.date = run.date
        /\ \A i \in DOMAIN run.dates : i = 1 \/ \E k \in DOMAIN run'.dates : run'.dates[k] = run.dates[i]
    BY <1>1, <2>1, NextDates
  <2>6. ASSUME NEW d \in Day, Revisable(d)'
        PROVE  \/ \E i \in DOMAIN run'.dates : run'.dates[i] = d
               \/ store'[d] = FlatPass(source, d, Contract!Horizon(d))
    <3>1. Revisable(d)
      BY <1>1, <2>5, <2>6, RevisableOnlyShrinks
    <3>2. CASE d = c
      BY <2>4, <3>2
    <3>3. CASE d # c /\ store[d] = FlatPass(source, d, Contract!Horizon(d))
      BY <1>1, <2>3, <3>3
    <3>4. ASSUME NEW i \in DOMAIN run.dates, run.dates[i] = d, d # c
          PROVE  \E k \in DOMAIN run'.dates : run'.dates[k] = d
      BY <2>2, <2>5, <3>4
    <3> QED BY <2>1, <3>1, <3>2, <3>3, <3>4 DEF PublishedSoFar
  <2> QED BY <2>1, <2>6 DEF FlatPass, InWindow, Contract!Horizon
<1>8. CASE DbtStep
  <2>1. CASE Active /\ job' = Idle
    <3>1. job # Idle
      BY <1>1, <1>8, JobMoves DEF DbtStep
    <3>2. Task # "publish_offline_store"
      BY <1>1, <2>1, <3>1 DEF WorkOfRun, JobOfRun, Invocation
    <3>3. CASE ~TestFails /\ run.dates # << >>
      <4>1. run' = [run EXCEPT !.dates = Tail(@)]
        BY <1>8, <2>1, <3>3 DEF DbtStep
      <4>2. Task' = Task
        BY <1>1, <2>1, <3>3, <4>1, NextDates DEF Task
      <4> QED BY <1>2, <3>2, <4>2
    <3> QED BY <1>5, <1>8, <2>1, <3>3 DEF DbtStep
  <2>2. CASE ~(Active /\ job' = Idle)
    BY <1>3, <1>8, <2>2 DEF DbtStep
  <2> QED BY <2>1, <2>2
<1>9. CASE Fault
  BY <1>3, <1>5, <1>9 DEF Fault
<1>10. CASE EndOfDates
  BY <1>5, <1>10 DEF EndOfDates
<1>11. CASE \E T \in Day : Schedule(T) \/ Rerun(T)
  BY <1>4, <1>11 DEF Schedule, Rerun, NoRun
<1> QED
  BY <1>3, <1>5, <1>6, <1>7, <1>8, <1>9, <1>10, <1>11
  DEF DagNext, Progress, InitialLoad, RunDbt, Refresh, allVars, dagVars

\* What is settled stays so, and a run of the newest date that goes through settles all that is
\* its business: everything in its late-arrival window.
LEMMA NextSettledSoFar ==
    ASSUME KnownOfContract, InContract, FullLoad, WindowSpine, NoGap, AllSettled, [DagNext]_allVars
    PROVE  SettledSoFar'
<1>1. /\ TypeOK /\ DagTypeInv /\ Known /\ WorkOfRun /\ RunRevised /\ KnownInContract
      /\ ranTo \in Nat /\ newest \in Nat /\ Late \in Nat /\ FirstDate \in Nat /\ FirstDate > 0
      /\ store \in [Day -> Partition]
      /\ MartHasRows /\ BeforeTheLoad /\ OnlyLostDaysAreMissed /\ SettledSoFar /\ PublishedSoFar
  BY DaysOfState DEF KnownOfContract, Revised, AllSettled
<1>2. source' = source
  BY <1>1, DagStepIsStep
  DEF Next, Work, vars, warehouse, Start, BuildStaging, BuildPartials, BuildState, WatermarkTest,
      BuildMart, MartTest, Abort
<1>3. SUFFICES ASSUME NEW d \in Day, d <= newest', ~Open(d)'
               PROVE  /\ mart'[d] # EmptyPartition => mart'[d] = FlatPass(source, d, DueBy(d)')
                      /\ store'[d] # EmptyPartition => store'[d] = FlatPass(source, d, DueBy(d)')
  BY <1>2 DEF SettledSoFar, Open, Owed, DueBy, FlatPass, InWindow
<1>4. d \in Nat /\ d > 0
  BY DaysOfState
<1>5. Open(d)' <=> DueBy(d)' \in lost' \/ (run' # NoRun /\ ~run'.manual /\ DueBy(d)' = run'.date)
  BY DEF Open, Active, DueBy
<1>6. DueBy(d)' = IF d + Late < newest' THEN d + Late ELSE newest'
  BY DEF DueBy
\* Unless the newest date moves or a run of it ends well, what is not open has not been.
<1>7. ASSUME d <= newest, ~Open(d), newest' = newest
      PROVE  /\ mart'[d] # EmptyPartition => mart'[d] = FlatPass(source, d, DueBy(d)')
             /\ store'[d] # EmptyPartition => store'[d] = FlatPass(source, d, DueBy(d)')
  <2>1. DueBy(d)' = DueBy(d) /\ Contract!Horizon(d) = DueBy(d)
    BY <1>1, <1>7, HorizonIsDue DEF DueBy
  <2>2. /\ mart[d] # EmptyPartition => mart[d] = FlatPass(source, d, DueBy(d))
        /\ store[d] # EmptyPartition => store[d] = FlatPass(source, d, DueBy(d))
    BY <1>1, <1>7 DEF SettledSoFar, Owed
  <2>3. mart'[d] # EmptyPartition => mart'[d] = FlatPass(source, d, DueBy(d)')
    BY <2>1, <2>2, MartChanges
  <2>4. store'[d] = store[d] \/ store'[d] = mart[d]
    <3>1. CASE Publish
      BY <1>1, <3>1 DEF Publish
    <3>2. CASE ~Publish
      BY <3>2 DEF DagNext, Progress, allVars, dagVars, Schedule, Rerun, InitialLoad, RunDbt, Resolve,
                  Refresh, DbtStep, EndOfDates, Fault
    <3> QED BY <3>1, <3>2
  <2> QED BY <2>1, <2>2, <2>3, <2>4
<1>8. CASE RunBegins
  <2>1. CASE newest' = newest
    <3>1. ~Open(d)
      BY <1>1, <1>3, <1>5, <1>6, <1>8, <2>1 DEF RunBegins, Open, DueBy
    <3> QED BY <1>3, <1>7, <2>1, <3>1
  <2>2. CASE newest' # newest
    <3>1. ~run'.manual /\ run'.date = newest' /\ newest' = newest + 1 /\ ~Active
      BY <1>8, <2>2 DEF RunBegins
    <3>2. d + Late < newest'
      BY <1>1, <1>3, <1>5, <1>6, <1>8, <3>1 DEF RunBegins
    <3>3. d <= newest /\ DueBy(d)' = d + Late /\ DueBy(d) = d + Late
      BY <1>1, <1>4, <1>6, <3>1, <3>2 DEF DueBy
    <3>4. ~Open(d)
      BY <1>3, <1>5, <1>8, <3>1, <3>3 DEF RunBegins, Open
    <3>5. mart'[d] = mart[d] /\ store'[d] = store[d]
      BY <1>8 DEF RunBegins
    <3> QED BY <1>1, <3>3, <3>4, <3>5 DEF SettledSoFar, Owed
  <2> QED BY <2>1, <2>2
<1>9. CASE RunGoesOn
  <2>1. ~Open(d)
    BY <1>3, <1>5, <1>6, <1>9 DEF RunGoesOn, Open, DueBy, Active
  <2> QED BY <1>3, <1>7, <1>9, <2>1 DEF RunGoesOn
<1>10. CASE RunEndsBadly
  <2>1. newest' = newest /\ DueBy(d)' = DueBy(d)
    BY <1>6, <1>10 DEF RunEndsBadly, DueBy
  <2>2. ~Open(d)
    BY <1>3, <1>5, <1>10, <2>1 DEF RunEndsBadly, RunFails, Open
  <2> QED BY <1>3, <1>7, <2>1, <2>2
<1>11. CASE RunEndsWell
  <2>1. newest' = newest /\ DueBy(d)' = DueBy(d) /\ d <= newest
    BY <1>3, <1>6, <1>11 DEF RunEndsWell, DueBy
  <2>2. CASE ~Open(d)
    BY <1>7, <2>1, <2>2
  <2>3. CASE Open(d)
    <3>1. Active /\ run.date = newest /\ DueBy(d) = newest /\ run.date \in Nat
      BY <1>1, <1>3, <1>5, <1>11, <2>1, <2>3, DaysOfState DEF RunEndsWell, Open
    <3>2. run.at > 1 /\ Task = "publish_offline_store"
      BY <1>1, <1>11, <3>1, RunType, ChainOrder DEF RunEndsWell, Task
    <3>3. ranTo = newest
      BY <1>1, <3>1, <3>2, DaysOfState DEF WorkOfRun, LayerOfRun
    <3>4. newest - Late <= d
      BY <1>1, <1>4, <3>1 DEF DueBy
    <3>5. \A x \in Entity : stateAsOf[x] <= d
      BY <1>1, <1>4, <3>3, <3>4, DaysOfState DEF WorkOfRun, SealedWithinLayer, None
    <3>6. Revisable(d)
      BY <2>1, <3>1, <3>4, <3>5 DEF Revisable
    <3>7. Contract!Horizon(d) = newest
      BY <1>1, <1>4, <3>3, <3>4 DEF Contract!Horizon
    <3>8. mart[d] # EmptyPartition => mart[d] = FlatPass(source, d, newest)
      BY <1>1, <3>1, <3>2, <3>6, <3>7 DEF RunRevised, Exact, MartHasRows
    <3>9. store[d] = FlatPass(source, d, newest)
      BY <1>1, <1>11, <3>1, <3>2, <3>6, <3>7 DEF PublishedSoFar, RunEndsWell
    <3> QED BY <1>11, <2>1, <3>1, <3>8, <3>9 DEF RunEndsWell
  <2> QED BY <2>2, <2>3
<1>12. CASE LoadEnds
  <2>1. newest = None /\ newest' = FirstDate /\ store' = store
    BY <1>12 DEF LoadEnds
  <2>2. store'[d] = EmptyPartition
    BY <1>1, <2>1 DEF BeforeTheLoad
  <2>3. mart'[d] # EmptyPartition => d = FirstDate /\ mart'[d] = FlatPass(source, d, FirstDate)
    <3>1. CASE mart'[d] = mart[d]
      BY <1>1, <2>1, <3>1 DEF BeforeTheLoad
    <3>2. CASE mart'[d] # mart[d]
      <4>1. /\ BuildMart /\ d = job.target /\ ranTo' = ranTo
            /\ mart'[d] = FlatPass(source, d, Contract!Horizon(d))
        BY <3>2, MartChanges
      <4>2. job # Idle
        BY <1>1, <4>1, JobMoves DEF Work
      <4>3. d = FirstDate /\ ranTo = FirstDate
        BY <1>1, <1>12, <4>1, <4>2 DEF LoadEnds, WorkOfRun, JobOfRun
      <4>4. Contract!Horizon(d) = FirstDate
        BY <1>1, <4>3 DEF Contract!Horizon
      <4> QED BY <4>1, <4>3, <4>4
    <3> QED BY <3>1, <3>2
  <2>4. d = FirstDate => DueBy(d)' = FirstDate
    BY <1>1, <1>6, <2>1
  <2> QED BY <2>2, <2>3, <2>4
<1> QED BY <1>8, <1>9, <1>10, <1>11, <1>12, StepOfRun

\* Between two runs every partition of the warehouse and of object storage is what the verifier
\* makes of the source, unless the run that was due to revise it was lost, whatever else was
\* lost, failed or repeated meanwhile.  No day is skipped: the DAG does not make up for that.
THEOREM PartitionsSettle ==
    ASSUME FullLoad, InContract, WindowSpine, NoGap
    PROVE  DagSpec => []SettlesExactly
<1>1. DagInit => AllSettled
  <2>1. ASSUME DagInit PROVE MartHasRows /\ BeforeTheLoad
    BY <2>1 DEF DagInit, Init, MartHasRows, BeforeTheLoad
  <2>2. ASSUME DagInit PROVE OnlyLostDaysAreMissed /\ SettledSoFar /\ PublishedSoFar
    BY <2>2, DayAssumption
    DEF DagInit, OnlyLostDaysAreMissed, SettledSoFar, PublishedSoFar, Active, Day, None
  <2> QED BY <2>1, <2>2 DEF AllSettled
<1>2. KnownOfContract /\ AllSettled /\ [DagNext]_allVars => AllSettled'
  BY NextMartHasRows, NextBeforeTheLoad, NextOnlyLostDaysAreMissed, NextSettledSoFar,
     NextPublishedSoFar DEF AllSettled
<1>3. AllSettled => SettlesExactly
  BY DEF AllSettled, SettledSoFar, SettlesExactly, Open, Owed, DueBy, BruteForce
<1> QED BY <1>1, <1>2, <1>3, DagKnownOfContract, PTL DEF DagSpec

=============================================================================
