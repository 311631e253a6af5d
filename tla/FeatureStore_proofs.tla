------------------------ MODULE FeatureStore_proofs ------------------------
(***************************************************************************)
(* Theorems about FeatureStore, for every source, lateness, window, spine, *)
(* adapter and order of runs.                                              *)
(***************************************************************************)
EXTENDS FeatureStore, SequenceTheorems, TLAPS

\* Every plan is a non-empty list of nodes.
LEMMA PlanType == \A kind \in Kind : Plan[kind] \in Seq(Node) \ {<< >>}
<1> SUFFICES ASSUME NEW kind \in Kind PROVE Plan[kind] \in Seq(Node) \ {<< >>}
  OBVIOUS
<1>1. CASE kind = "run"            BY <1>1 DEF Plan, Node
<1>2. CASE kind = "backfill"       BY <1>2 DEF Plan, Node
<1>3. CASE kind = "build"          BY <1>3 DEF Plan, Node
<1>4. CASE kind = "build_partials" BY <1>4 DEF Plan, Node
<1>5. CASE kind = "fold_state"     BY <1>5 DEF Plan, Node
<1>6. CASE kind = "reset_state"    BY <1>6 DEF Plan, Node
<1>7. CASE kind = "partials_only"  BY <1>7 DEF Plan, Node
<1> QED BY <1>1, <1>2, <1>3, <1>4, <1>5, <1>6, <1>7 DEF Kind

\* Candidate events have an entity and dates after None.
LEMMA EventType ==
    \A e \in Event : /\ e.ent \in Entity
                     /\ e.day \in Nat /\ e.day > 0
                     /\ e.arr \in Nat /\ e.arr > 0
                     /\ e.end \in Nat
BY EventAssumption DEF EventShape

\* Going on with an invocation that is at a node leaves a well-formed invocation in flight,
\* or none, and remembers only one that is over.
LEMMA AdvanceType ==
    ASSUME TypeOK, NEW node, At(node), Advance
    PROVE  job' \in Job \cup {Idle} /\ done' \in Over \cup {Idle}
<1>1. job \in Job
  BY DEF TypeOK, At, Idle
<1>2. /\ job.kind \in Kind /\ job.target \in Day /\ job.from \in Day \cup {None}
      /\ job.todo \in Seq(Node) /\ job.todo # << >>
  BY <1>1 DEF Job, Invocations
<1>3. Tail(job.todo) \in Seq(Node)
  BY <1>2
<1>4. CASE Tail(job.todo) = << >>
  <2>1. job' = Idle /\ done' = (IF Stored = {} THEN Idle ELSE [job EXCEPT !.todo = << >>])
    BY <1>4 DEF Advance
  <2>2. [job EXCEPT !.todo = << >>] \in Over
    BY <1>1 DEF Job, Over, Invocations
  <2> QED BY <2>1, <2>2
<1>5. CASE Tail(job.todo) # << >>
  <2>1. job' = [job EXCEPT !.todo = Tail(@)] /\ done' = done
    BY <1>5 DEF Advance
  <2>2. [job EXCEPT !.todo = Tail(@)] \in Job
    BY <1>1, <1>3, <1>5 DEF Job, Invocations
  <2> QED BY <2>1, <2>2 DEF TypeOK
<1> QED BY <1>4, <1>5

\* The partition the mart model produces is one.
LEMMA PartitionType ==
    ASSUME TypeOK, NEW T \in Day
    PROVE  Published(T) \in Partition
<1>1. SpineOf(T) \in SUBSET Entity
  BY EventType DEF SpineOf, Rollup, Stored
<1>2. Rollup(T) \in SUBSET Event
  BY DEF Rollup, Stored
<1>3. PartitionFor(T) \in Partition
  BY <1>1, <1>2 DEF PartitionFor, Partition, TypeOK
<1> QED BY <1>3 DEF Published, TypeOK

LEMMA InitType == Init => TypeOK
<1> SUFFICES ASSUME Init PROVE TypeOK
  OBVIOUS
<1>1. source \in SUBSET Event
  BY EventAssumption DEF Init
<1>2. computedFor \in [Event -> Day \cup {None}] /\ sealed \in [Event -> Nat]
  BY DEF Init, NoEvents, None
<1>3. EmptyPartition \in Partition
  BY DEF EmptyPartition, Partition, NoEvents
<1>4. mart \in [Day -> Partition]
  BY <1>3 DEF Init
<1>5. stateAsOf \in [Entity -> Day \cup {None}]
  BY DEF Init
<1>6. stagedFor \in Day \cup {None} /\ ranTo \in Day \cup {None} /\ floor \in Int
  BY DEF Init
<1>7. job \in Job \cup {Idle} /\ done \in Over \cup {Idle}
  BY DEF Init
<1>8. partialsExist \in BOOLEAN
  BY DEF Init
<1> QED BY <1>1, <1>2, <1>4, <1>5, <1>6, <1>7, <1>8 DEF TypeOK

LEMMA NextType == TypeOK /\ [Next]_vars => TypeOK'
<1> SUFFICES ASSUME TypeOK, [Next]_vars PROVE TypeOK'
  OBVIOUS
<1> USE DEF TypeOK
<1>1. ASSUME NEW kind \in Kinds, NEW T \in Day, NEW from \in Froms(kind), Start(kind, T, from)
      PROVE  TypeOK'
  <2>1. kind \in Kind /\ from \in Day \cup {None}
    BY ModeAssumption, DayAssumption DEF Froms
  <2>2. job' \in Job
    BY <1>1, <2>1, PlanType DEF Start, Job, Invocations
  <2>3. done' \in Over \cup {Idle}
    BY <1>1 DEF Start
  <2> QED BY <1>1, <2>2, <2>3 DEF Start, warehouse
<1>2. CASE BuildStaging
  <2>1. job' \in Job \cup {Idle} /\ done' \in Over \cup {Idle}
    BY <1>2, AdvanceType DEF BuildStaging
  <2>2. job.target \in Day
    BY <1>2 DEF BuildStaging, At, Idle, Job, Invocations
  <2> QED BY <1>2, <2>1, <2>2 DEF BuildStaging
<1>3. CASE BuildPartials
  <2>1. job' \in Job \cup {Idle} /\ done' \in Over \cup {Idle}
    BY <1>3, AdvanceType DEF BuildPartials
  <2>2. job.target \in Day /\ job.from \in Day \cup {None}
    BY <1>3 DEF BuildPartials, At, Idle, Job, Invocations
  <2>3. computedFor' \in [Event -> Day \cup {None}]
    BY <1>3, <2>2 DEF BuildPartials
  <2>4. floor' \in Int /\ ranTo' \in Day \cup {None}
    <3>1. CoveredFrom(job.target, job.from) \in Int
      BY <2>2, DayAssumption DEF CoveredFrom, Day, None
    <3>2. floor' \in Int
      BY <1>3, <3>1 DEF BuildPartials
    <3>3. ranTo' \in Day \cup {None}
      BY <1>3, <2>2 DEF BuildPartials
    <3> QED BY <3>2, <3>3
  <2> QED BY <1>3, <2>1, <2>3, <2>4 DEF BuildPartials
<1>4. CASE BuildState
  <2>1. job' \in Job \cup {Idle} /\ done' \in Over \cup {Idle}
    BY <1>4, AdvanceType DEF BuildState
  <2>2. job.target \in Day
    BY <1>4 DEF BuildState, At, Idle, Job, Invocations
  <2>3. ASSUME NEW e \in SealRange(job.target, job.kind) PROVE job.target - Late \in Day
    BY <2>2, EventType, DayAssumption DEF SealRange, Stored, Day
  <2>4. stateAsOf' \in [Entity -> Day \cup {None}]
    BY <1>4, <2>3 DEF BuildState
  <2>5. sealed' \in [Event -> Nat]
    BY <1>4 DEF BuildState
  <2> QED BY <1>4, <2>1, <2>4, <2>5 DEF BuildState
<1>5. CASE WatermarkTest
  <2>1. job' \in Job \cup {Idle} /\ done' \in Over \cup {Idle}
    BY <1>5, AdvanceType DEF WatermarkTest
  <2> QED BY <1>5, <2>1 DEF WatermarkTest, warehouse
<1>6. CASE BuildMart
  <2>1. job' \in Job \cup {Idle} /\ done' \in Over \cup {Idle}
    BY <1>6, AdvanceType DEF BuildMart
  <2>2. job.target \in Day
    BY <1>6 DEF BuildMart, At, Idle, Job, Invocations
  <2>3. mart' \in [Day -> Partition]
    BY <1>6, <2>2, PartitionType DEF BuildMart
  <2> QED BY <1>6, <2>1, <2>3 DEF BuildMart
<1>7. CASE MartTest
  <2>1. job' \in Job \cup {Idle} /\ done' \in Over \cup {Idle}
    BY <1>7, AdvanceType DEF MartTest
  <2> QED BY <1>7, <2>1 DEF MartTest, warehouse
<1>8. CASE Abort
  BY <1>8 DEF Abort, warehouse
<1>9. CASE UNCHANGED vars
  BY <1>9 DEF vars, warehouse
<1> QED
  BY <1>1, <1>2, <1>3, <1>4, <1>5, <1>6, <1>7, <1>8, <1>9 DEF Next, Work

\* Whatever is run in whatever order, every table keeps its shape: in particular the date
\* an accumulator row is stamped with is a day of the calendar, and an invocation with no
\* node left is never in flight.
THEOREM TypeCorrect == Spec => []TypeOK
<1> QED BY InitType, NextType, PTL DEF Spec

-----------------------------------------------------------------------------
(***************************************************************************)
(* The accumulator.                                                        *)
(***************************************************************************)

\* A build of the accumulator other than a reset never moves a row's watermark back.
LEMMA WatermarkOnlyAdvances ==
    ASSUME TypeOK, BuildState, job.kind # "reset_state", NEW x \in Entity
    PROVE  stateAsOf[x] <= stateAsOf'[x]
<1>1. job.target \in Nat /\ job.target - Late \in Int
  BY DayAssumption DEF TypeOK, BuildState, At, Idle, Job, Invocations, Day
<1>2. stateAsOf[x] \in Nat
  BY DayAssumption DEF TypeOK, Day, None
<1>3. CASE \E e \in SealRange(job.target, job.kind) : e.ent = x
  <2>1. PICK e \in SealRange(job.target, job.kind) : e.ent = x
    BY <1>3
  <2>2. e.day > stateAsOf[x] /\ e.day <= job.target - Late /\ e.day \in Nat
    BY <2>1, EventType DEF SealRange, FoldsFrom, PastWatermark, Stored
  <2>3. stateAsOf'[x] = job.target - Late
    BY <1>3 DEF BuildState
  <2> QED BY <1>1, <1>2, <2>2, <2>3
<1>4. CASE ~ \E e \in SealRange(job.target, job.kind) : e.ent = x
  <2>1. stateAsOf'[x] = stateAsOf[x]
    BY <1>4 DEF BuildState
  <2> QED BY <1>2, <2>1
<1> QED BY <1>3, <1>4

\* A build of the accumulator keeps every event it holds held once and behind the watermark:
\* what it folds in was past the watermark, so not held, and the stamp covers it.
LEMMA BuildStateSealsOnce ==
    ASSUME TypeOK, SealedOnce, BuildState
    PROVE  SealedOnce'
<1>1. job.target \in Nat /\ job.target - Late \in Int
  BY DayAssumption DEF TypeOK, BuildState, At, Idle, Job, Invocations, Day
<1> SUFFICES ASSUME NEW e \in Event, sealed'[e] > 0
             PROVE  sealed'[e] = 1 /\ ~PastWatermark(e.day)'
  BY DEF SealedOnce
<1> DEFINE range == SealRange(job.target, job.kind)
<1>2. e.ent \in Entity /\ e.day \in Nat
  BY EventType
<1>3. CASE e \in range
  <2>1. e.day <= job.target - Late /\ FoldsFrom(e.day, job.kind)
    BY <1>3 DEF SealRange
  <2>2. job.kind # "reset_state" => sealed[e] = 0
    BY <2>1 DEF FoldsFrom, SealedOnce, TypeOK
  <2>3. sealed'[e] = 1
    BY <1>3, <2>2 DEF BuildState
  <2>4. stateAsOf'[e.ent] = job.target - Late
    BY <1>2, <1>3 DEF BuildState
  <2> QED BY <1>1, <1>2, <2>1, <2>3, <2>4 DEF PastWatermark
<1>4. CASE e \notin range
  <2>1. job.kind # "reset_state" /\ sealed'[e] = sealed[e]
    BY <1>4 DEF BuildState, TypeOK
  <2>2. sealed[e] = 1 /\ ~PastWatermark(e.day)
    BY <2>1 DEF SealedOnce
  <2>3. PICK x \in Entity : ~(e.day > stateAsOf[x])
    BY <2>2 DEF PastWatermark
  <2>4. stateAsOf[x] <= stateAsOf'[x]
    BY <2>1, WatermarkOnlyAdvances
  <2>5. stateAsOf[x] \in Nat /\ stateAsOf'[x] \in Int
    BY <1>1, DayAssumption DEF TypeOK, Day, None, BuildState
  <2>6. ~(e.day > stateAsOf'[x])
    BY <1>2, <2>3, <2>4, <2>5
  <2> QED BY <2>1, <2>2, <2>6 DEF PastWatermark
<1> QED BY <1>3, <1>4

LEMMA NextSealsOnce == TypeOK /\ SealedOnce /\ [Next]_vars => SealedOnce'
<1> SUFFICES ASSUME TypeOK, SealedOnce, [Next]_vars PROVE SealedOnce'
  OBVIOUS
<1>1. CASE BuildState
  BY <1>1, BuildStateSealsOnce
<1>2. CASE UNCHANGED <<sealed, stateAsOf>>
  BY <1>2 DEF SealedOnce, PastWatermark
<1>3. BuildState \/ UNCHANGED <<sealed, stateAsOf>>
  BY DEF Next, Work, vars, warehouse, Start, BuildStaging, BuildPartials, WatermarkTest,
         BuildMart, MartTest, Abort
<1> QED BY <1>1, <1>2, <1>3

\* No event is folded into the accumulator twice, and the watermark covers all it holds,
\* in any order of runs, retries, replays and resets, each of them cut short anywhere.
THEOREM AccumulatorSealsOnce == Spec => []SealedOnce
<1>1. Init => SealedOnce
  BY DEF Init, SealedOnce, NoEvents
<1> QED BY <1>1, NextSealsOnce, TypeCorrect, PTL DEF Spec

LEMMA NextCountsOnce == TypeOK /\ SealedOnce /\ NoDoubleCount /\ [Next]_vars => NoDoubleCount'
<1> SUFFICES ASSUME TypeOK, SealedOnce, NoDoubleCount, [Next]_vars PROVE NoDoubleCount'
  OBVIOUS
<1>1. CASE BuildMart
  <2>1. job.target \in Day
    BY <1>1 DEF TypeOK, BuildMart, At, Idle, Job, Invocations
  <2>2. ASSUME NEW e \in Event PROVE PartitionFor(job.target).allTime[e] <= 1
    <3>1. sealed[e] \in Nat /\ (sealed[e] > 0 => sealed[e] = 1 /\ ~PastWatermark(e.day))
      BY DEF SealedOnce, TypeOK
    <3>2. e \in UnsealedTail(job.target) => PastWatermark(e.day)
      BY DEF UnsealedTail
    <3> QED BY <3>1, <3>2 DEF PartitionFor
  <2> QED BY <1>1, <2>1, <2>2 DEF NoDoubleCount, BuildMart, Published, TypeOK
<1>2. CASE UNCHANGED mart
  BY <1>2 DEF NoDoubleCount
<1>3. BuildMart \/ UNCHANGED mart
  BY DEF Next, Work, vars, warehouse, Start, BuildStaging, BuildPartials, BuildState,
         WatermarkTest, MartTest, Abort
<1> QED BY <1>1, <1>2, <1>3

\* No published all_time value counts an event twice, whatever the order of runs: the tail
\* is what the accumulator does not hold.
THEOREM MartCountsOnce == Spec => []NoDoubleCount
<1>1. Init => NoDoubleCount
  BY DEF Init, NoDoubleCount, EmptyPartition, NoEvents
<1> QED BY <1>1, NextCountsOnce, TypeCorrect, AccumulatorSealsOnce, PTL DEF Spec

-----------------------------------------------------------------------------
(***************************************************************************)
(* The watermark test stands between the accumulator and the mart.         *)
(***************************************************************************)

\* What an invocation of `dbt build` may have left to do; once all that is left is the mart
\* and its tests, the watermark test has passed and nothing has moved the watermark since.
BuildIsTested ==
    job.kind = "build" =>
        \/ job.todo \in {Plan["build"],
                         <<"partials", "state", "watermark_test", "mart", "mart_test">>,
                         <<"state", "watermark_test", "mart", "mart_test">>,
                         <<"watermark_test", "mart", "mart_test">>,
                         <<"mart_test">>}
        \/ job.todo = <<"mart", "mart_test">> /\ ~WatermarkAhead(job.target)

\* The nodes of `dbt build` come one after the other.
LEMMA BuildOrder ==
    /\ Head(Plan["build"]) = "staging"
    /\ Tail(Plan["build"]) = <<"partials", "state", "watermark_test", "mart", "mart_test">>
    /\ Tail(<<"partials", "state", "watermark_test", "mart", "mart_test">>)
           = <<"state", "watermark_test", "mart", "mart_test">>
    /\ Tail(<<"state", "watermark_test", "mart", "mart_test">>)
           = <<"watermark_test", "mart", "mart_test">>
    /\ Tail(<<"watermark_test", "mart", "mart_test">>) = <<"mart", "mart_test">>
    /\ Tail(<<"mart", "mart_test">>) = <<"mart_test">>
    /\ Tail(<<"mart_test">>) = << >>
BY DEF Plan

\* A node of `dbt build` that succeeds leaves the rest of the plan, unless nothing is left.
LEMMA AdvanceBuild ==
    ASSUME TypeOK, NEW node, At(node), Advance, job'.kind = "build"
    PROVE  /\ job.kind = "build" /\ Tail(job.todo) # << >>
           /\ job'.todo = Tail(job.todo) /\ job'.target = job.target
<1>1. job \in Job
  BY DEF TypeOK, At, Idle
<1>2. job' # Idle
  BY DEF Idle
<1>3. job' = [job EXCEPT !.todo = Tail(@)] /\ Tail(job.todo) # << >>
  BY <1>2 DEF Advance
<1> QED BY <1>1, <1>3 DEF Job, Invocations

LEMMA NextIsTested == TypeOK /\ BuildIsTested /\ [Next]_vars => BuildIsTested'
<1> SUFFICES ASSUME TypeOK, BuildIsTested, [Next]_vars, job'.kind = "build"
             PROVE  BuildIsTested'
  BY DEF BuildIsTested
<1>1. ASSUME NEW kind \in Kinds, NEW T \in Day, NEW from \in Froms(kind), Start(kind, T, from)
      PROVE  BuildIsTested'
  <2>1. job' = [kind |-> kind, target |-> T, from |-> from, todo |-> Plan[kind]]
    BY <1>1 DEF Start
  <2>2. kind = "build" /\ job'.todo = Plan["build"]
    BY <2>1
  <2>3. Plan' = Plan
    BY DEF Plan
  <2> QED BY <2>2, <2>3 DEF BuildIsTested
<1>2. ASSUME NEW node \in Node \ {"watermark_test"}, At(node), Advance
      PROVE  BuildIsTested'
  <2>1. /\ job.kind = "build" /\ Tail(job.todo) # << >> /\ job'.todo = Tail(job.todo)
        /\ Head(job.todo) # "watermark_test"
    BY <1>2, AdvanceBuild DEF At
  <2>2. job.todo # <<"watermark_test", "mart", "mart_test">>
    BY <2>1
  <2>3. job'.todo \in {<<"partials", "state", "watermark_test", "mart", "mart_test">>,
                       <<"state", "watermark_test", "mart", "mart_test">>,
                       <<"watermark_test", "mart", "mart_test">>,
                       <<"mart_test">>}
    BY <2>1, <2>2, BuildOrder DEF BuildIsTested
  <2> QED BY <2>3 DEF BuildIsTested
<1>3. CASE WatermarkTest
  <2>1. job' # Idle
    BY DEF Idle
  <2>2. Advance /\ ~TestFails /\ At("watermark_test") /\ stateAsOf' = stateAsOf
    BY <1>3, <2>1 DEF WatermarkTest, warehouse
  <2>3. /\ job.kind = "build" /\ Head(job.todo) = "watermark_test"
        /\ job'.todo = Tail(job.todo) /\ job'.target = job.target
    BY <2>2, AdvanceBuild DEF At
  <2>4. job.todo = <<"watermark_test", "mart", "mart_test">>
    BY <2>3, BuildOrder DEF BuildIsTested
  <2>5. job'.todo = <<"mart", "mart_test">>
    BY <2>3, <2>4, BuildOrder
  <2>6. ~WatermarkAhead(job.target)
    BY <2>2 DEF TestFails
  <2>7. ~WatermarkAhead(job.target)'
    BY <2>2, <2>3, <2>6 DEF WatermarkAhead
  <2> QED BY <2>5, <2>7 DEF BuildIsTested
<1>4. CASE Abort
  BY <1>4 DEF Abort, Idle
<1>5. CASE UNCHANGED vars
  BY <1>5 DEF vars, warehouse, BuildIsTested, WatermarkAhead, Plan
<1>6. CASE MartTest
  <2>1. job' # Idle
    BY DEF Idle
  <2>2. Advance /\ At("mart_test")
    BY <1>6, <2>1 DEF MartTest
  <2> QED BY <1>2, <2>2 DEF Node
<1>7. CASE BuildStaging
  BY <1>2, <1>7 DEF BuildStaging, Node
<1>8. CASE BuildPartials
  BY <1>2, <1>8 DEF BuildPartials, Node
<1>9. CASE BuildState
  BY <1>2, <1>9 DEF BuildState, Node
<1>10. CASE BuildMart
  BY <1>2, <1>10 DEF BuildMart, Node
<1> QED
  BY <1>1, <1>3, <1>4, <1>5, <1>6, <1>7, <1>8, <1>9, <1>10 DEF Next, Work

\* An accumulator that is not ahead of T, and the tail and the window of T, hold no event
\* after T.
LEMMA NotAheadNoFuture ==
    ASSUME TypeOK, SealedOnce, NEW T \in Day, ~WatermarkAhead(T)
    PROVE  HoldsNoFuture(PartitionFor(T), T)
<1> SUFFICES ASSUME NEW e \in Event,
                    e \in PartitionFor(T).window \/ PartitionFor(T).allTime[e] > 0
             PROVE  e.day <= T
  BY DEF HoldsNoFuture
<1>1. e.day \in Nat /\ T \in Nat
  BY EventType DEF Day
<1>2. CASE e \in Rollup(T)
  BY <1>1, <1>2, DayAssumption DEF Rollup, InWindow
<1>3. CASE e \in UnsealedTail(T)
  BY <1>3 DEF UnsealedTail
<1>4. CASE sealed[e] > 0
  <2>1. PICK x \in Entity : ~(e.day > stateAsOf[x])
    BY <1>4 DEF SealedOnce, PastWatermark
  <2>2. ~(stateAsOf[x] > T) /\ stateAsOf[x] \in Nat
    BY DayAssumption DEF WatermarkAhead, TypeOK, Day, None
  <2> QED BY <1>1, <2>1, <2>2
<1>5. sealed[e] \in Nat
  BY DEF TypeOK
<1> QED BY <1>2, <1>3, <1>4, <1>5 DEF PartitionFor

LEMMA BuildMartLeaksNothing ==
    TypeOK /\ SealedOnce /\ BuildIsTested /\ [Next]_vars =>
        \A d \in Day : (job.kind = "build" /\ mart'[d] # mart[d]) => HoldsNoFuture(mart'[d], d)
<1> SUFFICES ASSUME TypeOK, SealedOnce, BuildIsTested, [Next]_vars,
                    NEW d \in Day, job.kind = "build", mart'[d] # mart[d]
             PROVE  HoldsNoFuture(mart'[d], d)
  OBVIOUS
<1>1. BuildMart
  BY DEF Next, Work, vars, warehouse, Start, BuildStaging, BuildPartials, BuildState,
         WatermarkTest, MartTest, Abort
<1>2. job.target = d /\ mart'[d] = PartitionFor(d)
  BY <1>1 DEF BuildMart, Published, TypeOK
<1>3. ~WatermarkAhead(d)
  BY <1>1, <1>2, BuildOrder DEF BuildMart, At, BuildIsTested
<1> QED BY <1>2, <1>3, NotAheadNoFuture

\* `dbt build` never publishes the future, in any order of runs: whenever it changes a
\* partition, the watermark test has passed for that date and the watermark is where it was.
THEOREM BuildPublishesNoFuture == Spec => BuildNeverLeaks
<1>1. Init => BuildIsTested
  BY DEF Init, BuildIsTested, Idle
<1> QED
  BY <1>1, NextIsTested, BuildMartLeaksNothing, TypeCorrect, AccumulatorSealsOnce, PTL
  DEF Spec, BuildNeverLeaks

-----------------------------------------------------------------------------
(***************************************************************************)
(* Retries.  A retry of the invocation that succeeded last changes         *)
(* nothing, whatever ran before it: every node is idempotent for one as-of *)
(* date, and no node downstream of it disturbs what it has settled.        *)
(***************************************************************************)

\* The events for which a build of the partial model for T would produce a row.
Fresh(T, from) == {e \in Event : Visible(e, stagedFor) /\ Recomputes(e.day, T, from)}

\* Building `node` again, in an invocation of this kind, would leave its table as it is.
\* (While the partial table is empty, a second build selects more days than the first did.)
Settled(node, kind, T, from) ==
    /\ node = "staging" => stagedFor = T
    /\ node = "partials" =>
           /\ partialsExist
           /\ Stored # {} =>
                  \A e \in Event :
                      /\ e \in Fresh(T, from) => computedFor[e] = T
                      /\ e \notin Fresh(T, from) /\ Replaces(Fresh(T, from), e) => computedFor[e] = None
    /\ node = "state" =>
           IF kind = "reset_state"
             THEN /\ \A e \in Event : sealed[e] = IF e \in SealRange(T, kind) THEN 1 ELSE 0
                  /\ \A x \in Entity :
                         stateAsOf[x] = IF \E e \in SealRange(T, kind) : e.ent = x
                                          THEN T - Late ELSE None
             ELSE SealRange(T, kind) = {}
    /\ node = "mart" => Published(T) = mart[T]

\* Nothing is stored, and no build of the partial model has completed, before its table exists.
EmptyAtFirst == ~partialsExist => Stored = {} /\ ranTo = None

\* Invocation j has the i-th node of its plan and those after it left to do, and nothing that
\* it has built would change if it were built again.
GotTo(i, j) ==
    /\ j.todo = SubSeq(Plan[j.kind], i, Len(Plan[j.kind]))
    /\ \A k \in 1 .. (i - 1) : Settled(Plan[j.kind][k], j.kind, j.target, j.from)

OnPlan == job # Idle => \E i \in 1 .. Len(Plan[job.kind]) : GotTo(i, job)

\* Everything that the invocation remembered as done has built is settled, and all that can be
\* in flight is the same invocation again.
DoneIsSettled ==
    done # Idle =>
        /\ Stored # {}
        /\ \A k \in 1 .. Len(Plan[done.kind]) :
               Settled(Plan[done.kind][k], done.kind, done.target, done.from)
        /\ job # Idle => job.kind = done.kind /\ job.target = done.target /\ job.from = done.from

RetryInv == EmptyAtFirst /\ OnPlan /\ DoneIsSettled

-----------------------------------------------------------------------------
(***************************************************************************)
(* The plans.                                                              *)
(***************************************************************************)

\* In every plan the staging view comes first, the partial layer before the accumulator, and
\* the accumulator before the mart; every plan but partials_only stages for itself.
LEMMA PlanOrder ==
    ASSUME NEW kind \in Kind, NEW i \in 1 .. Len(Plan[kind])
    PROVE  /\ \A k \in 1 .. (i - 1) :
                  /\ Plan[kind][i] # "staging"
                  /\ Plan[kind][i] = "partials" => Plan[kind][k] = "staging"
                  /\ Plan[kind][i] = "state" => Plan[kind][k] \in {"staging", "partials"}
           /\ Plan[kind][i] = "partials" /\ kind # "partials_only" =>
                  i = 2 /\ Plan[kind][1] = "staging"
<1>1. CASE kind = "run"            BY <1>1 DEF Plan
<1>2. CASE kind = "backfill"       BY <1>2 DEF Plan
<1>3. CASE kind = "build"          BY <1>3 DEF Plan
<1>4. CASE kind = "build_partials" BY <1>4 DEF Plan
<1>5. CASE kind = "fold_state"     BY <1>5 DEF Plan
<1>6. CASE kind = "reset_state"    BY <1>6 DEF Plan
<1>7. CASE kind = "partials_only"  BY <1>7 DEF Plan
<1> QED BY <1>1, <1>2, <1>3, <1>4, <1>5, <1>6, <1>7 DEF Kind

\* What is left of a list from its i-th element on.
LEMMA RestOfPlan ==
    ASSUME NEW p \in Seq(Node), NEW i \in 1 .. Len(p)
    PROVE  /\ SubSeq(p, i, Len(p)) # << >>
           /\ Head(SubSeq(p, i, Len(p))) = p[i]
           /\ Tail(SubSeq(p, i, Len(p))) = SubSeq(p, i + 1, Len(p))
           /\ Tail(SubSeq(p, i, Len(p))) = << >> <=> i = Len(p)
<1>1. Len(SubSeq(p, i, Len(p))) = Len(p) - i + 1
  BY SubSeqProperties
<1>2. /\ Head(SubSeq(p, i, Len(p))) = p[i]
      /\ Tail(SubSeq(p, i, Len(p))) = SubSeq(p, i + 1, Len(p))
  BY HeadTailOfSubSeq
<1>3. i = Len(p) => SubSeq(p, i + 1, Len(p)) = << >>
  BY SubSeqEmpty
<1>4. i # Len(p) => Len(SubSeq(p, i + 1, Len(p))) = Len(p) - i /\ Len(p) - i > 0
  BY SubSeqProperties
<1>5. SubSeq(p, i, Len(p)) # << >>
  <2>1. Len(SubSeq(p, i, Len(p))) > 0 /\ Len(<< >>) = 0
    BY <1>1
  <2> QED BY <2>1
<1>6. Tail(SubSeq(p, i, Len(p))) = << >> <=> i = Len(p)
  BY <1>2, <1>3, <1>4
<1> QED BY <1>2, <1>5, <1>6

\* The shape of the invocation in flight.
LEMMA JobType ==
    ASSUME TypeOK, job # Idle
    PROVE  /\ job \in Job /\ job.kind \in Kind /\ job.target \in Day /\ job.from \in Day \cup {None}
           /\ job.target \in Nat /\ job.target > 0
           /\ Plan[job.kind] \in Seq(Node) /\ Plan[job.kind] # << >>
BY PlanType, DayAssumption DEF TypeOK, Job, Invocations, Day

-----------------------------------------------------------------------------
(***************************************************************************)
(* Every node settles its table ...                                        *)
(***************************************************************************)

LEMMA StateSettles ==
    ASSUME TypeOK, BuildState, NEW kind \in Kind, NEW T \in Day, NEW from,
           job.kind = kind, job.target = T
    PROVE  Settled("state", kind, T, from)'
<1>1. T \in Nat /\ T - Late \in Int
  BY DayAssumption DEF Day
<1>2. computedFor' = computedFor /\ Stored' = Stored
  BY DEF BuildState, Stored
<1>3. CASE kind = "reset_state"
  <2>1. SealRange(T, kind)' = SealRange(T, kind)
    BY <1>2, <1>3 DEF SealRange, FoldsFrom
  <2>2. \A e \in Event : sealed'[e] = 0 + (IF e \in SealRange(T, kind) THEN 1 ELSE 0)
    BY <1>3 DEF BuildState
  <2>3. \A x \in Entity : stateAsOf'[x] = IF \E e \in SealRange(T, kind) : e.ent = x
                                            THEN T - Late ELSE None
    BY <1>3 DEF BuildState
  <2> QED BY <1>3, <2>1, <2>2, <2>3 DEF Settled
<1>4. CASE kind # "reset_state"
  <2>1. SUFFICES ASSUME NEW e \in SealRange(T, kind)' PROVE FALSE
    BY <1>4 DEF Settled
  <2>2. e \in Stored /\ e \in Event /\ PastWatermark(e.day)' /\ e.day <= T - Late
    BY <1>2, <1>4, <2>1 DEF SealRange, FoldsFrom, Stored
  <2>3. e.ent \in Entity /\ e.day \in Nat
    BY <2>2, EventType
  <2>4. CASE PastWatermark(e.day)
    <3>1. e \in SealRange(T, kind)
      BY <2>2, <2>4 DEF SealRange, FoldsFrom
    <3>2. stateAsOf'[e.ent] = T - Late
      BY <2>3, <3>1 DEF BuildState
    <3> QED BY <1>1, <2>2, <2>3, <3>2 DEF PastWatermark
  <2>5. CASE ~PastWatermark(e.day)
    <3>1. PICK x \in Entity : ~(e.day > stateAsOf[x])
      BY <2>5 DEF PastWatermark
    <3>2. stateAsOf[x] <= stateAsOf'[x]
      BY <1>4, WatermarkOnlyAdvances
    <3>3. stateAsOf[x] \in Nat /\ stateAsOf'[x] \in Int
      BY <1>1, DayAssumption DEF TypeOK, Day, None, BuildState
    <3>4. e.day > stateAsOf'[x]
      BY <2>2 DEF PastWatermark
    <3> QED BY <2>3, <3>1, <3>2, <3>3, <3>4
  <2> QED BY <2>4, <2>5
<1> QED BY <1>3, <1>4

LEMMA MartSettles ==
    ASSUME TypeOK, BuildMart, NEW kind \in Kind, NEW T \in Day, NEW from,
           job.kind = kind, job.target = T
    PROVE  Settled("mart", kind, T, from)'
<1>1. SpineOf(T)' = SpineOf(T) /\ PartitionFor(T)' = PartitionFor(T)
  BY DEF BuildMart, SpineOf, Rollup, Stored, PartitionFor, UnsealedTail, PastWatermark
<1>2. mart'[T] = Published(T)
  BY DEF BuildMart, TypeOK
<1>3. Published(T)' = mart'[T]
  BY <1>1, <1>2 DEF Published
<1> QED BY <1>3 DEF Settled

\* The rows that one build of the partial model leaves behind.
LEMMA PartialsResult ==
    ASSUME TypeOK, BuildPartials, NEW T \in Day, NEW from, job.target = T, job.from = from
    PROVE  \A e \in Event :
               computedFor'[e] = IF e \in Fresh(T, from) THEN T
                                 ELSE IF Replaces(Fresh(T, from), e) THEN None
                                 ELSE computedFor[e]
BY DEF BuildPartials, Fresh

\* A build that selects no row leaves every row where it was; one that selects some stores them.
LEMMA PartialsStayNonEmpty ==
    ASSUME TypeOK, BuildPartials, Stored # {}
    PROVE  Stored' # {}
<1>1. job # Idle
  BY DEF BuildPartials, At, Idle
<1>2. job.target \in Day /\ job.target > 0
  BY <1>1, JobType
<1>3. CASE Fresh(job.target, job.from) = {}
  <2>1. \A e \in Event : computedFor'[e] = computedFor[e]
    BY <1>2, <1>3, PartialsResult DEF Replaces
  <2> QED BY <2>1 DEF Stored
<1>4. CASE Fresh(job.target, job.from) # {}
  <2>1. PICK f \in Fresh(job.target, job.from) : TRUE
    BY <1>4
  <2>2. f \in Event /\ computedFor'[f] = job.target
    BY <1>2, <2>1, PartialsResult DEF Fresh
  <2> QED BY <1>2, <2>2 DEF Stored, None
<1> QED BY <1>3, <1>4

\* Once it is built, a second build of the partial model selects no day that the first did not.
LEMMA WindowOnlyShrinks ==
    ASSUME TypeOK, EmptyAtFirst, BuildPartials, NEW T \in Day, NEW from \in Day \cup {None},
           job.target = T, job.from = from, Stored' # {},
           NEW d \in Nat, Recomputes(d, T, from)'
    PROVE  Recomputes(d, T, from)
<1>1. partialsExist' = TRUE /\ d <= T /\ T \in Nat /\ T > 0
  BY DayAssumption DEF BuildPartials, Recomputes, Day
<1>2. CASE from # None
  BY <1>2 DEF Recomputes
<1>3. CASE from = None
  <2>1. InRewriteWindow(d, T)' /\ ~AlreadyFresher(d, T)'
    BY <1>1, <1>3 DEF Recomputes
  <2>2. CASE Fresh(T, from) = {}
    <3>1. \A e \in Event : computedFor'[e] = computedFor[e]
      BY <2>2, PartialsResult DEF Replaces
    <3>2. Stored' = Stored
      BY <3>1 DEF Stored
    <3>3. partialsExist
      BY <3>2 DEF EmptyAtFirst
    <3>4. InRewriteWindow(d, T) /\ ~AlreadyFresher(d, T)
      BY <2>1, <3>1, <3>2 DEF InRewriteWindow, AlreadyFresher, Stored
    <3> QED BY <1>1, <1>3, <3>3, <3>4 DEF Recomputes
  <2>3. CASE Fresh(T, from) # {}
    <3>1. PICK f \in Fresh(T, from) : TRUE
      BY <2>3
    <3>2. f \in Event /\ computedFor'[f] = T
      BY <3>1, PartialsResult DEF Fresh
    <3>3. T - d <= Late
      BY <2>1, <3>2 DEF InRewriteWindow
    <3>4. CASE ~partialsExist
      BY <1>1, <1>3, <3>3, <3>4, DayAssumption DEF Recomputes
    <3>5. CASE partialsExist
      <4>1. ASSUME AlreadyFresher(d, T) PROVE FALSE
        <5>1. PICK g \in Stored : g.day = d /\ computedFor[g] > T
          BY <4>1 DEF AlreadyFresher
        <5>2. ~Recomputes(d, T, from)
          BY <1>3, <3>5, <4>1 DEF Recomputes
        <5>3. g \in Event /\ g \notin Fresh(T, from) /\ ~Replaces(Fresh(T, from), g)
          BY <5>1, <5>2 DEF Stored, Fresh, Replaces
        <5>4. computedFor'[g] = computedFor[g]
          BY <5>3, PartialsResult
        <5>5. AlreadyFresher(d, T)'
          BY <5>1, <5>3, <5>4 DEF AlreadyFresher, Stored
        <5> QED BY <2>1, <5>5
      <4> QED BY <1>1, <1>3, <3>3, <3>5, <4>1 DEF Recomputes, InRewriteWindow
    <3> QED BY <3>4, <3>5
  <2> QED BY <2>2, <2>3
<1> QED BY <1>2, <1>3

LEMMA PartialsSettle ==
    ASSUME TypeOK, EmptyAtFirst, BuildPartials, NEW kind \in Kind,
           NEW T \in Day, NEW from \in Day \cup {None}, job.target = T, job.from = from
    PROVE  Settled("partials", kind, T, from)'
<1>1. partialsExist' = TRUE /\ source' = source /\ stagedFor' = stagedFor
  BY DEF BuildPartials
<1> SUFFICES ASSUME (Stored # {})', NEW e \in Event
             PROVE  /\ e \in Fresh(T, from)' => computedFor'[e] = T
                    /\ e \notin Fresh(T, from)' /\ Replaces(Fresh(T, from)', e) => computedFor'[e] = None
  BY <1>1 DEF Settled, Replaces
<1>2. ASSUME NEW f \in Fresh(T, from)' PROVE f \in Fresh(T, from)
  <2>1. f \in Event /\ Visible(f, stagedFor) /\ Recomputes(f.day, T, from)'
    BY <1>1, <1>2 DEF Fresh, Visible
  <2>2. Recomputes(f.day, T, from)
    BY <2>1, WindowOnlyShrinks, EventType
  <2> QED BY <2>1, <2>2 DEF Fresh
<1>3. CASE e \in Fresh(T, from)'
  BY <1>2, <1>3, PartialsResult
<1>4. CASE e \notin Fresh(T, from)' /\ Replaces(Fresh(T, from)', e)
  <2>1. PICK f \in Fresh(T, from)' : f.day = e.day /\ (Overwrite \/ f.ent = e.ent)
    BY <1>4 DEF Replaces
  <2>2. Replaces(Fresh(T, from), e)
    BY <1>2, <2>1 DEF Replaces
  <2>3. e \notin Fresh(T, from)
    <3>1. Recomputes(e.day, T, from)'
      BY <2>1 DEF Fresh
    <3>2. ~Visible(e, stagedFor)
      BY <1>1, <1>4, <3>1 DEF Fresh, Visible
    <3> QED BY <3>2 DEF Fresh
  <2> QED BY <1>4, <2>2, <2>3, PartialsResult
<1> QED BY <1>3, <1>4

-----------------------------------------------------------------------------
(***************************************************************************)
(* ... no later node of a plan disturbs it ...                             *)
(***************************************************************************)

\* What the settling of a node depends on.
LEMMA SettledFrame ==
    ASSUME NEW node \in Node, NEW kind, NEW T, NEW from, Settled(node, kind, T, from), source' = source,
           node \in {"staging", "partials"} => stagedFor' = stagedFor,
           node = "partials" => partialsExist' = partialsExist,
           node \in {"partials", "state", "mart"} => computedFor' = computedFor,
           node \in {"state", "mart"} => sealed' = sealed /\ stateAsOf' = stateAsOf,
           node = "mart" => mart' = mart
    PROVE  Settled(node, kind, T, from)'
<1>1. CASE node = "staging"
  BY <1>1 DEF Settled
<1>2. CASE node = "partials"
  <2>1. Stored' = Stored /\ Fresh(T, from)' = Fresh(T, from)
    BY <1>2 DEF Stored, Fresh, Visible, Recomputes, InRewriteWindow, AlreadyFresher
  <2>2. \A e \in Event : Replaces(Fresh(T, from), e)' <=> Replaces(Fresh(T, from), e)
    BY <2>1 DEF Replaces
  <2> QED BY <1>2, <2>1, <2>2 DEF Settled
<1>3. CASE node = "state"
  <2>1. SealRange(T, kind)' = SealRange(T, kind)
    BY <1>3 DEF SealRange, Stored, FoldsFrom, PastWatermark
  <2> QED BY <1>3, <2>1 DEF Settled
<1>4. CASE node = "mart"
  <2>1. SpineOf(T)' = SpineOf(T) /\ PartitionFor(T)' = PartitionFor(T)
    BY <1>4 DEF SpineOf, Rollup, Stored, PartitionFor, UnsealedTail, PastWatermark
  <2>2. Published(T)' = Published(T)
    BY <1>4, <2>1 DEF Published
  <2> QED BY <1>4, <2>2 DEF Settled
<1>5. CASE node \in {"watermark_test", "mart_test"}
  BY <1>5 DEF Settled
<1> QED BY <1>1, <1>2, <1>3, <1>4, <1>5 DEF Node

\* The node that an invocation has got to.
LEMMA NodeAt ==
    ASSUME TypeOK, job # Idle, NEW i \in 1 .. Len(Plan[job.kind]), GotTo(i, job)
    PROVE  /\ \A node : At(node) => Plan[job.kind][i] = node
           /\ \A k \in 1 .. Len(Plan[job.kind]) : Plan[job.kind][k] \in Node
           /\ Tail(job.todo) = SubSeq(Plan[job.kind], i + 1, Len(Plan[job.kind]))
           /\ Tail(job.todo) = << >> <=> i = Len(Plan[job.kind])
<1>1. Plan[job.kind] \in Seq(Node)
  BY JobType
<1>2. /\ Head(job.todo) = Plan[job.kind][i]
      /\ Tail(job.todo) = SubSeq(Plan[job.kind], i + 1, Len(Plan[job.kind]))
      /\ Tail(job.todo) = << >> <=> i = Len(Plan[job.kind])
  BY <1>1, RestOfPlan DEF GotTo
<1>3. \A k \in 1 .. Len(Plan[job.kind]) : Plan[job.kind][k] \in Node
  BY <1>1
<1>4. \A node : At(node) => Plan[job.kind][i] = node
  BY <1>2 DEF At
<1> QED BY <1>2, <1>3, <1>4

\* A node that has been built settles, and leaves what the nodes before it have settled.
LEMMA WorkSettles ==
    ASSUME TypeOK, EmptyAtFirst, Work, NEW kind, NEW T, NEW from,
           job.kind = kind, job.target = T, job.from = from,
           NEW i \in 1 .. Len(Plan[kind]), GotTo(i, job)
    PROVE  \A k \in 1 .. i : Settled(Plan[kind][k], kind, T, from)'
<1>1. job # Idle
  BY DEF Work, BuildStaging, BuildPartials, BuildState, WatermarkTest, BuildMart, MartTest, At, Idle
<1>2. kind \in Kind /\ T \in Day /\ from \in Day \cup {None} /\ Plan[kind] \in Seq(Node)
  BY <1>1, JobType
<1>3. /\ \A node : At(node) => Plan[kind][i] = node
      /\ \A k \in 1 .. i : Plan[kind][k] \in Node
  BY <1>1, <1>2, NodeAt
<1>4. \A k \in 1 .. (i - 1) : Settled(Plan[kind][k], kind, T, from)
  BY DEF GotTo
<1>5. SUFFICES /\ \A k \in 1 .. (i - 1) : Settled(Plan[kind][k], kind, T, from)'
               /\ Settled(Plan[kind][i], kind, T, from)'
  <2>1. \A k \in 1 .. i : k = i \/ k \in 1 .. (i - 1)
    BY <1>2
  <2> QED BY <2>1
<1>6. source' = source
  BY DEF Work, BuildStaging, BuildPartials, BuildState, WatermarkTest, BuildMart, MartTest
<1>7. CASE BuildStaging
  <2>1. Plan[kind][i] = "staging"
    BY <1>3, <1>7 DEF BuildStaging
  <2>2. Settled("staging", kind, T, from)'
    BY <1>7 DEF BuildStaging, Settled
  <2>3. \A k \in 1 .. (i - 1) : FALSE
    BY <1>2, <2>1, PlanOrder
  <2> QED BY <2>1, <2>2, <2>3
<1>8. CASE BuildPartials
  <2>1. Plan[kind][i] = "partials"
    BY <1>3, <1>8 DEF BuildPartials
  <2>2. Settled("partials", kind, T, from)'
    BY <1>2, <1>8, PartialsSettle
  <2>3. ASSUME NEW k \in 1 .. (i - 1) PROVE Settled(Plan[kind][k], kind, T, from)'
    <3>1. Plan[kind][k] = "staging" /\ Settled("staging", kind, T, from)
      BY <1>2, <1>4, <2>1, PlanOrder
    <3> QED BY <1>8, <3>1 DEF BuildPartials, Settled
  <2> QED BY <2>1, <2>2, <2>3
<1>9. CASE BuildState
  <2>1. Plan[kind][i] = "state"
    BY <1>3, <1>9 DEF BuildState
  <2>2. Settled("state", kind, T, from)'
    BY <1>2, <1>9, StateSettles
  <2>3. ASSUME NEW k \in 1 .. (i - 1) PROVE Settled(Plan[kind][k], kind, T, from)'
    <3>1. Plan[kind][k] \in {"staging", "partials"} /\ Settled(Plan[kind][k], kind, T, from)
      BY <1>2, <1>4, <2>1, PlanOrder
    <3> QED BY <1>6, <1>9, <3>1, SettledFrame DEF BuildState, Node
  <2> QED BY <2>1, <2>2, <2>3
<1>10. CASE BuildMart
  <2>1. Plan[kind][i] = "mart"
    BY <1>3, <1>10 DEF BuildMart
  <2>2. Settled("mart", kind, T, from)'
    BY <1>2, <1>10, MartSettles
  <2>3. ASSUME NEW k \in 1 .. (i - 1) PROVE Settled(Plan[kind][k], kind, T, from)'
    <3>1. CASE Plan[kind][k] = "mart"
      BY <2>2, <3>1
    <3>2. CASE Plan[kind][k] # "mart"
      BY <1>3, <1>4, <1>6, <1>10, <3>2, SettledFrame DEF BuildMart
    <3> QED BY <3>1, <3>2
  <2> QED BY <2>1, <2>2, <2>3
<1>11. CASE WatermarkTest \/ MartTest
  <2>1. Plan[kind][i] \in {"watermark_test", "mart_test"}
    BY <1>3, <1>11 DEF WatermarkTest, MartTest
  <2>2. Settled(Plan[kind][i], kind, T, from)'
    BY <2>1 DEF Settled
  <2>3. ASSUME NEW k \in 1 .. (i - 1) PROVE Settled(Plan[kind][k], kind, T, from)'
    BY <1>3, <1>4, <1>6, <1>11, SettledFrame DEF WatermarkTest, MartTest, warehouse
  <2> QED BY <2>2, <2>3
<1> QED BY <1>7, <1>8, <1>9, <1>10, <1>11 DEF Work

-----------------------------------------------------------------------------
(***************************************************************************)
(* ... and a node that is settled changes nothing.                         *)
(***************************************************************************)

LEMMA SettledRepeats ==
    ASSUME TypeOK, EmptyAtFirst, Work, Stored # {},
           \A node \in Node : At(node) => Settled(node, job.kind, job.target, job.from)
    PROVE  UNCHANGED warehouse
<1>1. job # Idle
  BY DEF Work, BuildStaging, BuildPartials, BuildState, WatermarkTest, BuildMart, MartTest, At, Idle
<1>2. CASE BuildStaging
  BY <1>2 DEF BuildStaging, Settled, Node, warehouse
<1>3. CASE BuildPartials
  <2>1. Settled("partials", job.kind, job.target, job.from)
    BY <1>3 DEF BuildPartials, Node
  <2>2. \A e \in Event : computedFor'[e] = computedFor[e]
    BY <1>1, <1>3, <2>1, JobType, PartialsResult DEF Settled
  <2>3. computedFor' = computedFor
    BY <1>3, <2>2 DEF BuildPartials, TypeOK
  <2>4. partialsExist' = partialsExist
    BY <1>3, <2>1 DEF BuildPartials, Settled
  <2> QED BY <1>3, <2>3, <2>4 DEF BuildPartials, warehouse
<1>4. CASE BuildState
  <2>1. Settled("state", job.kind, job.target, job.from)
    BY <1>4 DEF BuildState, Node
  <2>2. CASE job.kind = "reset_state"
    <3>1. \A e \in Event : sealed'[e] = sealed[e]
      BY <1>4, <2>1, <2>2 DEF BuildState, Settled
    <3>2. \A x \in Entity : stateAsOf'[x] = stateAsOf[x]
      BY <1>4, <2>1, <2>2 DEF BuildState, Settled
    <3> QED BY <1>4, <3>1, <3>2 DEF BuildState, TypeOK, warehouse
  <2>3. CASE job.kind # "reset_state"
    <3>1. SealRange(job.target, job.kind) = {}
      BY <2>1, <2>3 DEF Settled
    <3>2. \A e \in Event : sealed'[e] = sealed[e]
      BY <1>4, <2>3, <3>1 DEF BuildState, TypeOK
    <3>3. \A x \in Entity : stateAsOf'[x] = stateAsOf[x]
      BY <1>4, <2>3, <3>1 DEF BuildState
    <3> QED BY <1>4, <3>2, <3>3 DEF BuildState, TypeOK, warehouse
  <2> QED BY <2>2, <2>3
<1>5. CASE BuildMart
  <2>1. Published(job.target) = mart[job.target]
    BY <1>5 DEF BuildMart, Settled, Node
  <2>2. mart' = mart
    BY <1>5, <2>1 DEF BuildMart, TypeOK
  <2> QED BY <1>5, <2>2 DEF BuildMart, warehouse
<1>6. CASE WatermarkTest \/ MartTest
  BY <1>6 DEF WatermarkTest, MartTest
<1> QED BY <1>2, <1>3, <1>4, <1>5, <1>6 DEF Work

-----------------------------------------------------------------------------
(***************************************************************************)
(* The inductive invariant.                                                *)
(***************************************************************************)

LEMMA InitRetryInv == Init => RetryInv
<1> SUFFICES ASSUME Init PROVE RetryInv
  OBVIOUS
<1>1. Stored = {} /\ ranTo = None
  BY DEF Init, Stored, NoEvents, None
<1> QED BY <1>1 DEF Init, RetryInv, EmptyAtFirst, OnPlan, DoneIsSettled

LEMMA NextEmptyAtFirst == TypeOK /\ EmptyAtFirst /\ [Next]_vars => EmptyAtFirst'
<1> SUFFICES ASSUME TypeOK, EmptyAtFirst, [Next]_vars PROVE EmptyAtFirst'
  OBVIOUS
<1>1. BuildPartials \/ UNCHANGED <<partialsExist, computedFor, ranTo>>
  BY DEF Next, Work, vars, warehouse, Start, BuildStaging, BuildState, WatermarkTest,
         BuildMart, MartTest, Abort
<1> QED BY <1>1 DEF BuildPartials, EmptyAtFirst, Stored

\* A step that leaves the source and the warehouse alone leaves everything settled that is.
LEMMA SettledStays ==
    ASSUME source' = source, UNCHANGED warehouse,
           NEW node \in Node, NEW kind, NEW T, NEW from, Settled(node, kind, T, from)
    PROVE  Settled(node, kind, T, from)'
BY SettledFrame DEF warehouse

\* The invocation that is over, or the next node of it, once a node has succeeded.
LEMMA AdvanceTo ==
    ASSUME TypeOK, job # Idle, Advance
    PROVE  \/ /\ Tail(job.todo) = << >> /\ job' = Idle
              /\ \/ Stored = {} /\ done' = Idle
                 \/ /\ Stored # {} /\ done' # Idle
                    /\ done'.kind = job.kind /\ done'.target = job.target /\ done'.from = job.from
           \/ /\ Tail(job.todo) # << >> /\ job' # Idle /\ done' = done
              /\ job'.kind = job.kind /\ job'.target = job.target /\ job'.from = job.from
              /\ job'.todo = Tail(job.todo)
<1>1. job \in Job
  BY JobType
<1>2. CASE Tail(job.todo) = << >>
  BY <1>1, <1>2 DEF Advance, Job, Invocations, Kind, Idle
<1>3. CASE Tail(job.todo) # << >>
  BY <1>1, <1>3 DEF Advance, Job, Invocations, Kind, Idle
<1> QED BY <1>2, <1>3

LEMMA NextOnPlan == TypeOK /\ EmptyAtFirst /\ OnPlan /\ [Next]_vars => OnPlan'
<1> SUFFICES ASSUME TypeOK, EmptyAtFirst, OnPlan, [Next]_vars, job' # Idle
             PROVE  \E i \in 1 .. Len(Plan[job'.kind]) : GotTo(i, job)'
  BY DEF OnPlan, Plan
<1>1. ASSUME NEW kind \in Kinds, NEW T \in Day, NEW from \in Froms(kind), Start(kind, T, from)
      PROVE  \E i \in 1 .. Len(Plan[job'.kind]) : GotTo(i, job)'
  <2>1. Plan[kind] \in Seq(Node) /\ Len(Plan[kind]) >= 1
    BY ModeAssumption, PlanType
  <2>2. job'.kind = kind /\ job'.todo = Plan[kind]
    BY <1>1 DEF Start
  <2>3. Plan[kind] = SubSeq(Plan[kind], 1, Len(Plan[kind]))
    BY <2>1, SubSeqFull
  <2>4. GotTo(1, job)'
    BY <2>2, <2>3 DEF GotTo, Plan
  <2> QED BY <2>1, <2>2, <2>4
<1>2. CASE Work
  <2>1. job # Idle
    BY <1>2 DEF Work, BuildStaging, BuildPartials, BuildState, WatermarkTest, BuildMart, MartTest,
                At, Idle
  <2>2. Advance
    BY <1>2 DEF Work, BuildStaging, BuildPartials, BuildState, WatermarkTest, BuildMart, MartTest
  <2>3. PICK i \in 1 .. Len(Plan[job.kind]) : GotTo(i, job)
    BY <2>1 DEF OnPlan
  <2>4. PICK kind, T, from : kind = job.kind /\ T = job.target /\ from = job.from
    OBVIOUS
  <2>5. \A k \in 1 .. i : Settled(Plan[kind][k], kind, T, from)'
    BY <1>2, <2>3, <2>4, WorkSettles
  <2>6. /\ job'.kind = kind /\ job'.target = T /\ job'.from = from
        /\ job'.todo = Tail(job.todo) /\ Tail(job.todo) # << >>
    BY <2>1, <2>2, <2>4, AdvanceTo
  <2>7. job'.todo = SubSeq(Plan[kind], i + 1, Len(Plan[kind])) /\ i # Len(Plan[kind])
    BY <2>1, <2>3, <2>4, <2>6, NodeAt
  <2>8. Len(Plan[kind]) \in Nat
    BY <2>1, <2>4, JobType
  <2>9. i + 1 \in 1 .. Len(Plan[kind]) /\ (i + 1) - 1 = i
    BY <2>3, <2>4, <2>7, <2>8
  <2>10. GotTo(i + 1, job)'
    BY <2>5, <2>6, <2>7, <2>9 DEF GotTo, Plan
  <2> QED BY <2>6, <2>9, <2>10
<1>3. CASE Abort
  BY <1>3 DEF Abort
<1>4. CASE UNCHANGED vars
  <2>1. PICK i \in 1 .. Len(Plan[job.kind]) : GotTo(i, job)
    BY <1>4 DEF OnPlan, vars
  <2>2. PICK kind, T, from : kind = job.kind /\ T = job.target /\ from = job.from
    OBVIOUS
  <2>3. Plan[kind] \in Seq(Node)
    BY <1>4, <2>2, JobType DEF vars
  <2>4. ASSUME NEW k \in 1 .. (i - 1) PROVE Settled(Plan[kind][k], kind, T, from)'
    <3>1. Settled(Plan[kind][k], kind, T, from)
      BY <2>1, <2>2 DEF GotTo
    <3>2. k \in 1 .. Len(Plan[kind])
      BY <2>1, <2>2, <2>3
    <3> QED BY <1>4, <2>3, <3>1, <3>2, SettledStays DEF vars
  <2>5. GotTo(i, job)'
    BY <1>4, <2>1, <2>2, <2>4 DEF GotTo, Plan, vars
  <2> QED BY <1>4, <2>1, <2>5 DEF vars
<1> QED BY <1>1, <1>2, <1>3, <1>4 DEF Next

\* What is stored stays so for as long as the repeat of an invocation relies on it.
LEMMA WorkKeepsStored ==
    ASSUME TypeOK, Work, Stored # {}
    PROVE  Stored' # {}
<1>1. CASE BuildPartials
  BY <1>1, PartialsStayNonEmpty
<1>2. CASE ~BuildPartials
  <2>1. computedFor' = computedFor
    BY <1>2 DEF Work, BuildStaging, BuildState, WatermarkTest, BuildMart, MartTest, warehouse
  <2> QED BY <2>1 DEF Stored
<1> QED BY <1>1, <1>2

\* While the invocation remembered as done is repeated, none of its nodes changes a table.
LEMMA RepeatChangesNothing ==
    ASSUME TypeOK, RetryInv, Work, done # Idle
    PROVE  UNCHANGED warehouse
<1>1. job # Idle
  BY DEF Work, BuildStaging, BuildPartials, BuildState, WatermarkTest, BuildMart, MartTest, At, Idle
<1>2. /\ Stored # {}
      /\ \A k \in 1 .. Len(Plan[job.kind]) : Settled(Plan[job.kind][k], job.kind, job.target, job.from)
  BY <1>1 DEF RetryInv, DoneIsSettled
<1>3. PICK i \in 1 .. Len(Plan[job.kind]) : GotTo(i, job)
  BY <1>1 DEF RetryInv, OnPlan
<1>4. ASSUME NEW node \in Node, At(node)
      PROVE  Settled(node, job.kind, job.target, job.from)
  <2>1. Plan[job.kind][i] = node
    BY <1>1, <1>3, <1>4, NodeAt
  <2> QED BY <1>2, <2>1
<1> QED BY <1>2, <1>4, SettledRepeats DEF RetryInv

LEMMA NextDoneIsSettled == TypeOK /\ RetryInv /\ [Next]_vars => DoneIsSettled'
<1> SUFFICES ASSUME TypeOK, RetryInv, [Next]_vars, done' # Idle PROVE DoneIsSettled'
  BY DEF DoneIsSettled
<1>1. ASSUME done # Idle, UNCHANGED <<source, warehouse>>,
             done'.kind = done.kind, done'.target = done.target, done'.from = done.from,
             job' # Idle => job'.kind = done.kind /\ job'.target = done.target /\ job'.from = done.from
      PROVE  DoneIsSettled'
  <2>1. PICK kind, T, from : kind = done.kind /\ T = done.target /\ from = done.from
    OBVIOUS
  <2>2. kind \in Kind /\ Plan[kind] \in Seq(Node)
    BY <1>1, <2>1, PlanType DEF TypeOK, Over, Invocations
  <2>3. Stored # {} /\ \A k \in 1 .. Len(Plan[kind]) : Settled(Plan[kind][k], kind, T, from)
    BY <1>1, <2>1 DEF RetryInv, DoneIsSettled
  <2>4. Stored' # {}
    BY <1>1, <2>3 DEF Stored, warehouse
  <2>5. \A k \in 1 .. Len(Plan[kind]) : Settled(Plan[kind][k], kind, T, from)'
    BY <1>1, <2>2, <2>3, SettledStays
  <2> QED BY <1>1, <2>1, <2>4, <2>5 DEF DoneIsSettled, Plan
<1>2. ASSUME NEW kind \in Kinds, NEW T \in Day, NEW from \in Froms(kind), Start(kind, T, from)
      PROVE  DoneIsSettled'
  <2>1. done' = done /\ done.kind = kind /\ done.target = T /\ done.from = from
    BY <1>2 DEF Start
  <2>2. job'.kind = kind /\ job'.target = T /\ job'.from = from
    BY <1>2 DEF Start
  <2> QED BY <1>1, <1>2, <2>1, <2>2 DEF Start
<1>3. CASE Abort
  BY <1>1, <1>3 DEF Abort
<1>4. CASE UNCHANGED vars
  BY <1>1, <1>4 DEF vars, RetryInv, DoneIsSettled
<1>5. CASE Work
  <2>1. job # Idle /\ source' = source
    BY <1>5 DEF Work, BuildStaging, BuildPartials, BuildState, WatermarkTest, BuildMart, MartTest,
                At, Idle
  <2>2. Advance \/ (job' = Idle /\ done' = done)
    BY <1>5 DEF Work, BuildStaging, BuildPartials, BuildState, WatermarkTest, BuildMart, MartTest
  <2>3. CASE done # Idle
    <3>1. UNCHANGED warehouse
      BY <1>5, <2>3, RepeatChangesNothing
    <3>2. job.kind = done.kind /\ job.target = done.target /\ job.from = done.from
      BY <2>1, <2>3 DEF RetryInv, DoneIsSettled
    <3>3. done'.kind = done.kind /\ done'.target = done.target /\ done'.from = done.from
      BY <2>1, <2>2, <3>2, AdvanceTo
    <3>4. job' # Idle => job'.kind = done.kind /\ job'.target = done.target /\ job'.from = done.from
      BY <2>1, <2>2, <3>2, AdvanceTo
    <3> QED BY <1>1, <2>1, <2>3, <3>1, <3>3, <3>4
  <2>4. CASE done = Idle
    <3>1. PICK kind, T, from : kind = job.kind /\ T = job.target /\ from = job.from
      OBVIOUS
    <3>2. /\ Tail(job.todo) = << >> /\ job' = Idle /\ Stored # {}
          /\ done'.kind = kind /\ done'.target = T /\ done'.from = from
      BY <2>1, <2>2, <2>4, <3>1, AdvanceTo
    <3>3. PICK i \in 1 .. Len(Plan[kind]) : GotTo(i, job)
      BY <2>1, <3>1 DEF RetryInv, OnPlan
    <3>4. i = Len(Plan[kind])
      BY <2>1, <3>1, <3>2, <3>3, NodeAt
    <3>5. \A k \in 1 .. Len(Plan[kind]) : Settled(Plan[kind][k], kind, T, from)'
      BY <1>5, <3>1, <3>3, <3>4, WorkSettles DEF RetryInv
    <3>6. Stored' # {}
      BY <1>5, <3>2, WorkKeepsStored
    <3> QED BY <3>2, <3>5, <3>6 DEF DoneIsSettled, Plan
  <2> QED BY <2>3, <2>4
<1> QED BY <1>2, <1>3, <1>4, <1>5 DEF Next

LEMMA RetryInvariant == Spec => []RetryInv
<1>1. TypeOK /\ RetryInv /\ [Next]_vars => RetryInv'
  BY NextEmptyAtFirst, NextOnPlan, NextDoneIsSettled DEF RetryInv
<1> QED BY <1>1, InitRetryInv, TypeCorrect, PTL DEF Spec

LEMMA NextRepeats ==
    TypeOK /\ RetryInv /\ [Next]_vars =>
        (done # Idle => UNCHANGED <<computedFor, sealed, stateAsOf, mart>>)
<1> SUFFICES ASSUME TypeOK, RetryInv, [Next]_vars, done # Idle
             PROVE  UNCHANGED <<computedFor, sealed, stateAsOf, mart>>
  OBVIOUS
<1>1. CASE Work
  BY <1>1, RepeatChangesNothing DEF warehouse
<1>2. CASE ~Work
  BY <1>2 DEF Next, Start, Abort, vars, warehouse
<1> QED BY <1>1, <1>2

\* Repeating the invocation that succeeded last changes no table, whatever kind it is of, from
\* whatever state of the warehouse it began, and wherever the repeat is cut short.
THEOREM RetriesAreIdempotent == Spec => RetryChangesNothing
BY RetryInvariant, NextRepeats, TypeCorrect, PTL DEF Spec, RetryChangesNothing

-----------------------------------------------------------------------------
(***************************************************************************)
(* History.  The partial layer never loses what later partitions need.     *)
(***************************************************************************)

\* What these theorems ask of the operators: history is not loaded again for a date behind an
\* earlier run's, and the partial layer is built together with the staging view it reads.
Disciplined == ~ReplayBackfill /\ "partials_only" \notin Kinds

\* What is stored is in the source, and had happened and arrived by the date it was computed for.
StoredHasArrived ==
    \A e \in Stored : /\ e \in source
                      /\ e.day <= computedFor[e] /\ e.arr <= computedFor[e]
                      /\ computedFor[e] <= ranTo

\* Only an initial load has a start date, and it is for no date before the newest run's.
LoadsForward ==
    job # Idle => /\ job.kind \in Kinds
                  /\ job.from # None => job.kind = "backfill"
                  /\ job.kind = "backfill" => job.target >= ranTo

\* The partial layer still holds every event behind the accumulator or a published all_time
\* value, unless the source has ended it: a reset can fold all of it again.
SourceOfHistory ==
    \A e \in Event :
        Permanent(e) /\ (sealed[e] > 0 \/ \E d \in Day : mart[d].allTime[e] > 0) => e \in Stored

LayerInv == StoredHasArrived /\ LoadsForward

-----------------------------------------------------------------------------
(***************************************************************************)
(* One build of the partial layer.                                         *)
(***************************************************************************)

\* The staging view that the partial model reads is that of its own invocation.
LEMMA StagedForTarget ==
    ASSUME Disciplined, TypeOK, RetryInv, LayerInv, BuildPartials
    PROVE  /\ job # Idle /\ job.target \in Day /\ job.target \in Nat /\ job.target > 0
           /\ job.from \in Day \cup {None}
           /\ stagedFor = job.target
<1>1. job # Idle
  BY DEF BuildPartials, At, Idle
<1>2. /\ job.kind \in Kind /\ job.kind # "partials_only" /\ Plan[job.kind] \in Seq(Node)
      /\ job.target \in Day /\ job.target \in Nat /\ job.target > 0 /\ job.from \in Day \cup {None}
  BY <1>1, JobType DEF Disciplined, LayerInv, LoadsForward
<1>3. PICK i \in 1 .. Len(Plan[job.kind]) : GotTo(i, job)
  BY <1>1 DEF RetryInv, OnPlan
<1>4. Plan[job.kind][i] = "partials"
  BY <1>1, <1>3, NodeAt DEF BuildPartials
<1>5. i = 2 /\ Plan[job.kind][1] = "staging"
  BY <1>2, <1>4, PlanOrder
<1>6. Settled("staging", job.kind, job.target, job.from)
  BY <1>3, <1>5 DEF GotTo
<1> QED BY <1>1, <1>2, <1>6 DEF Settled

\* The events a build selects have arrived and are in the source, on its days.
LEMMA FreshType ==
    ASSUME Disciplined, TypeOK, RetryInv, LayerInv, BuildPartials,
           NEW e \in Fresh(job.target, job.from)
    PROVE  /\ e \in Event /\ e \in source /\ e.arr <= job.target /\ job.target < e.end
           /\ e.day <= job.target
           /\ Recomputes(e.day, job.target, job.from)
           /\ computedFor'[e] = job.target
BY StagedForTarget, PartialsResult DEF Fresh, Visible, Recomputes

\* No stored row is ahead of a build that recomputes its day.
LEMMA RecomputesNothingFresher ==
    ASSUME Disciplined, TypeOK, RetryInv, LayerInv, BuildPartials, NEW e \in Stored,
           Recomputes(e.day, job.target, job.from)
    PROVE  computedFor[e] <= job.target
<1>1. /\ job # Idle /\ job.target \in Nat /\ e \in Event
      /\ computedFor[e] \in Nat /\ ranTo \in Nat /\ computedFor[e] <= ranTo
  BY StagedForTarget, DayAssumption DEF TypeOK, Day, None, Stored, LayerInv, StoredHasArrived
<1>2. CASE job.from # None
  BY <1>1, <1>2 DEF LayerInv, LoadsForward
<1>3. CASE job.from = None
  <2>1. partialsExist
    BY DEF RetryInv, EmptyAtFirst
  <2>2. ~AlreadyFresher(e.day, job.target)
    BY <1>3, <2>1 DEF Recomputes
  <2> QED BY <1>1, <2>2 DEF AlreadyFresher
<1> QED BY <1>2, <1>3

\* A build drops an event only if the source has ended it by then: the build recomputes the
\* event's day, no fresher row stood in its way, so it would have seen the event.
LEMMA DroppedHasEnded ==
    ASSUME Disciplined, TypeOK, RetryInv, LayerInv, BuildPartials,
           NEW e \in Stored, computedFor'[e] = None
    PROVE  e.end <= job.target
<1>1. /\ e \in Event /\ job.target \in Nat /\ job.target > 0 /\ e.arr \in Nat /\ e.end \in Nat
      /\ computedFor[e] \in Nat /\ computedFor[e] # None
  BY StagedForTarget, EventType, DayAssumption DEF TypeOK, Day, None, Stored
<1>2. e \notin Fresh(job.target, job.from)
  BY <1>1, FreshType DEF None
<1>3. Replaces(Fresh(job.target, job.from), e)
  BY <1>1, <1>2, StagedForTarget, PartialsResult
<1>4. PICK f \in Fresh(job.target, job.from) : f.day = e.day
  BY <1>3 DEF Replaces
<1>5. Recomputes(e.day, job.target, job.from)
  BY <1>4, FreshType
<1>6. computedFor[e] <= job.target
  BY <1>5, RecomputesNothingFresher
<1>7. e \in source /\ e.arr <= job.target
  BY <1>1, <1>6 DEF LayerInv, StoredHasArrived
<1>8. ~Visible(e, job.target)
  BY <1>1, <1>2, <1>5, StagedForTarget DEF Fresh
<1> QED BY <1>1, <1>7, <1>8 DEF Visible

LEMMA NextOnlyGains ==
    ASSUME Disciplined, TypeOK, RetryInv, LayerInv, [Next]_vars,
           NEW e \in Stored, computedFor'[e] = None
    PROVE  BuildPartials /\ e.end <= job.target
<1>1. BuildPartials \/ computedFor' = computedFor
  BY DEF Next, Work, vars, warehouse, Start, BuildStaging, BuildState, WatermarkTest,
         BuildMart, MartTest, Abort
<1>2. BuildPartials
  BY <1>1 DEF Stored
<1> QED BY <1>2, DroppedHasEnded

\* An event that the source never ends stays in the layer for good.
LEMMA PermanentStays ==
    ASSUME Disciplined, TypeOK, RetryInv, LayerInv, [Next]_vars, NEW e \in Stored, Permanent(e)
    PROVE  e \in Stored'
<1>1. SUFFICES ASSUME computedFor'[e] = None PROVE FALSE
  BY DEF Stored
<1>2. e \in Event /\ e.end \in Nat
  BY EventType DEF Stored
<1>3. BuildPartials /\ e.end <= job.target
  BY <1>1, NextOnlyGains
<1>4. job.target \in Day
  BY <1>3, StagedForTarget
<1> QED BY <1>2, <1>3, <1>4, DayAssumption DEF Permanent, Day

-----------------------------------------------------------------------------
(***************************************************************************)
(* What is stored has arrived.                                             *)
(***************************************************************************)

LEMMA NextArrived ==
    ASSUME Disciplined, TypeOK, RetryInv, LayerInv, [Next]_vars
    PROVE  StoredHasArrived'
<1>1. CASE BuildPartials
  <2>1. SUFFICES ASSUME NEW e \in Event, computedFor'[e] # None
                 PROVE  /\ e \in source' /\ e.day <= computedFor'[e] /\ e.arr <= computedFor'[e]
                        /\ computedFor'[e] <= ranTo'
    BY DEF StoredHasArrived, Stored
  <2>2. job.target \in Nat /\ ranTo \in Nat /\ source' = source
    BY <1>1, StagedForTarget, DayAssumption DEF BuildPartials, TypeOK, Day, None
  <2>3. ranTo' = IF job.target > ranTo THEN job.target ELSE ranTo
    BY <1>1 DEF BuildPartials
  <2>4. CASE e \in Fresh(job.target, job.from)
    BY <1>1, <2>2, <2>3, <2>4, FreshType
  <2>5. CASE e \notin Fresh(job.target, job.from)
    <3>1. computedFor'[e] = computedFor[e] /\ e \in Stored
      BY <1>1, <2>1, <2>5, StagedForTarget, PartialsResult DEF Stored
    <3>2. computedFor[e] \in Nat /\ computedFor[e] <= ranTo
      BY <3>1, DayAssumption DEF TypeOK, Day, None, LayerInv, StoredHasArrived
    <3> QED BY <2>2, <2>3, <3>1, <3>2 DEF LayerInv, StoredHasArrived
  <2> QED BY <2>4, <2>5
<1>2. CASE ~BuildPartials
  <2>1. UNCHANGED <<source, computedFor, ranTo>>
    BY <1>2 DEF Next, Work, vars, warehouse, Start, BuildStaging, BuildState, WatermarkTest,
                BuildMart, MartTest, Abort
  <2> QED BY <2>1 DEF LayerInv, StoredHasArrived, Stored
<1> QED BY <1>1, <1>2

LEMMA NextLoadsForward ==
    ASSUME Disciplined, TypeOK, RetryInv, LayerInv, [Next]_vars
    PROVE  LoadsForward'
<1> SUFFICES ASSUME job' # Idle
             PROVE  /\ job'.kind \in Kinds
                    /\ job'.from # None => job'.kind = "backfill"
                    /\ job'.kind = "backfill" => job'.target >= ranTo'
  BY DEF LoadsForward
<1>1. ASSUME NEW kind \in Kinds, NEW T \in Day, NEW from \in Froms(kind), Start(kind, T, from)
      PROVE  /\ job'.kind \in Kinds
             /\ job'.from # None => job'.kind = "backfill"
             /\ job'.kind = "backfill" => job'.target >= ranTo'
  <2>1. job'.kind = kind /\ job'.target = T /\ job'.from = from /\ ranTo' = ranTo
    BY <1>1 DEF Start
  <2>2. kind = "backfill" => ~(T < ranTo)
    BY <1>1 DEF Start, Disciplined
  <2>3. T \in Int /\ ranTo \in Int
    BY DayAssumption DEF TypeOK, Day, None
  <2>4. from # None => kind = "backfill"
    BY DEF Froms
  <2> QED BY <2>1, <2>2, <2>3, <2>4
<1>2. CASE Work
  <2>1. job # Idle /\ Advance
    BY <1>2 DEF Work, BuildStaging, BuildPartials, BuildState, WatermarkTest, BuildMart, MartTest,
                At, Idle
  <2>2. job'.kind = job.kind /\ job'.target = job.target /\ job'.from = job.from
    BY <2>1, AdvanceTo
  <2>3. ranTo' = ranTo \/ ranTo' = IF job.target > ranTo THEN job.target ELSE ranTo
    BY <1>2 DEF Work, BuildStaging, BuildPartials, BuildState, WatermarkTest, BuildMart, MartTest
  <2>4. job.target \in Int /\ ranTo \in Int
    BY <2>1, JobType, DayAssumption DEF TypeOK, Day, None
  <2> QED BY <2>1, <2>2, <2>3, <2>4 DEF LayerInv, LoadsForward
<1>3. CASE Abort
  BY <1>3 DEF Abort
<1>4. CASE UNCHANGED vars
  BY <1>4 DEF vars, LayerInv, LoadsForward
<1> QED BY <1>1, <1>2, <1>3, <1>4 DEF Next

LEMMA LayerInvariant == ASSUME Disciplined PROVE Spec => []LayerInv
<1>1. Init => LayerInv
  BY DEF Init, LayerInv, StoredHasArrived, Stored, NoEvents, None, LoadsForward
<1>2. TypeOK /\ RetryInv /\ LayerInv /\ [Next]_vars => LayerInv'
  BY NextArrived, NextLoadsForward DEF LayerInv
<1> QED BY <1>1, <1>2, TypeCorrect, RetryInvariant, PTL DEF Spec

\* The partial layer only ever gains information: whatever the order of runs, one of them drops
\* an event only if the source itself has ended the row by the as-of date of that run.
THEOREM LayerOnlyGains == ASSUME Disciplined PROVE Spec => PartialsOnlyGain
<1>1. TypeOK /\ RetryInv /\ LayerInv /\ [Next]_vars =>
          \A e \in Stored : computedFor'[e] = None => e.end <= job.target
  BY NextOnlyGains
<1> QED BY <1>1, TypeCorrect, RetryInvariant, LayerInvariant, PTL DEF Spec, PartialsOnlyGain

-----------------------------------------------------------------------------
(***************************************************************************)
(* What was published stays reproducible.                                  *)
(***************************************************************************)

HistoryInv == SourceOfHistory /\ HistoryKept

\* A partition counts what the accumulator holds, and the rest of the layer.
LEMMA CountedIsHeld ==
    ASSUME TypeOK, NEW T \in Day, NEW e \in Event, PartitionFor(T).allTime[e] > 0
    PROVE  sealed[e] > 0 \/ (e \in Stored /\ PastWatermark(e.day))
<1>1. PartitionFor(T).allTime[e] > 0 => sealed[e] > 0 \/ e \in UnsealedTail(T)
  BY DEF PartitionFor, TypeOK
<1>2. e \in UnsealedTail(T) => e \in Stored /\ PastWatermark(e.day)
  BY DEF UnsealedTail
<1> QED BY <1>1, <1>2

\* A build of the accumulator folds in what it does not yet hold, up to its seal date, and
\* leaves the rest past its watermark; a reset folds the layer in from the start.
LEMMA BuildStateKeepsHistory ==
    ASSUME TypeOK, HistoryInv, BuildState, NEW e \in Event, Permanent(e),
           NEW d \in Day, mart[d].allTime[e] > 0
    PROVE  sealed'[e] > 0 \/ (e \in Stored' /\ PastWatermark(e.day)')
<1> DEFINE range == SealRange(job.target, job.kind)
<1>1. job.target - Late \in Int /\ e.day \in Nat /\ e.day > 0
  BY EventType, DayAssumption DEF TypeOK, BuildState, At, Idle, Job, Invocations, Day
<1>2. Stored' = Stored /\ sealed[e] \in Nat
  BY DEF BuildState, Stored, TypeOK
<1>3. e \in Stored /\ (sealed[e] > 0 \/ PastWatermark(e.day))
  BY DEF HistoryInv, SourceOfHistory, HistoryKept
<1>4. CASE e \in range
  BY <1>2, <1>4 DEF BuildState
<1>5. CASE e \notin range /\ sealed[e] > 0 /\ job.kind # "reset_state"
  BY <1>2, <1>5 DEF BuildState
<1>6. CASE e \notin range /\ ~(sealed[e] > 0 /\ job.kind # "reset_state")
  <2>1. FoldsFrom(e.day, job.kind)
    BY <1>3, <1>6 DEF FoldsFrom
  <2>2. e.day > job.target - Late
    BY <1>1, <1>3, <1>6, <2>1 DEF SealRange
  <2>3. ASSUME NEW x \in Entity PROVE e.day > stateAsOf'[x]
    <3>1. \/ stateAsOf'[x] = job.target - Late
          \/ job.kind # "reset_state" /\ stateAsOf'[x] = stateAsOf[x]
          \/ stateAsOf'[x] = None
      BY DEF BuildState
    <3>2. job.kind # "reset_state" => e.day > stateAsOf[x]
      BY <2>1 DEF FoldsFrom, PastWatermark
    <3> QED BY <1>1, <2>2, <3>1, <3>2 DEF None
  <2> QED BY <1>2, <1>3, <2>3 DEF PastWatermark
<1> QED BY <1>4, <1>5, <1>6

LEMMA NextKeepsHistory ==
    ASSUME Disciplined, TypeOK, RetryInv, LayerInv, HistoryInv, [Next]_vars
    PROVE  HistoryInv'
<1>1. ASSUME NEW e \in Event, Permanent(e), e \in Stored PROVE e \in Stored'
  BY <1>1, PermanentStays
<1>2. CASE BuildState
  <2>1. ASSUME NEW e \in Event, Permanent(e), sealed'[e] > 0 \/ \E d \in Day : mart'[d].allTime[e] > 0
        PROVE  e \in Stored'
    <3>1. sealed'[e] > 0 => sealed[e] > 0 \/ e \in SealRange(job.target, job.kind)
      BY <1>2 DEF BuildState, TypeOK
    <3>2. mart' = mart
      BY <1>2 DEF BuildState
    <3>3. e \in Stored
      BY <2>1, <3>1, <3>2 DEF SealRange, HistoryInv, SourceOfHistory
    <3> QED BY <1>1, <2>1, <3>3
  <2>2. ASSUME NEW d \in Day, NEW e \in Event, Permanent(e), mart'[d].allTime[e] > 0
        PROVE  sealed'[e] > 0 \/ (e \in Stored' /\ PastWatermark(e.day)')
    BY <1>2, <2>2, BuildStateKeepsHistory DEF BuildState
  <2> QED BY <2>1, <2>2 DEF HistoryInv, SourceOfHistory, HistoryKept, Permanent
<1>3. CASE BuildMart
  <2>1. job.target \in Day
    BY <1>3 DEF TypeOK, BuildMart, At, Idle, Job, Invocations
  <2>2. UNCHANGED <<computedFor, sealed, stateAsOf>>
    BY <1>3 DEF BuildMart
  <2>3. ASSUME NEW d \in Day, NEW e \in Event, Permanent(e), mart'[d].allTime[e] > 0
        PROVE  sealed[e] > 0 \/ (e \in Stored /\ PastWatermark(e.day))
    <3>1. mart'[d] = mart[d] \/ mart'[d] = PartitionFor(d)
      BY <1>3, <2>1 DEF BuildMart, Published, TypeOK
    <3> QED BY <2>3, <3>1, CountedIsHeld DEF HistoryInv, HistoryKept
  <2>4. ASSUME NEW e \in Event, Permanent(e), sealed'[e] > 0 \/ \E d \in Day : mart'[d].allTime[e] > 0
        PROVE  e \in Stored
    BY <2>2, <2>3, <2>4 DEF HistoryInv, SourceOfHistory
  <2> QED
    BY <2>2, <2>3, <2>4 DEF HistoryInv, SourceOfHistory, HistoryKept, Permanent, Stored, PastWatermark
<1>4. CASE ~BuildState /\ ~BuildMart
  <2>1. UNCHANGED <<sealed, stateAsOf, mart>>
    BY <1>4 DEF Next, Work, vars, warehouse, Start, BuildStaging, BuildPartials, WatermarkTest,
                MartTest, Abort
  <2>2. \A d : PastWatermark(d)' <=> PastWatermark(d)
    BY <2>1 DEF PastWatermark
  <2> QED BY <1>1, <2>1, <2>2 DEF HistoryInv, SourceOfHistory, HistoryKept, Permanent
<1> QED BY <1>2, <1>3, <1>4

\* What was ever published stays reproducible: an event that the source never ends and that a
\* published all_time value counted is in the accumulator or past its watermark in the partial
\* layer, through every skipped day, replay, rebuild and reset.
THEOREM PublishedHistoryIsKept == ASSUME Disciplined PROVE Spec => []HistoryKept
<1>1. Init => HistoryInv
  BY DEF Init, HistoryInv, SourceOfHistory, HistoryKept, EmptyPartition, NoEvents
<1>2. TypeOK /\ RetryInv /\ LayerInv /\ HistoryInv /\ [Next]_vars => HistoryInv'
  BY NextKeepsHistory
<1>3. HistoryInv => HistoryKept
  BY DEF HistoryInv
<1> QED BY <1>1, <1>2, <1>3, TypeCorrect, RetryInvariant, LayerInvariant, PTL DEF Spec

-----------------------------------------------------------------------------
(***************************************************************************)
(* No late event is lost.                                                  *)
(***************************************************************************)

\* The events that the layer has to hold once it covers the days from `from` and has been
\* built for date T.
Due(e, T, from) == /\ e \in source /\ OnTime(e) /\ Permanent(e)
                   /\ e.arr <= T /\ from <= e.day /\ e.day <= T

\* A day on which something may have come due since the newest run is open to a later one.
LEMMA OpenDayIsRecomputed ==
    ASSUME TypeOK, LayerInv, partialsExist, NEW T \in Nat, T > ranTo,
           NEW d \in Nat, d <= T, d + Late > ranTo
    PROVE  Recomputes(d, T, None)
<1>1. ranTo \in Nat /\ Late \in Nat
  BY DayAssumption DEF TypeOK, Day, None
<1>2. ASSUME NEW f \in Event PROVE computedFor[f] \in Nat /\ computedFor[f] <= ranTo
  BY <1>1, DayAssumption DEF TypeOK, LayerInv, StoredHasArrived, Stored, Day, None
<1>3. InRewriteWindow(d, T)
  BY <1>1, <1>2 DEF InRewriteWindow
<1>4. ~AlreadyFresher(d, T)
  BY <1>1, <1>2 DEF AlreadyFresher, Stored
<1> QED BY <1>3, <1>4 DEF Recomputes

\* A build that leaves an event due has selected it, or the event was due before.
LEMMA DueIsSelected ==
    ASSUME Disciplined, TypeOK, RetryInv, LayerInv, BuildPartials,
           NEW e \in Event, Due(e, ranTo', floor'), ~Due(e, ranTo, floor)
    PROVE  Recomputes(e.day, job.target, job.from) /\ Visible(e, job.target)
<1> DEFINE T == job.target
           from == job.from
<1>1. /\ T \in Nat /\ T > 0 /\ T <= LastDay /\ ranTo \in Nat /\ floor \in Int
      /\ Late \in Nat /\ LastDay \in Nat /\ from \in Nat /\ from \in Day \cup {None}
      /\ e.day \in Nat /\ e.day > 0 /\ e.arr \in Nat /\ e.end \in Nat
  BY StagedForTarget, EventType, DayAssumption DEF TypeOK, Day, None
<1>2. /\ ranTo' = (IF T > ranTo THEN T ELSE ranTo) /\ floor' = CoveredFrom(T, from)
      /\ source' = source
  BY DEF BuildPartials
<1>3. /\ e \in source /\ e.arr <= e.day + Late /\ e.end > LastDay /\ Permanent(e) /\ OnTime(e)
      /\ e.arr <= ranTo' /\ floor' <= e.day /\ e.day <= ranTo'
  BY <1>2 DEF Due, OnTime, Permanent
<1>4. e.arr > ranTo \/ floor > e.day \/ e.day > ranTo
  BY <1>1, <1>3 DEF Due
<1>5. T >= ranTo => ranTo' = T /\ Visible(e, T)
  BY <1>1, <1>2, <1>3 DEF Visible
<1>6. CASE from = None /\ ~partialsExist
  <2>1. ranTo = 0 /\ floor' = T - Late
    BY <1>2, <1>6 DEF RetryInv, EmptyAtFirst, CoveredFrom, None
  <2>2. e.day >= T - Late /\ e.day <= T
    BY <1>1, <1>3, <1>5, <2>1
  <2> QED BY <1>1, <1>5, <1>6, <2>1, <2>2 DEF Recomputes
<1>7. CASE from = None /\ partialsExist
  <2>1. floor' = floor
    BY <1>2, <1>7 DEF CoveredFrom
  <2>2. T > ranTo /\ ranTo' = T
    BY <1>1, <1>2, <1>3, <1>4, <2>1
  <2>3. e.day + Late > ranTo /\ e.day <= T
    BY <1>1, <1>3, <1>4, <2>1, <2>2
  <2>4. Recomputes(e.day, T, None)
    BY <1>1, <1>7, <2>2, <2>3, OpenDayIsRecomputed
  <2> QED BY <1>1, <1>5, <1>7, <2>2, <2>4
<1>8. CASE from # None
  <2>1. T >= ranTo
    BY <1>8, StagedForTarget DEF LayerInv, LoadsForward
  <2>2. floor' = from \/ (floor' = floor /\ from <= ranTo - Late + 1)
    BY <1>2, <1>8 DEF CoveredFrom
  <2>3. e.day >= from
    BY <1>1, <1>3, <1>4, <2>2
  <2> QED BY <1>1, <1>3, <1>5, <1>8, <2>1, <2>3 DEF Recomputes
<1> QED BY <1>6, <1>7, <1>8

LEMMA NextLosesNothing ==
    ASSUME Disciplined, TypeOK, RetryInv, LayerInv, NothingLost, [Next]_vars
    PROVE  NothingLost'
<1>1. SUFFICES ASSUME NEW e \in Event, Due(e, ranTo', floor')
               PROVE  e \in Stored'
  <2>1. source' = source /\ source \subseteq Event
    BY DEF TypeOK, Next, Work, vars, warehouse, Start, BuildStaging, BuildPartials, BuildState,
           WatermarkTest, BuildMart, MartTest, Abort
  <2> QED BY <1>1, <2>1 DEF NothingLost, Due, OnTime, Permanent
<1>2. CASE Due(e, ranTo, floor)
  <2>1. e \in Stored
    BY <1>2 DEF NothingLost, Due
  <2> QED BY <1>2, <2>1, PermanentStays DEF Due
<1>3. CASE ~Due(e, ranTo, floor)
  <2>1. BuildPartials
    BY <1>1, <1>3 DEF Due, Next, Work, vars, warehouse, Start, BuildStaging, BuildState,
                      WatermarkTest, BuildMart, MartTest, Abort
  <2>2. e \in Fresh(job.target, job.from)
    BY <1>1, <1>3, <2>1, DueIsSelected, StagedForTarget DEF Fresh
  <2>3. computedFor'[e] = job.target /\ job.target > 0
    BY <2>1, <2>2, FreshType, StagedForTarget
  <2> QED BY <2>3 DEF Stored, None
<1> QED BY <1>2, <1>3

\* No late event is lost: once a build of the partial layer for a date at or after an event's
\* arrival has completed, the layer holds the event if it came at most Late days late and is
\* on a day the layer covers, over any skipped days, retries, replays and initial loads.
THEOREM NoLateEventLost == ASSUME Disciplined PROVE Spec => []NothingLost
<1>1. Init => NothingLost
  BY EventType, EventAssumption DEF Init, NothingLost, None
<1>2. TypeOK /\ RetryInv /\ LayerInv /\ NothingLost /\ [Next]_vars => NothingLost'
  BY NextLosesNothing
<1> QED BY <1>1, <1>2, TypeCorrect, RetryInvariant, LayerInvariant, PTL DEF Spec

=============================================================================
