# A TLA+ model of feature-mart

feature-mart compiles a YAML feature spec into a dbt project, and a daily DAG
runs that project: it maintains incremental tables and publishes one partition
of features per as-of date. This directory holds TLA+ modules for the generated
project and for the operations around it, TLC configurations that check them on
small instances, and TLAPS proofs.

## The system

| part | state it keeps | operations | what makes it correct |
|---|---|---|---|
| staging view (`generator/render.py`, `render_staging`) | the as-of date compiled into it | rebuilt by each run | it shows exactly the rows valid at that date |
| daily partials (`render_partials`) | one row per entity and event date, stamped `_computed_for` | incremental build, backfill from a date | only gains information; no on-time event is lost |
| sealed accumulator (`render_alltime_state`) | one row per entity, stamped `_state_as_of_date` | fold `(watermark, T - late]`, full refresh | every event folded in once, all behind the watermark |
| unsealed tail, window roll-up (`render_alltime_recent`, `render_rollup`) | views | none | complementary to the accumulator; bounded by the as-of date |
| mart (`render_mart`) | one partition per as-of date | replaced by each build of its date | equals one flat pass over the source |
| generated tests (`render_test_*`) | none | stop a `dbt build` | never red in order, always red behind the watermark |
| refreshable-window rule (`generator/revision.py`, `showcase/tools/revision_window.py`) | none | dates to refresh and to publish | exactly the provisional partitions |
| daily DAG (`feature_store_daily.py`) | runs and attempts of tasks | schedule, retry, give up | every run ends; every partition settles |
| offline store (`publish_offline_store.py`, `audit_offline_store.py`) | a Parquet object per date, the registry | publish, audit, fix, prune | never holds the future, nor an unknown spec version |
| brute-force verifier, scenarios | none | compare, exercise | the reference for a partition |
| aggregates and KMV sketches (`aggregates.py`, `fs_kmv.sql`) | none | partial, state_agg, merge, finalize | any grouping of the rows gives what one pass gives |
| spec and expansion (`spec.py`, `expand.py`, `registry.py`) | the spec files | load, validate, build_plan | what is accepted can be computed; names are unique; the registry tells the truth |
| compiler command line (`cli.py`) | the generated tree | generate, `--check` | generate heals the tree; a green check means the tree is the specs' |
| adapter macros, fixture, notebook, infrastructure | none | none | the warehouse's functions |

They interact through tables and files. A run reads the source *as of its own
date*, writes partials, accumulator and mart in that order, and each model reads
what the previous ones left, whoever left it. The DAG and the operators choose
the dates; the resolver reads the accumulator's watermark back to decide which
earlier partitions a run refreshes and publishes; the publisher copies a
partition to object storage, with the registry that the generator wrote; an
audit reads that store, and starts publishers of its own. Specs, generated files
and registry change while all of this goes on.

The hard behaviours: runs out of order, repeated, skipped or cut short between
two nodes; events that arrive late; a watermark that is global while partitions
are per date; retries and lost runs of the DAG; publishers, audits and the generator
at work at the same time, while publishers and the generator may die between two
of their steps. Runs of dbt never overlap: `max_active_runs=1`, and the local
warehouse has a single writer. What these can break is listed line by line under
`hazards` in `PROJECT.json`.

## The modules

**`FeatureStore`** is the dbt project of one feature, with an all_time feature
and possibly a bounded window. A source row is an entity, an event date, the
date it was ingested and the date it ends. A feature value is abstracted to the
events behind it: the partial layer maps an event to the `_computed_for` of the
row that counts it, the accumulator counts how *often* an event was folded in,
a partition holds its rows, the events in its widest window, and all_time. A
narrower window is a part of the widest one.

| model | code |
|---|---|
| `source`, `Visible` | the source query and its validity predicate |
| `stagedFor`, `BuildStaging` | the staging view and `_compiled_for_date` |
| `computedFor`, `partialsExist`, `BuildPartials` | the partial table, `is_incremental()`, the model's three where-clauses and the replacement of keys (delete+insert) or days (insert_overwrite) |
| `sealed`, `stateAsOf`, `BuildState` | the accumulator and its upsert |
| `UnsealedTail`, `Rollup`, `SpineOf`, `BuildMart`, `mart` | the views and the mart |
| `WatermarkTest`, `MartTest` | the watermark test and the monotonicity of the widest window |
| `job`, `Plan`, `Start`, `Abort` | one dbt invocation: the nodes of its selection in order, each of them one transaction, and its death between any two |

The kinds of invocation are the ones the repository uses: `run` and `backfill`
(Makefile), `build`, `build_partials` and `fold_state` (DAG), `reset_state` (the
remedy the watermark test prints) and `partials_only` (scenario 4). An
invocation may be started for any as-of date. `floor`, `ranTo` and `done` are
history variables for the properties. A date before the first one, NULL and
1900-01-01 are the number 0.

**`RefreshWindow`** is the refreshable-window rule as an operator.

**`DailyDag`** extends both: the initial load, the task chain of a DAG run, its
attempts, runs that the operator repeats for any date (`Rerun`), the resolver,
the refresh loop, the publisher with its gates, and the object store. `DbtStep` is a step of `FeatureStore!Work` inside the task that
started it; a failing test, a refusal of the publisher and an injected `Fault`
are failed attempts. The freshness check at the head of the chain can only fail
the run before it has done anything, as a fault in the first task does.

**`ProvisionalStore`** is the abstract specification: days go by, the partition
of a day is provisional for `Late` days, whenever it is published it equals one
flat pass over the rows ingested so far, and then it is final: published again,
it is the same. `DailyDag` implements it (`Contract`): the newest as-of date that
the partial layer was built for is its clock, the object store what it publishes,
and every other step of a run stutters.

**`Aggregates`** is the algebra that features compile to, one operator per
fragment of SQL: `Partial`, `StateAgg`, `Merge`, `Finalize`, the array macros and
the KMV sketch with its estimate. A hash is a constant function, an array the
set of its elements. The two methods of `count_distinct` are named apart.

**`FeatureValues`** puts values behind `FeatureStore`'s sets of events: the
columns of one entity in the partial layer, the roll-up, the accumulator, the
tail and the mart, for every aggregation, a condition (`guard`), two bounded
windows and all_time, a `days_since` field and averages, which the mart computes
from stored columns, and the generated tests over those values. Here rows of a
day are read in any order between the seals, without the dates of runs:
`FeatureStore` says which days a run may rewrite, this module what comes out. As in
the order of dbt's graph, a mart is built when the accumulator of its run has been.

**`SpecRules`**, **`Expansion`** and **`Compiler`** are the generator. A spec is a
record (what YAML and the parsed query yield), a name a sequence of words, since
names are joined from words. `SpecRules` has the rules by which a spec is
accepted. `Expansion` is the cross product of fields, aggregations, conditions
and windows, the stored columns behind it, their names and the namer.
`Compiler` has the state: spec files, generated files (each holds the spec it
was rendered from), and a `generate` that writes them one at a time and may die
in between. Files that are always generated together are one file.

**`OfflineStore`** extends `Compiler` with the life of one published feature:

| model | code |
|---|---|
| `rows`, `Recomputed`, `Rebuilds`, `mart`, `RunMart` | each day of the partial layer by the version and the date it was computed for, the days a run recomputes, the drop of all tables in a full rebuild, the partitions by their stamp and whether they leak |
| `Publishable`, `CopyPartition`, `Verify`, `CopyRegistry` | `publish_offline_store.py`: gates, replacement of the object, the check of what was read back, second reading and copy of the registry |
| `StartAudit`, `FindStale`, `Republish`, `Prune`, `GiveUp`, `EndAudit` | `audit_offline_store.py`: the two queries, one repair at a time, the exit code |
| `pub`, `PublisherDies` | two processes, the DAG's publisher and the audit's child, and their death |

`MCFeatureStore`, `MCDailyDag`, `MCFeatureValues` and `MCOfflineStore` give the
events, rows and specs of the instances. Operators marked *Mutant* are wrong
versions of the definition below them; no specification uses them. Each says how
one property would be broken.

## The runs

| run | question | result |
|---|---|---|
| `core_any_order` | do the layers stay consistent under `run`, `build`, `backfill` and `reset_state`, for four dates in every order, repeated and cut short? | 8 properties hold, 1.4 million states |
| `daily_dag` | does the DAG, after an initial load, with one retry per task, settle every partition in warehouse and store, and implement `ProvisionalStore`, also when a run is repeated? | 8 properties hold, 44 thousand states |
| `values` | is every feature, however its rows were grouped, rewritten, sealed and merged, what one pass gives? | 4 properties hold, 4 thousand states |
| `offline_store` | do specs, generated files, publications and audits keep the store clean while they interleave and die? | 6 properties hold, 523 thousand states |
| `core_backfill_replay` | do stored partials only gain information when a backfill is for an earlier date? | violated |
| `dag_cold_start` | does the monotonicity test stay green without an initial load? | violated |
| `dag_too_late` | can windows and all_time drift apart? | violated: an event `late + 1` days late |
| `dag_missed_day` | does every partition settle when a day is missed? | violated |
| `values_window_order` | may `time_cat` list the windows in descending order? | violated |
| `compiler_staging` | does the partial model of an accepted spec find every column in the staging view? | violated: an entity or a condition over a column that moves |
| `store_stamp` | does the stamp of a row tell which spec produced it? | violated |
| `audit_prune` | does `--prune` delete only what the warehouse cannot reproduce? | violated: without `--fix` |

What the passing runs say:

* `SealedOnce`, `NoDoubleCount`: all_time never counts an event twice.
* `PartialsOnlyGain`, `NothingLost`: the monotonicity guard and the anchor of
  the rewrite window keep every on-time event, across gaps and replays. A row
  that the *source* ends may disappear when its day is recomputed.
* `HistoryKept`: nothing published is ever beyond the reach of the accumulator
  and the tail, also after resets and for dormant entities.
* `BuildNeverLeaks`: a `dbt build` changes no partition behind the watermark. (A
  plain `dbt run`, which runs no test, does; `PublishedOnlyGrows` covers the
  publisher's gate.)
* `RetryChangesNothing`: repeating the invocation that succeeded last is the
  identity, node by node. The first build of an empty table is left aside: it
  reads `late` days, but its repeat finds an incremental, empty table and reads
  all history.
* `SettlesExactly`: between runs every partition of the mart and of the store
  equals `BruteForce`, a transcription of the verifier, unless the run that was
  due to revise it was lost. A manual run of the newest date makes up for a lost
  one, as the DAG's documentation says; one of an earlier date takes nothing
  back, though it may fail half way or be refused behind the watermark.
* `OnlyRepeatsAreRefused`: the watermark test stops no scheduled run, although a
  refresh reads the watermark before it builds and another refresh may move it;
  it may stop one that the operator repeats.
* `WindowsWithinAllTime`: what a partition counts in a window it counts in
  all_time, which is more than the generated monotonicity test can see.
  `PublishedOnlyGrows`: no publication takes back what an earlier one of its date
  counted, in the widest window or in all_time, unless the source has ended the row.
* `RunsEnd`, `LateEventsArrive`: a run ends also when a date has nothing to
  publish; if no run is lost for good every on-time event is finally in the
  published partition of its own day.
* `ImplementsContract`: the DAG, its retries and its failures are a
  `ProvisionalStore`. Where `SettlesExactly` looks at the store between runs, the
  refinement says of every single publication that it is exact at its moment,
  and that a final partition is left alone.
* `ValuesExact`: every published feature equals `FlatPass`, a definition that
  knows no days, states or merges; `SketchesExactBelowK`: a sketch that has not
  overflowed is the count, in any grouping.
* `NullsAsRegistered`: a feature that the registry declares not nullable has a
  value, also for an entity in the accumulator alone and for a condition never
  met. `TestsAreGreen`: non-negativity, coherence and monotonicity never reject a
  right partition, for every aggregation that has a direction. An average has none,
  but the generated test expects it to fall as its window widens (`render.py:850`
  lists what grows, and line 864 takes the rest to fall), so that it may stop the
  build of a right partition. Values are non-negative here, since a sum of negative
  amounts does not grow either.
* `GreenMeansGenerated`: if `--check` is green, every generated file is what its
  spec gives, and no model is left of a spec that is gone. Tests and registry
  files of a spec that is gone are not found; the property says so.
  `GenerateHeals`: a `generate` that goes through repairs what edits and an
  earlier, cut short one have left.
* `AggregatesAreStaged`: of what validation lets pass, the timestamp and the columns
  that the partial layer aggregates are in the staging view. Left aside is a column
  that is itself the name of a field declared as derived. Of entities and of the
  columns that conditions read it is not so: validation looks for `target_date` in
  the text of a predicate only, and staging drops the column (`compiler_staging`).
* `CleanAuditIsClean`: exit code 0 means a clean store, although a refused
  publication has already replaced its object, although publishers die, and
  although an audit repairs from lists it made at its start; provided that the
  DAG does not publish and the registry is not generated anew meanwhile
  (`quiet`). Without this the code does not promise it, nor does any document. The
  property is about the copies; the audit never reads `_registry.json`.
* `PrunesOnlyViolations`: such an audit deletes no copy that is in order, though its
  list of suspects is older, and an audit with `--fix`, disturbed or not, none that
  the warehouse had when it looked. What the documentation says is more: that only
  what the warehouse cannot reproduce is deleted. This is `PrunesOnlyTheLost`, and it
  fails: without `--fix` at once (`audit_prune`), with it when dbt builds meanwhile.
* `RegistryTravels`: when a publisher ends well, the copy of its date is of the
  version it was checked against, whatever a second publisher or the generator did
  in between; and if the registry file is still the one of that check, it is what
  lies next to the copies. If it was generated anew, a registry of another version
  is copied there.

The eight violations are disagreements between code and what its comments or the
documentation say; `findings` in `PROJECT.json` quotes both sides. They are
different in weight.

* Defects: replayed backfills (a guarantee whose comment names backfills first),
  the order of the windows (wrong values for an accepted spec), and `--prune`, which
  deletes more than it says.
* A rule that is narrower than its words: a condition, or an entity, that moves with
  the as-of date by way of a column is accepted; the compiled project then cannot be
  built.
* Limits: the missed day (the layers heal, an already published partition does not)
  and the stamp (a partial change of the spec needs a full rebuild, which nothing
  enforces).
* Configurations that the documentation discourages or never promises: a start
  without history, and events outside the lateness contract.

Further disagreements were met while modelling and have no run of their own. They
are why the properties above have the exceptions they have, and stand with their
lines in the hazards' notes: fields that expand to one name share a column
(`expand.py:202-264`); the drift check does not find the tests and the registry of a
spec that is gone (`cli.py:92-98`); the direction of averages (`render.py:864`); and
the registry that is generated anew between the check of a publication and the
copy (`publish_offline_store.py:102`). One more is in no hazard: the all_time spine
leaves the unsealed tail out (`render.py:526`), so in a spec without a bounded window
an entity all of whose events are unsealed has no row.

### Bounds

`core_any_order`: two entities, four dates, `Late` 1, a trailing window of two
days, delete+insert, all_time spine, initial loads from day 3, three sources of
two events: on time and late of one entity, late and ended on one day (one key),
late of one entity and on time of another. Four dates with one late day allow a
gap, a replay behind the watermark and a reset in between; three events would
raise the count of states to several millions without a new pairing. An initial
load from day 3 may come after runs for earlier dates, and give up the day between
them and itself: `CoveredFrom` says from which day on the layer is complete, and
`NothingLost` asks for the events from then on.
`daily_dag`: six dates, `Late` 2, inclusive window of three days,
insert_overwrite, active_window spine, initial load on day 3, six sources made of
one event of history and none, one or all of four others, one retry and up to two
failures, so that a run may be lost or two tasks retried, and one repeated run
(`MaxReruns`), which can make up for the lost one, serve a provisional or a final
date, or fail. With three failures and all 16 subsets of the four events the run
takes several times as long.

`values`: six rows on four days, with a value that repeats, a NULL, and four
different values against sketches of `K` = 3 hashes, so that exact and
overflowing sketches both occur (real specs have at least 16). Averages are
integers in units of 1 / `Scale`, exact for up to four rows and cut off in the
same way on both sides for five. Rows of a day that is sealed do not arrive: in the
code they would rewrite the day in the partial layer, which is what `dag_too_late`
is about, so `BuildPartials` takes the lateness contract for granted here.
`offline_store`: two spec files, four versions, of which one is rejected and two
go into one file; the start is one spec; two troubles (`MaxTroubles`: edits and
deaths together), so that a death can follow an edit or another death;
two dates, of which dbt is run for the second, while the first has a leaking
copy from before that the warehouse does not know: an audit meets a suspect of
either kind. `MaxWords` stands for the limit on identifiers.
The other runs of that module are as small as their question allows:
`compiler_staging` adds two specs, and `audit_prune` has one date, one version and no
troubles; `store_stamp` has one trouble. The violations of the other modules have the
instance of the passing run they belong to, or a smaller one, and drop the one
assumption that their question is about: `ReplayBackfill`, `ColdStart`, events in
the lateness contract, `MaxGap`, the order of `TimeCat`.

Two reductions: dbt, publications and audits do not start while a `generate` is
writing (`BetweenGenerates`). Of the tree, publications and audits read the
registry only, before or after it is written, so nothing is lost. dbt may in the
code meet a tree that is half written, or left so by a `generate` that died; what
it makes of models of two versions is not modelled (`Deployed` asks for one). And
while a publisher holds its connection dbt does not
run (`NoReader`), which is DuckDB's rule of one writer or many readers, the
warehouse the repository runs on. `RebuildOnChange` is an assumption on the
operators: after a change of the spec they rebuild in full. `offline_store` makes
it, and a rebuild then drops all tables, the other partitions of the mart with
them; `store_stamp` shows what happens without. There are events on every day, and
the published feature has `late_arrival_days` 0; lateness is the matter of the other
modules.

`LastDay` and `LastDate` bound the calendar, `MaxFaults` the failures, `MaxGap`
the days between two runs. Deadlock is not checked where the model stops at such
a bound: in the DAG's runs, `values` and those of `OfflineStore`.

### Fairness

`FairDagSpec` has weak fairness of the steps of a run (`Progress`) and of the
scheduler. Airflow's executor and scheduler do keep working, and no two of these
steps compete. Failures and repeated runs have no fairness. No property needs
fairness for a test or a publication to succeed: attempts are bounded by `Retries`.

## The proofs

The theorems hold for every set of events, entities, calendar, lateness, window,
spine and adapter, and for any number of retries, failures and repeated runs,
from the named assumptions on the constants. Where a theorem has a hypothesis of
its own, one of the runs with a violation shows that it cannot be dropped, or it
is said here what goes wrong without it.

`FeatureStore_proofs`, for every set of kinds of invocations:

* `TypeCorrect`: `TypeOK`, which is inductive. The only delicate part is that an
  accumulator's stamp `T - late` is a date: there is an event at or before it.
* `AccumulatorSealsOnce`: `SealedOnce`, inductive with `TypeOK`. That an event is
  held once does not follow by itself; that the watermark covers what is held
  has to go with it. Then what a build folds in was not held, its stamp covers
  it, and stamps only advance (`WatermarkOnlyAdvances`) unless all is rebuilt.
* `MartCountsOnce`: `NoDoubleCount`, since what is in the tail is past the
  watermark and so not held.
* `BuildPublishesNoFuture`: `BuildNeverLeaks`. The strengthening `BuildIsTested`
  says what a `build` may have left to do, and that with only the mart and its
  tests left the watermark is not ahead of its date; with `SealedOnce` this
  bounds all that the partition holds.
* `RetriesAreIdempotent`: `RetryChangesNothing`. A node is `Settled` when running
  it again would change nothing. Each node settles itself and unsettles none
  that came before it in any plan (`PlanOrder`); so `DoneIsSettled` is
  inductive: everything that the invocation done last has built stays settled
  until another one starts.

and under `Disciplined`: no backfill is replayed for a date behind an earlier run
(`core_backfill_replay` is what happens otherwise) and the partial layer is built
together with its staging view:

* `LayerOnlyGains`: `PartialsOnlyGain`. What is stored has arrived by the date it
  was computed for (`StoredHasArrived`), no fresher row is recomputed, and so a
  recomputed day is seen in full unless the source has ended a row of it.
* `PublishedHistoryIsKept`: `HistoryKept`, by `SourceOfHistory`: the layer still
  holds all that the accumulator or a partition counts, dormant entities included.
* `NoLateEventLost`: `NothingLost`. The argument is the anchor of the rewrite
  window: a day that is not recomputed was out of reach already at the newest
  earlier run.

`DailyDag_proofs`, which fixes the kinds of invocations to those of the DAG and of
the initial load before it (`DagAssumption`):

* `DagTypeCorrect`: `DagTypeOK`. Each date of a refresh is a date of the calendar.
* `DagRunsTheProject`: every behaviour of the DAG is one of `FeatureStore`, step by
  step, so that the theorems above are theorems about the DAG.

`DailyDag_contract_proofs`:

* `ScheduledRunsAreNeverRefused`: `OnlyRepeatsAreRefused`. `WorkOfRun` says whose
  work is in flight, how far the layer has got (`LayerOfRun`), that nothing is
  sealed beyond `ranTo - late`, and that no date which a refresh has still to
  serve falls behind the watermark, though refreshes seal too.
* `WindowsAreWithinAllTime`: `WindowsWithinAllTime`, with `FullLoad` (the initial
  load begins with the oldest row; see `dag_cold_start`) and `InContract` (rows
  are on time and stay; see `dag_too_late`). `SharedOut` is the heart: what is
  stored is either sealed or past the watermark.
* `DagImplementsContract`: `ImplementsContract`, with `WindowSpine` in addition
  (the all_time spine leaves out the unsealed tail). `MartFromLayer` says what the rows of a partition are,
  `Revised` that a run has made exact all it has dealt with, and that everything
  it is about to publish is.

`DailyDag_store_proofs`, with the same hypotheses:

* `PublicationsOnlyGrow`: `PublishedOnlyGrows`. A copy in the store is the flat
  pass over what had arrived on some day gone by, and such passes grow.
* `FinalPartitionsStay`: once a date is final its partition changes at most once
  more, to the pass over all that came in time, whatever runs are repeated. It
  follows from the refinement and is what a consumer of old partitions reads there.
* `PartitionsSettle`: `SettlesExactly`, when no day is skipped (`NoGap`; see
  `dag_missed_day`). `AllSettled` is inductive with all the above: a partition
  that is not open equals the pass it owes, days the layer was not built for
  are those of lost runs, and behind the publisher the store has what the mart
  has. TLC agrees that it is an invariant of `daily_dag`.

`OfflineStore_proofs` holds for every set of specs and files, calendar, residue
and number of troubles, from `OfflineAssumption`. Nothing depends on what a spec
generates; of the generator only that the registry may change at any moment.

* `AuditsCleanTheStore`: `CleanAuditIsClean`; `AuditsPruneViolations`:
  `PrunesOnlyViolations`; `RegistriesTravel`: `RegistryTravels`.
* None of them is inductive. `Inv` adds to the types what publishers rely on
  (`PublishersCopyTheMart`: nobody can build a partition anew while it is being
  published, so the copy is the mart's, or pruned, and past its check of the
  version in the registry read), what an audit knows (`AuditKnows`: all that
  violates a contract is still on its list, or it has counted a failure, and all
  on its list but the one in repair does violate one), and that its child is at
  work only during a repair (`ChildOfAudit`) and on a copy that does not leak
  (`ChildIsRight`). TLC agrees that `Inv` is an invariant of `offline_store`.

`Compiler_proofs` holds for every set of specs and spec files, any edits of
either side and any number of deaths, from `CompilerAssumption`:

* `AcceptedSpecsAreStaged`: `AggregatesAreStaged`, from the rules on columns
  (`StoredIsTimeInvariant`), which validation and rendering read alike.
* `StagingIsComplete`: `PartialsFindTheirColumns`, for specs with `StaysPut`: no
  entity and no column of a condition moves with the as-of date, and no derived
  field is itself used. This is what validation would have to ask for in addition.
* `GreenChecksAreRight`: `GreenMeansGenerated`. A path for which
  nothing is planned is wanted by no spec (`PlannedPaths`); for any other path
  the last spec that gives it (`WantedFile`) is among those the check compares
  the file with, so two specs that disagree leave it red.
* `GenerateHealsTheTree`: `GenerateHeals`, which is not inductive. As long as
  nobody interferes (`GenerateOnTrack`), what is left to write is a rest of the
  plan, and each path has what the last file before that rest gives it; TLC
  agrees. At the end that is the last file of the whole plan (`LastWritten`).
* The lemmas below them are about the plan: flattening is appending
  (`FlattenedRows`) and a finite set of numbers can be put in order
  (`AscendingOrder`). Both go by a least counterexample (`LeastNat`, from the
  library's `WFMin`), where an induction principle could not be instantiated.

`OfflineStore_proofs` repeats them for the whole system: `GeneratorStaysRight`,
since publishers and audits read generated files and write none.

`Aggregates_proofs` is the algebra, for every hash, k and rounding of the engine,
from `KmvAssumption` and `NullAssumption`. `Stands` says what a state is the state
of: a quantity over a set of rows.

* `PartialStands`, `StateAggStands`, `MergeStands`: a partial row stands for the
  rows of its group, `state_agg` of many states and `merge` of two for all the
  rows of theirs, if these are disjoint; a state may be NULL and the rows none.
  `Finalized`: what becomes of it is their `Value`.
* `SketchOfUnion`: a union of sketches cut to k hashes is the sketch of the union,
  since a hash among the k smallest of the whole is among those of its part, and
  what lies between them and the whole has the same k smallest (`SmallestOfPart`).
* `EstimateGrows`: values that are added never lower the estimate, not even where
  a sketch fills up and the estimator takes over, in either rounding: a k-th hash
  is below the modulus, so (k - 1) / m_k is at least k - 1.
* A fold over a set has no induction to lean on here. What `Total` is follows from
  its only possible values (`TotalIs`), and facts about it, about extremes and
  about the sizes of sketches from a smallest set without them (`MinimalSet`).

`FeatureValues_proofs`, for every set of rows, calendar, lateness, window
convention, aggregations and list of windows, under `WidestLast`: the bounded
window that the spec names last is the widest (`values_window_order` shows what
happens otherwise):

* `ValuesAreExact`: `ValuesExact`, which needs `StateInv`: the entity has a partial
  row of a day if it has rows then and it is theirs (`LayerIsRight`), and its
  accumulator's row is that of its rows up to the watermark (`SealIsRight`). A roll-up
  then folds days that share no row (`WindowJoined`), and accumulator and tail
  meet at the watermark (`AllTimeJoined`). TLC agrees that `ValuesInv`, all of it,
  is an invariant of `values`.
* `RegistryTellsTheTruth`: `NullsAsRegistered`, since only extremes and averages
  over no row have no value.
* `SketchesAreExactBelowK`: `SketchesExactBelowK`, with `HashesDiffer`: the values
  have different hashes. Two that collide are counted once, whatever k is.
* `GeneratedTestsAreGreen`: `TestsAreGreen`, with `AmountsNotNegative`: a refund
  can make the sum of a wider window the smaller one. Each test compares a set of
  rows with a part of it, and so does each lemma.

Only model-checked: the liveness properties (`RunsEnd`, `LateEventsArrive`), which
are out of the prover's reach. Every other property of a passing run is a theorem.

## The plan

1. Done: `FeatureStore`, `RefreshWindow`, `DailyDag`, and four theorems.
2. Done: `Aggregates` and `FeatureValues`; `SpecRules`, `Expansion`, `Compiler`;
   `OfflineStore` with three theorems; `ProvisionalStore` and its refinement by
   `DailyDag`; repeated runs in `DailyDag`.
3. Done: theorems for every safety property of the passing runs, the DAG's
   refinement of `ProvisionalStore` among them.
4. Theorems still to come: of `Expansion`, for which names of fields and windows
   no two features of a spec can be given one name (`expand.py:202-264` shares columns by name).
5. `FeatureStore` with `partials_only` and with the empty first build.

## Not modelled

The reading of YAML and SQL and the rendering of SQL are text: the modules start
from the record a spec parses to, and have what the rendered SQL does. The
adapters' dialects are the warehouse's. `explain` and `validate` write nothing.
The freshness check can only fail a run that has done nothing yet. The DAG's
task groups of several features share no table; one is modelled. The fixture
generator, the sketch-accuracy tool, the notebook, its builder and the
infrastructure hold no state of the feature store; the end-to-end scenarios are
sequences of invocations that `FeatureStore` reaches. The child of an audit gets
neither its `--bucket` nor its `--db`: one bucket and one warehouse are modelled,
and the difference cannot be seen.
