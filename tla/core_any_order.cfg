SPECIFICATION Spec
CONSTANTS
  a = a
  b = b
  Entity = {a, b}
  Event <- SomeEvents
  Sources <- SomeSources
  LastDay = 4
  Late = 1
  Window = 2
  Inclusive = FALSE
  Spine = "all_time"
  Overwrite = FALSE
  Kinds = {"run", "build", "backfill", "reset_state"}
  BackfillFroms = {3}
  ReplayBackfill = FALSE
INVARIANTS
  TypeOK
  SealedOnce
  NoDoubleCount
  NothingLost
  HistoryKept
PROPERTIES
  PartialsOnlyGain
  BuildNeverLeaks
  RetryChangesNothing
