SPECIFICATION FairDagSpec
CONSTANTS
  a = a
  b = b
  Entity = {a, b}
  Event <- PlainEvents
  Sources <- PlainSources
  LastDay = 6
  Late = 2
  Window = 3
  Inclusive = TRUE
  Spine = "active_window"
  Overwrite = TRUE
  Kinds = {"backfill", "build_partials", "fold_state", "build"}
  BackfillFroms = {1}
  ReplayBackfill = FALSE
  ColdStart = FALSE
  FirstDate = 3
  MaxGap = 1
  Retries = 1
  MaxFaults = 2
  MaxReruns = 1
INVARIANTS
  DagTypeOK
  SettlesExactly
  OnlyRepeatsAreRefused
  WindowsWithinAllTime
PROPERTIES
  PublishedOnlyGrows
  RunsEnd
  LateEventsArrive
  ImplementsContract
CHECK_DEADLOCK FALSE
