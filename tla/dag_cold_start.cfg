SPECIFICATION DagSpec
CONSTANTS
  a = a
  b = b
  Entity = {a, b}
  Event <- LongEvents
  Sources <- LongSources
  LastDay = 5
  Late = 1
  Window = 3
  Inclusive = TRUE
  Spine = "active_window"
  Overwrite = TRUE
  Kinds = {"backfill", "build_partials", "fold_state", "build"}
  BackfillFroms = {1}
  ReplayBackfill = FALSE
  ColdStart = TRUE
  FirstDate = 3
  MaxGap = 1
  Retries = 1
  MaxFaults = 0
  MaxReruns = 0
INVARIANTS
  MonotonicityTestStaysGreen
CHECK_DEADLOCK FALSE
