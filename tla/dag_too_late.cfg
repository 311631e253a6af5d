SPECIFICATION DagSpec
CONSTANTS
  a = a
  b = b
  Entity = {a, b}
  Event <- LateEvents
  Sources <- LateSources
  LastDay = 5
  Late = 1
  Window = 3
  Inclusive = TRUE
  Spine = "all_time"
  Overwrite = TRUE
  Kinds = {"backfill", "build_partials", "fold_state", "build"}
  BackfillFroms = {1}
  ReplayBackfill = FALSE
  ColdStart = FALSE
  FirstDate = 2
  MaxGap = 1
  Retries = 1
  MaxFaults = 0
  MaxReruns = 0
INVARIANTS
  WindowsWithinAllTime
CHECK_DEADLOCK FALSE
