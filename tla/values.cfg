SPECIFICATION Spec
CONSTANTS
  Null = Null
  K = 3
  Hash <- Units
  HashMod = 16
  Rounds = TRUE
  Row <- Rows
  LastDay = 4
  Late = 1
  Inclusive = TRUE
  TimeCat <- Ascending
  Aggs <- Orderable
INVARIANTS
  ValuesExact
  SketchesExactBelowK
  NullsAsRegistered
  TestsAreGreen
CHECK_DEADLOCK FALSE
