SPECIFICATION Spec
CONSTANTS
  Null = Null
  K = 3
  Hash <- Units
  HashMod = 16
  Rounds = TRUE
  Row <- Rows
  LastDay = 4
  Late = 1
  Inclusive = TRUE
  TimeCat <- Descending
  Aggs <- Orderable
INVARIANTS
  ValuesExact
CHECK_DEADLOCK FALSE
