SPECIFICATION Spec
CONSTANTS
  v1 = v1
  v2 = v2
  v3 = v3
  bad = bad
  recent = recent
  cohort = cohort
  NoFile = NoFile
  NoPart = NoPart
  Edited = Edited
  File = {1, 2}
  Version = {v1, recent, cohort}
  SpecOf <- SpecNamed
  FirstSpecs <- StartSpecs
  Written <- NewMoving
  Touched <- TouchedPaths
  MaxWords = 6
  MaxTroubles = 1
  Published = "logins"
  LastDate = 1
  Scheduled = {}
  Residues <- EmptyStore
  RebuildOnChange = TRUE
INVARIANT PartialsFindTheirColumns
CHECK_DEADLOCK FALSE
