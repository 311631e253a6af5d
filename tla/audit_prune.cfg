SPECIFICATION Spec
CONSTANTS
  v1 = v1
  v2 = v2
  v3 = v3
  bad = bad
  recent = recent
  cohort = cohort
  NoFile = NoFile
  NoPart = NoPart
  Edited = Edited
  File = {1, 2}
  Version = {v1}
  SpecOf <- SpecNamed
  FirstSpecs <- StartSpecs
  Written <- Unchanged
  Touched <- Unchanged
  MaxWords = 6
  MaxTroubles = 0
  Published = "logins"
  LastDate = 1
  Scheduled = {1}
  Residues <- Residue
  RebuildOnChange = TRUE
PROPERTY PrunesOnlyTheLost
CHECK_DEADLOCK FALSE
