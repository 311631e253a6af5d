SPECIFICATION Spec
CONSTANTS
  v1 = v1
  v2 = v2
  v3 = v3
  bad = bad
  recent = recent
  cohort = cohort
  NoFile = NoFile
  NoPart = NoPart
  Edited = Edited
  File = {1, 2}
  Version = {v1, v2, v3, bad}
  SpecOf <- SpecNamed
  FirstSpecs <- StartSpecs
  Written <- Changes
  Touched <- TouchedPaths
  MaxWords = 6
  MaxTroubles = 2
  Published = "logins"
  LastDate = 2
  Scheduled = {2}
  Residues <- Residue
  RebuildOnChange = TRUE
INVARIANTS
  GreenMeansGenerated
  GenerateHeals
  AggregatesAreStaged
  CleanAuditIsClean
PROPERTIES
  RegistryTravels
  PrunesOnlyViolations
CHECK_DEADLOCK FALSE
