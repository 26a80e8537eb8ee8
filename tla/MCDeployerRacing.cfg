SPECIFICATION FairSpec
CONSTANTS
  MaxRows = 2
  MaxDirs = 2
  Keep = 0
  Reqs = {r1}
  Sources = {"git", "upload"}
  Ops <- RacingOps
  Serial = FALSE
INVARIANTS
  NoOrphanedRow
PROPERTIES
  CurrentSurvivesCleanup
  NeverWedged
