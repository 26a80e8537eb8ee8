SPECIFICATION Spec
CONSTANTS
  MaxRows = 3
  MaxDirs = 3
  Keep = 5
  Reqs = {r1}
  Sources = {"git"}
  Ops <- RollbackOps
  Serial = TRUE
INVARIANTS
  CurrentIsWhatServes
