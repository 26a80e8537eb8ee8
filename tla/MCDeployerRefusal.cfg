SPECIFICATION Spec
CONSTANTS
  MaxRows = 2
  MaxDirs = 2
  Keep = 5
  Reqs = {r1}
  Sources = {"git"}
  Ops <- StormOps
  Serial = TRUE
INVARIANTS
  RefusalKeepsServing
