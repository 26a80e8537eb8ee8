SPECIFICATION Spec
CONSTANTS
  MaxRows = 2
  MaxDirs = 2
  Keep = 5
  Reqs = {r1, r2}
  Sources = {"git"}
  Ops <- StormOps
  Serial = FALSE
INVARIANTS
  OneDeployAtATime
