SPECIFICATION Spec
CONSTANTS
  MaxRows = 3
  MaxDirs = 4
  Keep = 1
  Reqs = {r1}
  Sources = {"git", "upload"}
  Ops <- SerialOps
  Serial = TRUE
INVARIANTS
  ServesTheLiveRelease
  LiveReleaseIsCurrent
