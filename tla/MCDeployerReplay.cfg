SPECIFICATION Spec
CONSTANTS
  MaxRows = 4
  MaxDirs = 4
  Keep = 5
  Reqs = {r1}
  Sources = {"upload"}
  Ops <- ReplayOps
  Serial = TRUE
PROPERTIES
  RedeployReplaysCurrent
