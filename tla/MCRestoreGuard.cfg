SPECIFICATION FairSpec
CONSTANTS
  Envs = {production, sandbox}
  Deploys = {d1}
  Restarts = {r1}
  Checks = {h1}
  NONE = NONE
INVARIANTS
  DeploysExcluded
  DeploysLeaveItStopped
PROPERTIES
  NothingLeftStopped
  LockIsReleased
