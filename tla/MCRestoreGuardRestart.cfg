SPECIFICATION Spec
CONSTANTS
  Envs = {production, sandbox}
  Deploys = {}
  Restarts = {r1}
  Checks = {}
  NONE = NONE
INVARIANTS
  StoppedWhileRestoring
