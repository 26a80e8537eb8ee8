SPECIFICATION Spec
CONSTANTS
  MaxPushes = 1
  MaxManual = 1
  Sources = {"github"}
  Ops = {"crash"}
PROPERTY QueuedPushIsDeployed
CHECK_DEADLOCK FALSE
