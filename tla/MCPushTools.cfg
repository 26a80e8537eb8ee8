SPECIFICATION Spec
CONSTANTS
  MaxPushes = 2
  MaxManual = 0
  Sources = {"tools"}
  Ops = {}
PROPERTY PushIsDeployed
CHECK_DEADLOCK FALSE
