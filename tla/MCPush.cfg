SPECIFICATION Spec
CONSTANTS
  MaxPushes = 3
  MaxManual = 1
  Sources = {"facade", "github"}
  Ops = {"stuck", "restore", "crash"}
INVARIANTS OnePushDeployAtATime QueueIsPolled
PROPERTY PushIsDeployed
CHECK_DEADLOCK FALSE
