SPECIFICATION Spec
CONSTANTS
  MaxRows = 2
  MaxTime = 2
  Days = {1, 2}
  DefaultDays = 1
  Batch = 1
  MinCompact = 1
  MaxHands = 1
  MaxSets = 1
INVARIANTS
  TypeOK
  ChainIsWhole
  NoFalseAlarm
  TamperIsReported
