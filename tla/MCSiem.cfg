SPECIFICATION Spec
CONSTANTS
  MaxEvents = 3
  Batch = 2
  MaxBatches = 1
  MaxEdits = 1
  MaxMoves = 1
INVARIANTS
  NothingSkipped
  NoStrayRepeat
  InOrder
