SPECIFICATION FairSpec
CONSTANTS
  MaxEvents = 2
  Batch = 2
  MaxBatches = 1
  MaxEdits = 1
  MaxMoves = 1
PROPERTIES
  EventsAreDelivered
