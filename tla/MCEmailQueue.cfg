SPECIFICATION FairSpec
CONSTANTS
  MaxRows = 2
  MaxAttempts = 2
  Batch = 2
  Ticks = {t1, t2}
  MaxTries = 9
  MaxCrashes = 1
INVARIANTS
  DeadLetterAfterAllTries
  DuplicateOnlyWithReason
PROPERTIES
  IsAnOutbox
