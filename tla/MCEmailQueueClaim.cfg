SPECIFICATION Spec
CONSTANTS
  MaxRows = 2
  MaxAttempts = 2
  Batch = 2
  Ticks = {t1, t2}
  MaxTries = 3
  MaxCrashes = 0
PROPERTIES
  NeverSentAgain
