SPECIFICATION FairSpec
CONSTANTS
  Reqs = {1, 2}
  MaxJobs = 5
  MaxPlans = 1
  MaxAsks = 2
  MaxCrashes = 1
INVARIANTS
  TypeOK
  InWorkIsWorkedOn
  RejectIsFinal
  MergedWasBuilt
PROPERTIES
  JobsSettle
