SPECIFICATION MariadbFairSpec
INVARIANTS
  MariadbTypeOK
  LoadedHasKey
  KeyOutlivesData
  ServesAsConfigured
  NeverBlind
PROPERTIES
  OperationsEnd
