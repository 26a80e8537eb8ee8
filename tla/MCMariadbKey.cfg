SPECIFICATION MariadbFairSpec
INVARIANTS
  KeyAlwaysOutlivesData
