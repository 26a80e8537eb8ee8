SPECIFICATION MariadbFairSpec
INVARIANTS
  LabelIsConfiguration
