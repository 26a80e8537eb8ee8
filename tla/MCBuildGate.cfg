SPECIFICATION GateFairSpec
CONSTANTS
  Builds = {b1, b2}
  Prunes = {p1, p2, p3}
  Callers = {c1, c2, c3}
  Keys = {k1, k2}
  NONE = NONE
INVARIANTS
  NoBuildBesidePrune
PROPERTIES
  NeverJoinsStartedPrune
  IsALease
