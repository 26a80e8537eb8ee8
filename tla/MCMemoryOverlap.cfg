SPECIFICATION Spec
CONSTANTS
  Apps = {a1}
  Coders = {}
  Starters = {s1, s2}
  Readers = {r1}
  Sizes = {1, 2}
  Capacity = 1
  NoOne = NoOne
  NoRows = NoRows
SYMMETRY StartersAlike
INVARIANTS
  NeverHidden
  ReservationHasAStart
  WaitersAreServed
