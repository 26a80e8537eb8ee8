SPECIFICATION Spec
CONSTANTS
  Apps = {a1, a2}
  Coders = {}
  Starters = {s1}
  Readers = {r1}
  Sizes = {1, 2}
  Capacity = 2
  NoOne = NoOne
  NoRows = NoRows
INVARIANTS
  AlwaysMeasured
