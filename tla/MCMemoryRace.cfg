SPECIFICATION Spec
CONSTANTS
  Apps = {a1, a2}
  Coders = {}
  Starters = {s1, s2}
  Readers = {}
  Sizes = {1, 2}
  Capacity = 2
  NoOne = NoOne
  NoRows = NoRows
INVARIANTS
  NeverOvercommitted
