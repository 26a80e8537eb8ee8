SPECIFICATION Spec
CONSTANTS
  Apps = {a1}
  Coders = {c1}
  Starters = {s1, s2}
  Readers = {}
  Sizes = {1, 2}
  Capacity = 2
  NoOne = NoOne
  NoRows = NoRows
SYMMETRY StartersAlike
INVARIANTS
  NoOvercommit
