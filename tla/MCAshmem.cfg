SPECIFICATION Spec
CONSTANTS
  a1 = a1
  a2 = a2
  Areas = {a1, a2}
  Sizes <- MCSizes
  Scans = {1, 2}
  r1 = r1
  r2 = r2
  r3 = r3
  Ids = {r1, r2, r3}
INVARIANTS
  TypeOK
  RangesAreDisjoint
  LruIsExact
PROPERTIES
  ImplementsPages
SYMMETRY Symmetry
