\* What GET_PIN_STATUS answers next to a range of no pages.
SPECIFICATION Spec
CONSTANTS
  a1 = a1
  a2 = a2
  Areas = {a1, a2}
  Sizes <- MCSizes
  Scans = {1, 2}
  r1 = r1
  r2 = r2
  r3 = r3
  Ids = {r1, r2, r3}
INVARIANT GetPinStatusIsExact
SYMMETRY Symmetry
