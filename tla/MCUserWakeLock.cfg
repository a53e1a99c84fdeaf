\* Four names; time-outs around the multiples of a jiffy and the longest
\* one that fits a long.
SPECIFICATION Spec
CONSTANTS
  Names <- MCNames
  Timeouts = {0, 1, 3, 4, 21}
  U64Bits = 8
  LongBits = 4
  NsecPerJiffy = 3
INVARIANTS
  EachNameItsOwnLock
  TimeoutIsRoundedUp
