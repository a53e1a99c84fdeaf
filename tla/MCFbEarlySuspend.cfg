\* The drawing process and one that reads both files as well.
SPECIFICATION FairSpec
CONSTANTS
  drawer = drawer
  Watchers = {w1}
  WakeReaders = {w1}
INVARIANTS
  NoDrawingWhenOff
PROPERTIES
  DrawingResumes
