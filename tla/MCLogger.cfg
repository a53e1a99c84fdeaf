\* A reader, a second file that is only opened and closed, and a writer.
SPECIFICATION FairSpec
CONSTANTS
  f1 = f1
  t1 = t1
  Size = 8
  MaxPayload = 3
  Cells = {9}
  Readers = {f1, f2}
  Threads = {t1}
  file <- OneFile
  Writers = {w1}
  FlushAnytime = FALSE
INVARIANTS
  TypeOK
  NoLostWakeup
  CopyFits
PROPERTIES
  ImplementsQueues
  ReadsOldestEntry
  ReadEnds
