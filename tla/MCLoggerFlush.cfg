\* A flush between the two halves of a read.
SPECIFICATION Spec
CONSTANTS
  f1 = f1
  t1 = t1
  Size = 8
  MaxPayload = 3
  Cells = {1}
  Readers = {f1}
  Threads = {t1}
  file <- OneFile
  Writers = {w1}
  FlushAnytime = TRUE
PROPERTIES
  ReadsOldestEntry
