\* Two user tasks and a kernel thread.
SPECIFICATION FairSpec
CONSTANTS
  UserTasks = {u1, u2}
  KernelThreads = {k1}
INVARIANTS
  TypeOK
  NobodyLeftFrozen
  NobodyRunsWhenDone
PROPERTIES
  ThawedTasksRun
  FreezingSucceeds
