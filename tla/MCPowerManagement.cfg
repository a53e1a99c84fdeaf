\* A lock of a driver, one of user space and the two of power management
\* itself; two early suspend handlers.
SPECIFICATION FairSpec
CONSTANTS
  main_wake_lock = main
  unknown_wakeup = unknown
  h1 = h1
  h2 = h2
  SuspendLocks = {main, unknown, k1, u1}
  IdleLocks = {}
  UserLocks = {u1}
  MaxTimeout = 2
  UnknownTimeout = 1
  Handlers = {h1, h2}
  level <- MCLevels
INVARIANTS
  TypeOK
  NoSleepWithWakeLock
  MainLockFollowsRequest
  SleepOnlyWhenRequested
  HandlersFollowState
  HandlersInLevelOrder
  NoLostSuspend
  TimerCoversTimeouts
  PreventingIsExact
PROPERTIES
  EventuallySleeps
  RequestTakesEffect
