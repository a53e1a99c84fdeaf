SPECIFICATION Spec
CONSTANTS
  Types = {0, 2}
  AlarmTimes <- MCTimes
  SetAndWait <- MCWait
  Jumps <- MCJumpsBoth
  Sec = 2
  AlarmTimeout = 1
  InitWall = 4
  BadSecond = 9
  MaxTime = 4
  MaxClockSets = 1
CHECK_DEADLOCK FALSE
INVARIANTS
  TypeOK
  EnabledAlarmsAreArmed
  SleepEndsInTime
  
  NothingPendingAsleep
  WakeLockIsAccountedFor
  
PROPERTIES
  AlarmIsNotEarly
