SPECIFICATION FairSpec
CONSTANTS
  Types = {1, 2}
  AlarmTimes <- MCTimesLive
  SetAndWait <- MCWait
  Jumps <- MCJumps
  Sec = 2
  AlarmTimeout = 1
  InitWall = 4
  BadSecond = 9
  MaxTime = 5
  MaxClockSets = 0
CHECK_DEADLOCK FALSE
PROPERTIES
  AlarmGoesOff
  AlarmIsDelivered
