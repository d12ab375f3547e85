SPECIFICATION UsersSpec

CONSTANTS
  Timers <- Two
  Size = 2
  Levels = 3
  Timeouts = {1, 2, 3, 5, 8, 9}
  MaxJump = 3
  MaxTime = 9
  Keys = {"k"}
  MaxKeys = 2
  FreeAfter = {1, 3}
  Interval = 3
  Uses <- Apart

INVARIANTS
  NoneFreedWhileRunning
  CallsOnTime
  OwnersAgree
  Throttles

PROPERTIES
  StopsForGood

\* The clock stops at MaxTime.
CHECK_DEADLOCK FALSE
