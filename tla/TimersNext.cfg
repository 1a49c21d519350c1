SPECIFICATION Spec
CONSTANTS
  t1 = t1
  t2 = t2
  t3 = t3
  Timer <- MCTimer
  Delays = {0, 1}
  MaxTime = 2
  Faults = {"next"}
CHECK_DEADLOCK FALSE
INVARIANTS
  CallbacksMayDestroy
