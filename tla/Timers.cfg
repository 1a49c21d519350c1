SPECIFICATION FairSpec
CONSTANTS
  t1 = t1
  t2 = t2
  t3 = t3
  Timer <- MCTimer
  Delays = {0, 1}
  MaxTime = 2
  Faults = {"rearm", "callback"}
CHECK_DEADLOCK FALSE
INVARIANTS
  ArmedForHead
  WalkIsSafe
  RungAreFreed
PROPERTIES
  RingsOnce
  EventuallyRings
