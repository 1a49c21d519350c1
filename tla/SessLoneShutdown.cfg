SPECIFICATION LoneSpec
CONSTANTS
  Timings <- MCTwoTimings
  Shutdowns = {FALSE, TRUE}
  DefaultTiming <- MCDefaultTiming
  RemoteTimings <- MCRemoteTimings
  RemoteDiscrs = {7}
  Packets <- MCNoPeer
  UserDiscr = 0
  Passive = FALSE
  Slow = 9
  RingCap = 1
  MaxLeaked = 0
  Faults = {}
PROPERTIES
  ShutdownTakesEffect
