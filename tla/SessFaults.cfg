SPECIFICATION Spec
CONSTANTS
  Timings <- MCOneTiming
  Shutdowns = {FALSE, TRUE}
  DefaultTiming <- MCDefaultTiming
  RemoteTimings <- MCRemoteTimings
  RemoteDiscrs = {7}
  Packets <- MCAnyPeer
  UserDiscr = 0
  Passive = TRUE
  Slow = 9
  RingCap = 1
  MaxLeaked = 0
  Faults = {"full", "conf", "send", "timer"}
VIEW View
INVARIANTS
  TypeOK
  DataPathCurrent
