SPECIFICATION Spec
CONSTANTS
  Timings <- MCTwoTimings
  Shutdowns = {FALSE, TRUE}
  DefaultTiming <- MCDefaultTiming
  RemoteTimings <- MCRemoteTimings
  RemoteDiscrs = {7}
  Packets <- MCPeer
  UserDiscr = 0
  Passive = FALSE
  Slow = 9
  RingCap = 2
  MaxLeaked = 1
  Faults = {}
CHECK_DEADLOCK FALSE
VIEW ViewTold
INVARIANTS
  DataPathCurrent
  Guarded
  HoldIsQuiet
PROPERTIES
  ToldUnlessQueued
  ShutdownIsAnnounced
