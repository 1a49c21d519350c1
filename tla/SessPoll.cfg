SPECIFICATION PeerSpec
CONSTANTS
  Timings <- MCTimingsApart
  Shutdowns = {FALSE}
  DefaultTiming <- MCDefaultTiming
  RemoteTimings <- MCRemoteTimings
  RemoteDiscrs = {7}
  Packets <- MCPeer
  UserDiscr = 0
  Passive = FALSE
  Slow = 9
  RingCap = 1
  MaxLeaked = 0
  Faults = {"full"}
PROPERTIES
  EffHeldDuringPoll
  Settles
