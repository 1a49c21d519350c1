SPECIFICATION FairSpec
CONSTANTS
  p1 = p1
  p2 = p2
  Programs = {"d", "br"}
  Peers <- MCPeers
  Scripts <- MCScripts
  MaxSays <- MCMaxSays
  TxCap = 2
  Topics = {"jrpc", "debug"}
  Faults = {"start", "mem", "flush"}
CHECK_DEADLOCK FALSE
INVARIANTS
  ActiveExact
  OutputIsWatched
  OthersAreLeftAlone
  Unwound
  SuccessIsEarned
PROPERTIES
  DoneGoes
  QuitEnds
  ReachesSilence
