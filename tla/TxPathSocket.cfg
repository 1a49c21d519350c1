SPECIFICATION FairSpec
CONSTANTS
  d1 = d1
  d2 = d2
  Discrs <- MCDiscrs
  TxCap = 0
  GenMod = 3
  U32 = 1024
  Faults = {"send"}
  MaxLost = 0
INVARIANTS
  TypeOK
  OneSpinner
  PinnedExact
  QueuedAreLive
  PendingIsArmed
PROPERTIES
  QueueDrains
