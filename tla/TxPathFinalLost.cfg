SPECIFICATION Spec
CONSTANTS
  d1 = d1
  d2 = d2
  Discrs <- MCOneDiscr
  TxCap = 0
  GenMod = 3
  U32 = 1024
  Faults = {"final"}
  MaxLost = 1
INVARIANTS
  SentCoversReleased
