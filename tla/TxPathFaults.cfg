SPECIFICATION Spec
CONSTANTS
  d1 = d1
  d2 = d2
  Discrs <- MCDiscrs
  TxCap = 1
  GenMod = 3
  U32 = 1024
  Faults = {"conf", "send", "arm", "final"}
  MaxLost = 1
SYMMETRY Symm
INVARIANTS
  OneSpinner
  QueuedAreLive
