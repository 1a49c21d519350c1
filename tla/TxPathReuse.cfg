SPECIFICATION Spec
CONSTANTS
  d1 = d1
  d2 = d2
  Discrs <- MCOneDiscr
  TxCap = 0
  GenMod = 8
  U32 = 1024
  Faults = {"reuse"}
  MaxLost = 0
INVARIANTS
  DeletedSpinnersDie
