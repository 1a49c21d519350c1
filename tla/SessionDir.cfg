CONSTANTS
  Links <- MCLinks
  VrfTable <- MCVrfTable
  Slow = 9
  MaxU32 = 7
  MsInUs = 2
  Discrs = {0, 1, 2}
  Ports = {5, 6}
  Changes <- MCChanges
  Queries <- MCQueries
  Messages <- MCMessages
  Packets <- MCPackets
  Faults = {"mem", "bpf", "update"}
  Flapping = {2}
SPECIFICATION Spec
INVARIANTS
  PortsExact
  DirsAgree
  SessionsValid
  SetThenSelect
  ShowRecreates
  BridgeKeeps
PROPERTIES
  RefusedAddLeavesNoTrace
