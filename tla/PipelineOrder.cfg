CONSTANTS
  Agents = {a1}
  NoAgent = NoAgent
  Slots = {h1}
  MaxScans = 3
  BatchSizes = {1, 2}
  Validity = {TRUE, FALSE}
  SpoolCap = 2
  BusCap = 2
  MaxDerived = 1
  DedupLimit = 8
  DedupWindow = 0
  MaxTime = 0
  FaultKinds = {"ship", "server", "stop"}
  MaxFaults = 3
SPECIFICATION Spec
INVARIANTS AppliedInOrder SpoolIsTail
