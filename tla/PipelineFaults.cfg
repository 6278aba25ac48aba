CONSTANTS
  Agents = {a1}
  NoAgent = NoAgent
  Slots = {h1, h2}
  MaxScans = 1
  BatchSizes = {2}
  Validity = {TRUE}
  SpoolCap = 1
  BusCap = 2
  MaxDerived = 1
  DedupLimit = 1
  DedupWindow = 0
  MaxTime = 1
  FaultKinds = {"ship", "reply", "agent", "disk", "stop", "server"}
  MaxFaults = 3
SPECIFICATION Spec
SYMMETRY SlotSymmetry
INVARIANTS TypeOK AppliedAtMostOnce StoresClosed CleanMeansSaved StopKeepsLog
PROPERTIES AckedIsSeen AppliesAsPromised
