CONSTANTS
  Agents = {a1}
  NoAgent = NoAgent
  Slots = {h1, h2}
  MaxScans = 2
  BatchSizes = {1, 2}
  Validity = {TRUE}
  SpoolCap = 2
  BusCap = 1
  MaxDerived = 1
  DedupLimit = 8
  DedupWindow = 0
  MaxTime = 0
  FaultKinds = {}
  MaxFaults = 0
SPECIFICATION Spec
INVARIANT NothingSeenIsLost
