CONSTANTS
  Agents = {a1}
  NoAgent = NoAgent
  Slots = {h1, h2}
  MaxScans = 2
  BatchSizes = {2}
  Validity = {TRUE}
  SpoolCap = 2
  BusCap = 8
  MaxDerived = 0
  DedupLimit = 8
  DedupWindow = 0
  MaxTime = 0
  FaultKinds = {"ship", "reply", "agent"}
  MaxFaults = 2
SPECIFICATION FairSpec
INVARIANT NothingSeenIsLost
PROPERTY SpooledIsDelivered
