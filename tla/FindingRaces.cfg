CONSTANTS
  Instances = {i1}
  Rules = {r1}
  Matches <- AllMatch
  Requests = {q1, q2}
  Risks = {"low", "critical"}
  MinSeverity = "info"
  AlertCap = 1
  MaxRequests = 2
  MaxCrashes = 1
SPECIFICATION FairSpec
INVARIANTS TypeOK ListedIsSilent
PROPERTIES NoRepeatedAlert ListingsSettle
