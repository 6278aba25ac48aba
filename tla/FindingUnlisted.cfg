CONSTANTS
  Instances = {i1}
  Rules = {r1}
  Matches <- AllMatch
  Requests = {q1}
  Risks = {"low", "critical"}
  MinSeverity = "info"
  AlertCap = 1
  MaxRequests = 1
  MaxCrashes = 0
SPECIFICATION FairSpec
PROPERTY ListingFollowsRules
