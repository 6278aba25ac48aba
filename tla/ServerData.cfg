CONSTANTS
  Families <- MCFamilies
  MaxObserved = 4
  Vulns <- MCVulns
  Keywords <- MCKeywords
  Hosts = {"h1"}
  Instances = {"container", "api", "process"}
  HostOf <- MCHostOf
  EdgesFirst = {"container"}
  Reaching = {"container"}
  MaxCrashes = 1
  MaxRequests = 2
  Callers = {"anon", "vera", "anna", "adam"}
  Role <- MCRole
  Asked = {"summary", "hosts", "instances", "instance", "findings", "modules", "finding",
           "reachability", "infra", "whitelist", "export", "audit"}
  Window = 1
  MaxFailures = 1
  MaxCuts = 1
  PerPage = 4
  Width = 5
  MaxShown = 2
  Heads = 2
  Explanations <- MCExplanations
  MaxFindings = 3
  MaxInstances = 3
  Encoding <- MCEncoding
  MaxPattern = 4
  MaxSubject = 3
  Tags <- MCTags
SPECIFICATION DataSpec
CHECK_DEADLOCK FALSE
INVARIANTS
  PartsTypeOK InventoryIsSummary ChangeIsOnFile ReachabilityIsGated ReaderSeesItself
  StoreClosed ReportMissesAtMostOne ReachIsShown PdfIsWhole ExplanationsAreWhole
  GlobAsMeant VersionsAreOrdered
PROPERTIES RiskFallsForAReason
