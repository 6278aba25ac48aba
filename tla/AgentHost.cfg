CONSTANTS
  Containers = {"c1", "c2"}
  Pids = {"1"}
  Programs <- MCPrograms
  Automations = {"n8n", "celery worker"}
  Tree <- MCTree
  Roots <- MCRoots
  Crontabs <- MCCrontabs
  Targets <- MCTargets
  Services <- MCServices
  Workflows = {"w1"}
  PageLimit = 2
  MaxChanges = 3
  Keys = {k1, k2}
  Hashes = {"v1", "v2"}
  Bases = {"agent", "autogov"}
  Arguments <- Releases
  None = None
  MaxEdits = 5
  BufferSize = 4
  ReadLimit = 6
  MaxLines = 3
  MaxLine = 4
SPECIFICATION HostSpec
CHECK_DEADLOCK FALSE
INVARIANTS PartsTypeOK EnforcedIsPinned StandingIsReported ShortLinesAreRead
PROPERTIES SettledHostRuns ScanEnds
