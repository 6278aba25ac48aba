CONSTANTS
  Configs <- MCConfigs
  Names = {"name"}
  Fixed <- MCFixed
  Severities = {"low", "medium"}
  QueueCap = 1
  MaxEvents = 2
  Menus <- MCMenus
  Outside <- MCOutside
  Objects = {"o1", "o2"}
  Capacity = 2
  MaxTime = 1
  Sendings = 2
SPECIFICATION BusSpec
CHECK_DEADLOCK FALSE
INVARIANTS PartsTypeOK EveryChannelIsGivenAll ServedAsSubscribed
PROPERTIES SignalEndsProcess CascadesEnd
