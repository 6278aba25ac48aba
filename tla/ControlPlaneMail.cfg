CONSTANTS
  Configs <- MailConfigs
  Names = {"name"}
  Fixed <- MCFixed
  Severities = {"medium"}
  QueueCap = 2
  MaxEvents = 2
SPECIFICATION Spec
CHECK_DEADLOCK FALSE
PROPERTIES HandlersReturn
