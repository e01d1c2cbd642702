SPECIFICATION MCSpec
CONSTANTS
  x = x
  y = y
  None = None
  Unknown = Unknown
  MaxCallers = 2
  MaxConns = 2
  MaxId = 2
  Shell = Shell
  Task <- AllTasks
  Target = {x, y}
  MaxMonitors = 2
  MaxRevision = 2
  MaxRows = 2
  Slots = 2
INVARIANTS
  PendingIsInFlight
  ReplyIsToThisRequest
  PoolIsExact
  ResultIsOfThisTarget
PROPERTIES
  EditedMonitorIsRechecked
  ChecksEnd
CHECK_DEADLOCK FALSE
