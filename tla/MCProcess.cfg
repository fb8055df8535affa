CONSTANTS
  None = None
  BuiltIns = {"calc"}
  Package <- MCPackage
  InitScript <- MCInitScript
  Sessions <- MCSessions
  Shell = snsh
  Codes = {2}
  MAX_EVENTS = 3
  U64_MAX = 100
  EventKind = {"ProcessStarted", "ProcessStopped", "DriverFaulted"}
SPECIFICATION Spec
\* a session may reach its bounds on processes and events
CHECK_DEADLOCK FALSE
INVARIANTS
  ExecReportsResult
  LifeIsCounted
