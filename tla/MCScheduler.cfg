CONSTANTS
  MaxThreads = 5
  DEFAULT_QUANTUM_TICKS = 2
  MaxSleep = 2
  Sleepers = {2, 3}
SPECIFICATION FairSpec
INVARIANT ScheduleIsSound
PROPERTIES
  DispatchInOrder
  ReadyRunsUntilLost
\* idle halts the CPU for good when it gets it with interrupts off
CHECK_DEADLOCK FALSE
