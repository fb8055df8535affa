CONSTANTS
  MaxThreads = 3
  DEFAULT_QUANTUM_TICKS = 2
  MaxSleep = 1
  Sleepers = {2}
SPECIFICATION FairSpec
PROPERTY SleepEnds
\* a thread that waits with interrupts off for a tick waits for good
CHECK_DEADLOCK FALSE
