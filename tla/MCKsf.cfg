CONSTANTS
  Order <- MCOrder
  Deps <- BuiltInDeps
  Shell = "shell"
  Targets = {"shell", "scheduler", "timer"}
  FaultSets <- MCFaultSets
SPECIFICATION FairSpec
INVARIANT OneShellThread
PROPERTIES
  StartsAfterDependencies
  StartAllIsMaximal
  StartAllEnds
\* a shell command during bootstrap spins on the lock for good
CHECK_DEADLOCK FALSE
