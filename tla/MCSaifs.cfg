CONSTANTS
  None = None
  Registry <- MCRegistry
  Capacity = 3
  FatDirs = {}
  Seeds <- MCSeeds
  Sessions <- AllSessions
  Worlds <- MCWorlds
  SAIFS_EVENTS = 3
SPECIFICATION SaifsSpec
\* a session may reach its bounds on nodes, descriptors, handles and events
CHECK_DEADLOCK FALSE
INVARIANTS
  TreeIsConsistent
  WritesAreExact
  VolumesAreSaved
  RoutesToDeepestMount
  LogTellsMounts
  NamespacesAgree
  HandleWritesConcatenate
