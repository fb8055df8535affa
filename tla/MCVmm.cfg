CONSTANTS
  PAGE_SIZE = 2
  MAX_PAGES = 8
  U64_MAX = 63
  None = None
  Junk = Junk
  Fanout <- MCFanout
  Root = 1
  MaxPages = 2
  DevicePages = {20}
  MapTargets = {3}
  UnmapTargets = {0, 3}
SPECIFICATION Spec
CHECK_DEADLOCK FALSE
INVARIANTS
  TablesMatchMappings
  FramesAreAccounted
