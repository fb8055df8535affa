CONSTANTS
  PAGE_SIZE = 2
  MAX_PAGES = 6
  U64_MAX = 31
  MaxCount = 3
  None = None
  MemoryMaps <- MCMemoryMaps
  Limits <- MCLimits
  Bases <- MCBases
  Lengths <- MCLengths
SPECIFICATION Spec
INVARIANTS
  CounterMatchesBitmap
  OneOwnerPerPage
  HeldPagesAreUsableMemory
PROPERTIES
  SinglePagesLowestFirst
  ImplementsFrameAllocator
