CONSTANTS
  PAGE_SIZE = 4
  MAX_PAGES = 6
  U64_MAX = 63
  None = None
  MemoryMaps <- MCMemoryMaps
  IdentityLimits <- MCIdentityLimits
  INITIAL_HEAP_BYTES = 8
  FALLBACK_INITIAL_HEAP_BYTES = 4
  RESERVED_VIRTUAL_HEAP_BYTES = 24
  FALLBACK_MAX_HEAP_BYTES = 12
  HEAP_GROW_STEP_SMALL_BYTES = 4
  HEAP_GROW_STEP_LARGE_BYTES = 8
  MAX_HEAP_CHUNKS = 3
  Sizes = {2, 7, 9}
  Aligns = {1, 4}
  MaxOthers = 1
SPECIFICATION Spec
INVARIANTS
  BlocksAreSound
  OneStepRequestsServed
