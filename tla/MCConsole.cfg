SPECIFICATION Spec
CONSTANTS
  LineCapacity = 3
  HistoryCapacity = 2
  Columns = 3
  Rows = 2
  ScrollbackCapacity = 2
  DefaultWidth = 6
  DefaultHeight = 1
  BlinkDivisor = 2
  KeyQueueCapacity = 2
  MouseQueueCapacity = 1
  CsiCapacity = 4
  InFlight = 3
  Prompt <- MCPrompt
  CommandNames <- MCCommands
  EntryNames <- MCEntries
  Sessions <- MCSessions
INVARIANTS
  KeysArriveOnce
  PacketsArriveWhole
  GridShowsLine
  PixelsShowView
PROPERTY
  HistoryRoundTrip
