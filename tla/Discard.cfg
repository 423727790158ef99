SPECIFICATION CacheSpec
CONSTANTS
  LINE_SIZE = 2
  CacheLines = 2
  MemoryLines = 3
  Flash = {}
  MaxBlocks = 0
  NoRegion = NoRegion
INVARIANT DiscardIsLocal
CHECK_DEADLOCK FALSE
