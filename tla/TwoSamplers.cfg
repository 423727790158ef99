SPECIFICATION ProfilerSpec
CONSTANTS
  one = one
  main = main
  isr = isr
  Arc <- Arcs
  MaxCalls <- Calls
  HeapLimit = 20
  Align = 2
  Record = 2
  Slab = 4
  Block = 3
  TextBytes = {4}
  BucketBytes = 2
INVARIANT SamplerStartsOnce
CHECK_DEADLOCK FALSE
