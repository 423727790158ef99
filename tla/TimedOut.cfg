SPECIFICATION TimedSpec
CONSTANTS
  Byte = {a}
  HostByte = {}
  Depth = 1
  Threshold = 0
  BufLen = 2
  DefaultTimeout = 2
  IntMax = 5
  HasSysClk = TRUE
  Calls = {"read", "write", "close", "ioctl"}
  MaxCount = 1
  TimeoutArgs <- SomeArgs
INVARIANTS NeverTimesOut
PROPERTIES TimeoutUnblocks
