SPECIFICATION ConnectedSpec
CONSTANTS
  Byte = {a}
  HostByte = {a}
  Depth = 2
  Threshold = 0
  BufLen = 2
  DefaultTimeout = 2
  IntMax = 4
  HasSysClk = FALSE
  Calls = {"read", "write", "close"}
  MaxCount = 2
  TimeoutArgs <- NoArgs
INVARIANTS MaskAgrees WaitMeansStuck
PROPERTIES HandlerReturns WritesReturn TransmitProgress ReadsReturn
