SPECIFICATION TrafficSpec
CONSTANTS
  Byte = {a, b}
  HostByte = {a, b}
  Depth = 2
  Threshold = 1
  BufLen = 3
  DefaultTimeout = 2
  IntMax = 4
  HasSysClk = FALSE
  Calls = {"read", "write"}
  MaxCount = 3
  TimeoutArgs <- NoArgs
INVARIANTS ChannelInv RxArmed TxArmed NoOverflow
PROPERTIES WriteInOrder ReadInOrder
