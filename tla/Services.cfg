SPECIFICATION ServicesSpec
CONSTANTS
  Alarm = {a, b, c}
  ListHead = ListHead
  NoNode = NoNode
  Word = 6
  Delay = {0, 1, 4}
  Period = {0, 1, 3, 5}
  MayStopNext = FALSE
  NIRQ = 3
  Tag = {A}
  NULL = NULL
  NestedMasking = FALSE
  Byte = {a, b}
  HostByte = {a, b}
  Depth = 2
  Threshold = 0
  MaxCount = 3
INVARIANTS RingOK NestedByUrgency CalledWithOwnContext ScanEnds EnableAgrees
PROPERTIES OnTime TickEnds UrgentServed WriteInOrder ReadInOrder ReadsDoNotLinger WritesReturn
