SPECIFICATION LibrarySpec
CONSTANTS
  one = one
  two = two
  main = main
  isr = isr
  NoCall = NoCall
  ClockWord = 16
  ALT_US = 6
  Rate = 2
  Seconds = {0, 1, 7}
  NoTime = NoTime
  Device = {null, uart}
  FileSystem = {fs}
  NullDevice = null
  None = None
  MaxFd = 5
  Stdin = uart
  Stdout = fs
  Stderr = None
  LINE_SIZE = 2
  CacheLines = 2
  MemoryLines = 3
  Flash = {1, 2}
  MaxBlocks = 1
  NoRegion = NoRegion
  Dev = {d1, d2}
  DevName <- Names
  Path <- Paths
  Slash = Slash
  NUL = NUL
  NULL = NULL
  Digits = 2
  Char <- Characters
  Text <- Texts
  Width = 4
  Unsigned = 64
  IntMax = 31
  ALT_CPU_FREQ = 59
  Micro = 2
  Tiny = TRUE
  NoOperation = NoOperation
  EBADFD = 77
  EACCES = 13
  ENOTSUP = 134
  ENOSYS = 88
  EINVAL = 22
  ESRCH = 3
  ECHILD = 10
  ENOTTY = 25
  ENODEV = 19
  Level <- Levels
  Space = 2
  Length = 2
  MaxLogged = 2
  Interval = 1
  Program <- Programs
  Linked <- BuiltIn
  MaxInterrupts = 2
  MaxSections = 2
  Arc <- Arcs
  MaxCalls <- Calls
  HeapLimit = 20
  Align = 2
  Record = 2
  Slab = 4
  Block = 3
  TextBytes = {4, 5}
  BucketBytes = 2
  Garbage = Garbage
  Ctors <- Constructors
  MaxResets = 2
  Top = 8
  Alignment = 2
  Frame = 2
  Increments = {0, 2, 3, 4}
  NoLimit = NoLimit
  NUM_INPUTS = 3
  MaxBeats = 2
  MaxChanges = 4
INVARIANTS
  TimeKept
  CachesKept
  NamesFound
  EmulationKept
  LogKept
  ExceptionsKept
  ProfileKept
  PrintsRight
  CallsRight
  StartupKept
  SystemKept
  NoLeak
  OneLock
PROPERTIES
  OpenRespectsLock
CHECK_DEADLOCK FALSE
