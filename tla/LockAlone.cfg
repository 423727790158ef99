SPECIFICATION FilesSpec
CONSTANTS
  Device = {null, uart}
  FileSystem = {fs}
  NullDevice = null
  None = None
  MaxFd = 5
  Stdin = uart
  Stdout = fs
  Stderr = None
INVARIANT LockMeansAlone
