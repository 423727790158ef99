----------------------------- MODULE SystemCalls -----------------------------
(***************************************************************************)
(* The system calls that keep no state of their own: those handed on to    *)
(* the driver behind a file descriptor, in the version that goes through   *)
(* the descriptor table and in the one that calls the driver of the        *)
(* standard streams directly (ALT_USE_DIRECT_DRIVERS), and the stubs.      *)
(* A call returns [rc, errno]; errno 0 says that it is left alone.         *)
(***************************************************************************)
EXTENDS Integers

CONSTANTS
  NoOperation,       \* an operation a driver does not provide
  EBADFD, EACCES, ENOTSUP, ENOSYS, EINVAL, ESRCH, ECHILD,   \* error numbers
  ENOTTY, ENODEV

ASSUME CallsAssumption ==
  /\ {EBADFD, EACCES, ENOTSUP, ENOSYS, EINVAL, ESRCH, ECHILD, ENOTTY, ENODEV}
       \subseteq Nat \ {0}
  /\ NoOperation \notin Int /\ NoOperation \notin {"_IFCHR", "_IFREG"}

(* What a driver's operation returns; a failing one returns minus an error *)
(* number.  A driver is a record of such results: read, write, lseek,      *)
(* fstat, ioctl, and the st_mode its fstat stores when it succeeds.        *)
Returns(rc, errno) == [rc |-> rc, errno |-> errno]
Fail(errno) == Returns(-1, errno)
Passed(rc) == IF rc < 0 THEN Fail(-rc) ELSE Returns(rc, 0)
Stored(st, result) == [st |-> st, rc |-> result.rc, errno |-> result.errno]

(* The table maps the descriptors to [dev, mode].                          *)
alt_read(table, file) ==
  IF file < 0 THEN Fail(EBADFD)
  ELSE LET fd == table[file]
       IN  IF fd.mode # "O_WRONLY" /\ fd.dev.read # NoOperation
           THEN Passed(fd.dev.read) ELSE Fail(EACCES)

(* (Mutant: only a descriptor open for both may be written.)               *)
alt_writeNeedsRead(table, file) ==
  IF file < 0 THEN Fail(EBADFD)
  ELSE LET fd == table[file]
       IN  IF fd.mode = "O_RDWR" /\ fd.dev.write # NoOperation
           THEN Passed(fd.dev.write) ELSE Fail(EACCES)

alt_write(table, file) ==
  IF file < 0 THEN Fail(EBADFD)
  ELSE LET fd == table[file]
       IN  IF fd.mode # "O_RDONLY" /\ fd.dev.write # NoOperation
           THEN Passed(fd.dev.write) ELSE Fail(EACCES)

alt_lseek(table, file) ==
  IF file < 0 THEN Fail(EBADFD)
  ELSE IF table[file].dev.lseek # NoOperation THEN Passed(table[file].dev.lseek)
  ELSE Fail(ENOTSUP)

(* The result of the driver is returned as it is.  st is the st_mode       *)
(* stored, NoOperation if none is.                                         *)
alt_fstat(table, file) ==
  IF file < 0 THEN Stored(NoOperation, Fail(EBADFD))
  ELSE LET dev == table[file].dev
       IN  IF dev.fstat = NoOperation THEN Stored("_IFCHR", Returns(0, 0))
           ELSE Stored(IF dev.fstat < 0 THEN NoOperation ELSE dev.st_mode,
                       Returns(dev.fstat, 0))

(* The results it may have: where fstat stores nothing, the comparison is  *)
(* with an uninitialised variable.                                         *)
alt_isatty(table, file) ==
  IF file < 0 THEN {Returns(0, EBADFD)}
  ELSE IF table[file].dev.fstat = NoOperation THEN {Returns(1, 0)}
  ELSE LET st == alt_fstat(table, file).st
       IN  IF st = NoOperation THEN {Returns(0, 0), Returns(1, 0)}
           ELSE {Returns(IF st = "_IFCHR" THEN 1 ELSE 0, 0)}

(* The direct versions: dev is the driver of all three standard streams.   *)
DirectRead(dev, file) ==
  IF file = 0 THEN Returns(dev.read, 0) ELSE Fail(EBADFD)
DirectWrite(dev, file) ==
  IF file \in {1, 2} THEN Returns(dev.write, 0) ELSE Fail(EBADFD)
DirectLseek(file) == Fail(ENOSYS)
DirectFstat(file) ==
  IF file \in 0 .. 2 THEN Stored("_IFCHR", Returns(0, 0))
  ELSE Stored(NoOperation, Returns(-1, 0))
DirectIsatty(file) == {Returns(IF file \in 0 .. 2 THEN 1 ELSE 0, 0)}

(* An ioctl other than the two that lock the device.  Both versions return *)
(* the driver's result as it is.                                           *)
alt_ioctl(table, file) ==
  LET rc == IF file < 0 THEN -EBADFD
            ELSE IF table[file].dev.ioctl = NoOperation THEN -ENOTTY
            ELSE table[file].dev.ioctl
  IN  Returns(rc, IF rc < 0 THEN -rc ELSE 0)
DirectIoctl(dev, file) ==
  IF file \in 0 .. 2 THEN Returns(dev.ioctl, 0) ELSE Fail(EBADFD)

(* stat() opens the file, asks fstat() and closes it; opened is what open()*)
(* returns, which is not looked at: the reason open() gives is lost.       *)
alt_stat(table, opened) ==
  LET st == alt_fstat(table, opened)
  IN  [st EXCEPT !.errno = IF opened < 0 THEN EBADFD ELSE @]

(* One character or a string, straight to the driver.  A char is signed.   *)
alt_getchar(dev, c) == IF dev.read <= 0 THEN -1 ELSE IF c < 128 THEN c ELSE c - 256
alt_putchar(dev, c) == IF dev.write = -1 THEN -1 ELSE c
alt_putstr(dev) == dev.write

(* DMA channels.  found is the channel with the name, NoOperation if there *)
(* is none; a channel is a record of what its operations return and its    *)
(* depth.  (Mutant: the handle is not looked at.)                          *)
alt_dma_open(found) == Returns(found, IF found = NoOperation THEN ENODEV ELSE 0)
alt_dma_close(dma) == 0
Wild == {-1, 0, 1}      \* what may come of an operation that is not one

ChannelCallUnchecked(dma, operation) ==
  IF dma = NoOperation THEN Wild ELSE {dma[operation]}

ChannelCall(dma, operation) ==
  {IF dma = NoOperation THEN -ENODEV ELSE dma[operation]}

alt_dma_rxchan_depth(dma) == IF dma = NoOperation THEN Wild ELSE {dma.depth}

(* One process, number 0, which no signal handler can be installed for;    *)
(* NoOperation: kill() calls _exit() and does not return.                  *)
alt_getpid == 0
Fatal == {"SIGABRT", "SIGALRM", "SIGFPE", "SIGILL", "SIGKILL", "SIGPIPE",
          "SIGQUIT", "SIGSEGV", "SIGTERM", "SIGUSR1", "SIGUSR2", "SIGBUS",
          "SIGPOLL", "SIGPROF", "SIGSYS", "SIGTRAP", "SIGVTALRM", "SIGXCPU",
          "SIGXFSZ"}
alt_kill(pid, sig) ==
  IF pid > 0 THEN Fail(ESRCH)
  ELSE IF sig \in Fatal THEN Returns(NoOperation, 0)
  ELSE IF sig \in {"0", "SIGCHLD", "SIGURG"} THEN Returns(0, 0)
  ELSE Fail(EINVAL)

Stub(name) == IF name = "wait" THEN Fail(ECHILD) ELSE Fail(ENOSYS)
-----------------------------------------------------------------------------
(* The descriptor table alt_io_redirect() sets up for one device.          *)
Standard(dev) ==
  [file \in 0 .. 2 |-> [dev |-> dev, mode |-> IF file = 0 THEN "O_RDONLY" ELSE "O_WRONLY"]]

(* A program cannot tell by the results whether the BSP was built with     *)
(* direct drivers, as long as it uses the standard streams of a character  *)
(* device that has neither lseek nor fstat, as the JTAG UART: what         *)
(* succeeds and what fails is the same (alt_read.c:58-78, 82-123 and the   *)
(* other calls).  What they store in errno does differ.                    *)
DirectAgrees(dev, file) ==
  LET table == Standard(dev)
      Same(x, y) == x.rc = y.rc \/ (x.rc < 0 /\ y.rc < 0)
  IN  /\ Same(alt_read(table, file), DirectRead(dev, file))
      /\ dev.ioctl # NoOperation => Same(alt_ioctl(table, file), DirectIoctl(dev, file))
      /\ (alt_getchar(dev, 65) = -1) <=> DirectRead(dev, 0).rc <= 0
      /\ Same([rc |-> alt_putstr(dev)], alt_write(table, 1))
      /\ Same(alt_write(table, file), DirectWrite(dev, file))
      /\ dev.lseek = NoOperation => Same(alt_lseek(table, file), DirectLseek(file))
      /\ dev.fstat = NoOperation =>
           /\ alt_fstat(table, file).rc = DirectFstat(file).rc
           /\ alt_fstat(table, file).st = DirectFstat(file).st
           /\ {r.rc : r \in alt_isatty(table, file)}
                = {r.rc : r \in DirectIsatty(file)}

(* isatty() tells terminals from files the way fstat() does, whatever the  *)
(* driver provides, where fstat() succeeds (alt_isatty.c:98-117).  Where   *)
(* it fails isatty() may say either.                                       *)
TerminalIsCharacterDevice(table, file) ==
  LET st == alt_fstat(table, file)
  IN  st.rc >= 0 =>
        {r.rc : r \in alt_isatty(table, file)} = {IF st.st = "_IFCHR" THEN 1 ELSE 0}

(* A call that fails says why in errno, and one that does not leaves it    *)
(* alone (alt_read.c:105-119, alt_write.c, alt_lseek.c, alt_kill.c, the    *)
(* stubs, and stat() of a file that could not be opened).  fstat() is left *)
(* out: it returns the driver's negative result.                           *)
FailureHasReason(table, file) ==
  \A r \in {alt_read(table, file), alt_write(table, file), alt_lseek(table, file)}
         \cup {alt_kill(file, sig) : sig \in Fatal \cup {"0", "SIGURG", "SIGSTOP"}}
         \cup (IF file < 0 THEN {alt_stat(table, file)} ELSE {})
         \cup {Stub(name) : name \in {"execve", "fork", "link", "rename", "unlink", "wait"}} :
    (r.rc = -1) <=> (r.errno # 0)

(* Whatever a program does with a DMA channel it failed to open, it gets   *)
(* the error that opening it stored and no driver is called; asking for    *)
(* the depth is the exception (alt_dma.h:99-215, alt_dma_txchan_open.c).   *)
Channels == {NoOperation} \cup
            [send : {-5, 0}, prepare : {-5, 0}, space : {0, 4}, ioctl : {-22, 0}, depth : {4}]
UnopenedIsRefused ==
  \A found \in Channels : \A operation \in {"send", "prepare", "space", "ioctl"} :
    LET opened == alt_dma_open(found)
    IN  opened.errno # 0 => ChannelCall(opened.rc, operation) = {-opened.errno}
=============================================================================
