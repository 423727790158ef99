--------------------------- MODULE FileDescriptors ---------------------------
(***************************************************************************)
(* The file descriptor pool of the HAL: open, close, the exclusive lock of *)
(* ioctl(TIOCEXCL), fcntl(F_SETFL), and the redirection of the standard    *)
(* streams before main.  There is one thread and no handler touches the    *)
(* pool, so a call is one step; what is hard is what a long sequence of    *)
(* calls, some of which fail, leaves behind.                               *)
(*                                                                         *)
(* The flag word of a descriptor is the set of its bits.  A name is the    *)
(* device or file system it resolves to, None if it resolves to nothing.   *)
(***************************************************************************)
EXTENDS Integers, Sequences

CONSTANTS
  Device,                 \* devices in alt_dev_list
  FileSystem,             \* file systems in alt_fs_list
  NullDevice,             \* alt_dev_null
  None,                   \* the NULL pointer
  MaxFd,                  \* ALT_MAX_FD (32)
  Stdin, Stdout, Stderr   \* what alt_io_redirect is asked for

Name == Device \cup FileSystem \cup {None}

ASSUME DescriptorAssumption ==
  /\ NullDevice \in Device
  /\ Device \cap FileSystem = {}
  /\ None \notin Device \cup FileSystem
  /\ MaxFd \in Nat /\ MaxFd >= 3
  /\ {Stdin, Stdout, Stderr} \subseteq Name

VARIABLES
  alt_fd_list,   \* the pool
  alt_max_fd,    \* high-water mark: the highest descriptor ever allocated
  redirects,     \* standard streams alt_io_redirect has still to redirect
  held           \* descriptors the program has been given and not closed

filesvars == <<alt_fd_list, alt_max_fd, redirects, held>>

Fds == 0 .. MaxFd - 1
StandardFds == 0 .. 2

(* ALT_FD_FLAGS_MASK, and the caller's flags that fcntl can change.        *)
Internal == {"EXCL", "DEV"}
Fcntl    == {"NONBLOCK"}
Bits     == Internal \cup Fcntl

Entry == [dev : Name, flags : SUBSET Bits]
Free  == [dev |-> None, flags |-> {}]

FilesInit ==
  /\ alt_fd_list = [f \in Fds |-> IF f \in StandardFds
                                  THEN [dev |-> NullDevice, flags |-> {}]
                                  ELSE Free]
  /\ alt_max_fd = -1
  /\ redirects = <<1, 0, 2>>
  /\ held = StandardFds

-----------------------------------------------------------------------------
(* alt_get_fd takes the lowest free descriptor. *)
Full == \A f \in Fds : alt_fd_list[f].dev # None

FirstFree(f) ==
  /\ alt_fd_list[f].dev = None
  /\ \A g \in 0 .. f - 1 : alt_fd_list[g].dev # None

RaisedKeeps(f) == IF alt_max_fd < 0 THEN f ELSE alt_max_fd   \* mutant

Raised(f) == IF f > alt_max_fd THEN f ELSE alt_max_fd

(* alt_release_fd: the standard streams are never given back. *)
Released(list, f) == IF f > 2 THEN [list EXCEPT ![f] = Free] ELSE list

(* alt_file_locked.  (Mutant: stops before the high-water mark.)           *)
LockedBelow(list, top, f) ==
  \E g \in 0 .. top - 1 :
    g # f /\ list[g].dev = list[f].dev /\ "EXCL" \in list[g].flags

Locked(list, top, f) ==
  \E g \in 0 .. top :
    g # f /\ list[g].dev = list[f].dev /\ "EXCL" \in list[g].flags

(* A new entry; the caller cannot set the bits the pool keeps for itself.  *)
EntryFor(name, bits) ==
  [dev   |-> name,
   flags |-> (bits \ Internal) \cup (IF name \in Device THEN {"DEV"} ELSE {})]

(* open once descriptor f is taken: the result, the pool and the high-     *)
(* water mark.  The descriptor is given back if the device turns out to be *)
(* locked or its own open fails (~ok).  (Mutant: it is not given back.)    *)
AttemptLeaks(f, name, bits, ok) ==
  LET list == [alt_fd_list EXCEPT ![f] = EntryFor(name, bits)]
      top  == Raised(f)
  IN IF (name \in Device /\ Locked(list, top, f)) \/ ~ok
     THEN [fd |-> -1, list |-> list, top |-> top]
     ELSE [fd |-> f, list |-> list, top |-> top]

Attempt(f, name, bits, ok) ==
  LET list == [alt_fd_list EXCEPT ![f] = EntryFor(name, bits)]
      top  == Raised(f)
  IN IF (name \in Device /\ Locked(list, top, f)) \/ ~ok
     THEN [fd |-> -1, list |-> Released(list, f), top |-> top]
     ELSE [fd |-> f, list |-> list, top |-> top]

(* What open(name, bits) comes to: one outcome. *)
Outcomes(name, bits, ok) ==
  IF name = None \/ Full
  THEN {[fd |-> -1, list |-> alt_fd_list, top |-> alt_max_fd]}
  ELSE {Attempt(f, name, bits, ok) : f \in {g \in Fds : FirstFree(g)}}

-----------------------------------------------------------------------------
(* alt_io_redirect, a stream at a time: open, copy the entry, release.  A  *)
(* stream whose device cannot be opened stays as it is.                    *)

Target(f) == IF f = 0 THEN Stdin ELSE IF f = 1 THEN Stdout ELSE Stderr

Redirect(ok) ==
  /\ redirects # <<>>
  /\ LET f == Head(redirects)
     IN \E o \in Outcomes(Target(f), {}, ok) :
          /\ alt_fd_list' = IF o.fd >= 0
                            THEN Released([o.list EXCEPT ![f] = o.list[o.fd]], o.fd)
                            ELSE o.list
          /\ alt_max_fd' = o.top
  /\ redirects' = Tail(redirects)
  /\ UNCHANGED held

-----------------------------------------------------------------------------
(* Calls of the program, on descriptors it holds. *)

Open(name, bits, ok) ==
  /\ redirects = <<>>
  /\ \E o \in Outcomes(name, bits, ok) :
       /\ alt_fd_list' = o.list
       /\ alt_max_fd' = o.top
       /\ held' = IF o.fd >= 0 THEN held \cup {o.fd} ELSE held
  /\ UNCHANGED redirects

(* The descriptor is given back whatever the driver's close returns. *)
CloseFd(f) ==
  /\ redirects = <<>>
  /\ alt_fd_list' = Released(alt_fd_list, f)
  /\ held' = held \ {f}
  /\ UNCHANGED <<alt_max_fd, redirects>>

(* alt_fd_lock's search, which leaves out the high-water mark itself.      *)
(* (Mutant: looks at the descriptors from its own on.)                     *)
SharedAbove(f) ==
  \E g \in f .. alt_max_fd - 1 : g # f /\ alt_fd_list[g].dev = alt_fd_list[f].dev

SharedDevice(f) ==
  \E g \in 0 .. alt_max_fd - 1 : g # f /\ alt_fd_list[g].dev = alt_fd_list[f].dev

(* ioctl(TIOCEXCL) and ioctl(TIOCNXCL); every other request, and these two *)
(* on a file system, go to the driver and leave the pool alone.            *)
Lock(f) ==
  /\ redirects = <<>>
  /\ "DEV" \in alt_fd_list[f].flags
  /\ ~SharedDevice(f)
  /\ alt_fd_list' = [alt_fd_list EXCEPT ![f].flags = @ \cup {"EXCL"}]
  /\ UNCHANGED <<alt_max_fd, redirects, held>>

Unlock(f) ==
  /\ redirects = <<>>
  /\ "DEV" \in alt_fd_list[f].flags
  /\ alt_fd_list' = [alt_fd_list EXCEPT ![f].flags = @ \ {"EXCL"}]
  /\ UNCHANGED <<alt_max_fd, redirects, held>>

(* fcntl(F_SETFL) *)
SetFlags(f, bits) ==
  /\ redirects = <<>>
  /\ alt_fd_list' = [alt_fd_list EXCEPT ![f].flags = (@ \ Fcntl) \cup (bits \cap Fcntl)]
  /\ UNCHANGED <<alt_max_fd, redirects, held>>

FilesNext ==
  \/ \E ok \in BOOLEAN : Redirect(ok)
  \/ \E name \in Name, bits \in SUBSET Bits, ok \in BOOLEAN : Open(name, bits, ok)
  \/ \E f \in held : CloseFd(f)
  \/ \E f \in held : Lock(f)
  \/ \E f \in held : Unlock(f)
  \/ \E f \in held, bits \in SUBSET Bits : SetFlags(f, bits)

FilesSpec == FilesInit /\ [][FilesNext]_filesvars

-----------------------------------------------------------------------------

(* Types; the standard streams are always there; the high-water mark is at *)
(* or above every other descriptor in use, which the searches of open      *)
(* (alt_open.c:79) and ioctl rely on.                                      *)
FilesTypeOK ==
  /\ alt_fd_list \in [Fds -> Entry]
  /\ alt_max_fd \in -1 .. MaxFd - 1
  /\ redirects \in {<<1, 0, 2>>, <<0, 2>>, <<2>>, <<>>}
  /\ held \subseteq Fds
  /\ \A f \in Fds :
       IF f \in StandardFds THEN alt_fd_list[f].dev # None
       ELSE alt_fd_list[f].dev # None => f <= alt_max_fd

(* No descriptor leaks and none dangles, whatever open, the drivers or the *)
(* redirection do half way (alt_open.c:161-166, alt_io_redirect.c:62-71):  *)
(* beside the standard streams the pool holds exactly what the program     *)
(* holds.                                                                  *)
NoLeak ==
  \A f \in Fds \ StandardFds : alt_fd_list[f].dev # None <=> f \in held

(* At most one descriptor has a device locked, although the search of      *)
(* alt_fd_lock stops one short (alt_fd_lock.c:61).                         *)
OneLock ==
  \A f, g \in Fds :
    /\ "EXCL" \in alt_fd_list[f].flags
    /\ "EXCL" \in alt_fd_list[g].flags
    /\ alt_fd_list[f].dev = alt_fd_list[g].dev
    => f = g

(* While a device is locked open does not hand out another descriptor for  *)
(* it (alt_open.c:58-63), wherever in the pool the lock sits.              *)
OpenRespectsLock ==
  [][\A f \in held' \ held, g \in Fds :
       ~(/\ "EXCL" \in alt_fd_list[g].flags
         /\ alt_fd_list[g].dev = alt_fd_list'[f].dev)]_filesvars

(* What the two rest on.  A lock sits on a device's descriptor, at or      *)
(* below the high-water mark; if its device is open elsewhere too, it sits *)
(* strictly below, so that every later search for users will find it.      *)
LockInv ==
  /\ \A f \in Fds :
       /\ "EXCL" \in alt_fd_list[f].flags =>
            "DEV" \in alt_fd_list[f].flags /\ redirects = <<>>
       /\ "DEV" \in alt_fd_list[f].flags =>
            alt_fd_list[f].dev \in Device /\ f <= alt_max_fd /\ alt_max_fd > 2
  /\ \A f, g \in Fds :
       /\ f # g
       /\ "EXCL" \in alt_fd_list[f].flags
       /\ alt_fd_list[f].dev = alt_fd_list[g].dev
       => f < alt_max_fd /\ "EXCL" \notin alt_fd_list[g].flags

PoolInv == FilesTypeOK /\ NoLeak /\ LockInv

-----------------------------------------------------------------------------
(* Statements of the sources that the code does not meet. *)

(* alt_fd_lock.c:38-39, 43-45: the lock is "exclusive access to a device", *)
(* granted "if there are no other open file descriptors which reference    *)
(* the same device".                                                       *)
LockMeansAlone ==
  \A f, g \in held :
    /\ "EXCL" \in alt_fd_list[f].flags
    /\ alt_fd_list[f].dev = alt_fd_list[g].dev
    => f = g
=============================================================================
