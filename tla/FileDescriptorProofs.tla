------------------------- MODULE FileDescriptorProofs -------------------------
(***************************************************************************)
(* Proofs about the file descriptor pool, for every size of the pool and   *)
(* every set of devices and file systems.                                  *)
(***************************************************************************)
EXTENDS FileDescriptors, TLAPS

(* The two ways an open can end (alt_open.c:161-170): with nothing left    *)
(* behind but a cleared free entry, or with a new entry in a free place    *)
(* above the standard streams, for a device nobody has locked.             *)
Failed(o) ==
  /\ o.fd = -1
  /\ \A g \in Fds : \/ o.list[g] = alt_fd_list[g]
                    \/ /\ g \notin StandardFds
                       /\ alt_fd_list[g].dev = None
                       /\ o.list[g] = Free

Succeeded(o, name, bits) ==
  /\ o.fd \in Fds \ StandardFds
  /\ o.fd <= o.top
  /\ alt_fd_list[o.fd].dev = None
  /\ o.list = [alt_fd_list EXCEPT ![o.fd] = EntryFor(name, bits)]
  /\ name # None
  /\ \A g \in Fds :
       g # o.fd /\ "EXCL" \in alt_fd_list[g].flags => alt_fd_list[g].dev # name

(* Every open ends in one of them, and never lowers the high-water mark.   *)
LEMMA OutcomeFacts ==
  ASSUME PoolInv, NEW name \in Name, NEW bits \in SUBSET Bits, NEW ok \in BOOLEAN,
         NEW o \in Outcomes(name, bits, ok)
  PROVE  /\ o.list \in [Fds -> Entry]
         /\ o.top \in alt_max_fd .. MaxFd - 1
         /\ Failed(o) \/ Succeeded(o, name, bits)
<1> USE DescriptorAssumption
<1> USE DEF PoolInv, FilesTypeOK, Fds, StandardFds, Failed, Succeeded
<1>0. Free \in Entry /\ EntryFor(name, bits) \in Entry /\ EntryFor(name, bits).dev = name
  BY DEF Free, Entry, EntryFor, Name, Bits, Internal
<1>1. CASE name = None \/ Full
  <2>1. o = [fd |-> -1, list |-> alt_fd_list, top |-> alt_max_fd]
    BY <1>1 DEF Outcomes
  <2> QED
    BY <2>1
<1>2. CASE ~(name = None \/ Full)
  <2>1. PICK f \in Fds : FirstFree(f) /\ o = Attempt(f, name, bits, ok)
    BY <1>2 DEF Outcomes
  <2>2. alt_fd_list[f].dev = None /\ f \notin StandardFds
    BY <2>1 DEF FirstFree
  <2> DEFINE list == [alt_fd_list EXCEPT ![f] = EntryFor(name, bits)]
  <2> DEFINE top == Raised(f)
  <2>3. top \in alt_max_fd .. MaxFd - 1 /\ f <= top
    BY DEF Raised
  <2>4. list \in [Fds -> Entry] /\ list[f].dev = name
    BY <1>0
  <2>5. CASE (name \in Device /\ Locked(list, top, f)) \/ ~ok
    <3>1. o = [fd |-> -1, list |-> Released(list, f), top |-> top]
      BY <2>1, <2>5 DEF Attempt
    <3>2. Released(list, f) = [list EXCEPT ![f] = Free]
      BY <2>2 DEF Released
    <3>3. /\ Released(list, f) \in [Fds -> Entry]
          /\ \A g \in Fds : IF g = f THEN Released(list, f)[g] = Free
                            ELSE Released(list, f)[g] = alt_fd_list[g]
      BY <1>0, <2>4, <3>2
    <3> QED
      BY <2>2, <2>3, <3>1, <3>3
  <2>6. CASE ~((name \in Device /\ Locked(list, top, f)) \/ ~ok)
    <3>1. o = [fd |-> f, list |-> list, top |-> top]
      BY <2>1, <2>6 DEF Attempt
    <3>2. ASSUME NEW g \in Fds, g # f, "EXCL" \in alt_fd_list[g].flags
          PROVE  alt_fd_list[g].dev # name
      <4>1. alt_fd_list[g].dev \in Device /\ g \in 0 .. top
        BY <2>3, <3>2 DEF LockInv
      <4>2. list[g] = alt_fd_list[g]
        BY <3>2
      <4>3. name \in Device => ~Locked(list, top, f)
        BY <2>6
      <4> QED
        BY <2>4, <3>2, <4>1, <4>2, <4>3 DEF Locked
    <3> QED
      BY <1>2, <2>2, <2>3, <2>4, <3>1, <3>2
  <2> QED
    BY <2>5, <2>6
<1> QED
  BY <1>1, <1>2

LEMMA InitPool == FilesInit => PoolInv
<1> SUFFICES ASSUME FilesInit PROVE PoolInv
  OBVIOUS
<1> USE DescriptorAssumption DEF FilesInit
<1>1. FilesTypeOK
  BY DEF FilesTypeOK, Entry, Free, Name, Fds, StandardFds
<1>2. NoLeak
  BY DEF NoLeak, Free, Fds, StandardFds
<1>3. LockInv
  BY DEF LockInv, Free, Fds, StandardFds
<1> QED
  BY <1>1, <1>2, <1>3 DEF PoolInv

(* A redirected stream takes over the entry open made for it, and the      *)
(* place of that entry is free again (alt_io_redirect.c:58-72).            *)
LEMMA RedirectPool ==
  ASSUME PoolInv, NEW ok \in BOOLEAN, Redirect(ok)
  PROVE  PoolInv'
<1> DEFINE f == Head(redirects)
<1>0. f \in StandardFds /\ redirects # <<>> /\ redirects' = Tail(redirects) /\ held' = held
  BY DEF Redirect, PoolInv, FilesTypeOK, StandardFds
<1>1. PICK o \in Outcomes(Target(f), {}, ok) :
         /\ alt_fd_list' = IF o.fd >= 0
                           THEN Released([o.list EXCEPT ![f] = o.list[o.fd]], o.fd)
                           ELSE o.list
         /\ alt_max_fd' = o.top
  BY DEF Redirect
<1>2. Target(f) \in Name /\ {} \in SUBSET Bits
  BY DescriptorAssumption DEF Target
<1>3. /\ o.list \in [Fds -> Entry]
      /\ o.top \in alt_max_fd .. MaxFd - 1
      /\ Failed(o) \/ Succeeded(o, Target(f), {})
  BY <1>1, <1>2, OutcomeFacts
<1>4. \A g \in Fds : "EXCL" \notin alt_fd_list[g].flags
  BY <1>0 DEF PoolInv, LockInv
<1>5. redirects' \in {<<0, 2>>, <<2>>, <<>>}
  <2>1. /\ Tail(<<1, 0, 2>>) = <<0, 2>>
        /\ Tail(<<0, 2>>) = <<2>>
        /\ Tail(<<2>>) = <<>>
    BY SMT
  <2> QED
    BY <1>0, <2>1 DEF PoolInv, FilesTypeOK
<1>6. f \in Fds /\ StandardFds \subseteq Fds
  BY <1>0, DescriptorAssumption DEF Fds, StandardFds
<1>7. CASE Failed(o)
  <2>1. alt_fd_list' = o.list
    BY <1>1, <1>7 DEF Failed
  <2>2. \A g \in Fds : \/ alt_fd_list'[g] = alt_fd_list[g]
                      \/ /\ g \notin StandardFds
                         /\ alt_fd_list[g].dev = None
                         /\ alt_fd_list'[g] = Free
    BY <1>7, <2>1 DEF Failed
  <2>3. FilesTypeOK'
    <3>1. alt_fd_list' \in [Fds -> Entry] /\ alt_max_fd' \in alt_max_fd .. MaxFd - 1
      BY <1>1, <1>3, <2>1
    <3>2. redirects' \in {<<1, 0, 2>>, <<0, 2>>, <<2>>, <<>>} /\ held' = held
      BY <1>0, <1>5
    <3> QED
      BY <2>2, <3>1, <3>2, DescriptorAssumption
      DEF PoolInv, FilesTypeOK, Free, Fds, StandardFds
  <2>4. NoLeak'
    BY <1>0, <2>2 DEF PoolInv, NoLeak, Free
  <2>5. LockInv'
    BY <1>1, <1>3, <1>4, <2>2 DEF PoolInv, FilesTypeOK, LockInv, Free, Fds
  <2> QED
    BY <2>3, <2>4, <2>5 DEF PoolInv
<1>8. CASE Succeeded(o, Target(f), {})
  <2>1. o.fd > 2 /\ o.fd # f
    BY <1>0, <1>8 DEF Succeeded, Fds, StandardFds
  <2> DEFINE new == EntryFor(Target(f), {})
  <2>2. alt_fd_list' = [alt_fd_list EXCEPT ![f] = new, ![o.fd] = Free]
    <3>1. o.list = [alt_fd_list EXCEPT ![o.fd] = new]
      BY <1>8 DEF Succeeded
    <3>2. alt_fd_list' = [[o.list EXCEPT ![f] = o.list[o.fd]] EXCEPT ![o.fd] = Free]
      BY <1>1, <2>1, <1>8 DEF Released, Succeeded, Fds
    <3>3. alt_fd_list \in [Fds -> Entry]
      BY DEF PoolInv, FilesTypeOK
    <3> HIDE DEF f, new
    <3> QED
      BY <1>6, <1>8, <2>1, <3>1, <3>2, <3>3 DEF Succeeded
  <2>3. /\ new \in Entry /\ Free \in Entry
        /\ new.dev = Target(f) /\ new.dev # None
        /\ "EXCL" \notin new.flags
        /\ "DEV" \in new.flags => new.dev \in Device
    <3>1. Target(f) # None
      BY <1>8 DEF Succeeded
    <3> HIDE DEF f
    <3> QED
      BY <1>2, <3>1 DEF EntryFor, Entry, Free, Name, Bits, Internal
  <2>4. \A g \in Fds : alt_fd_list'[g] = IF g = o.fd THEN Free
                                        ELSE IF g = f THEN new ELSE alt_fd_list[g]
    <3>1. alt_fd_list \in [Fds -> Entry]
      BY DEF PoolInv, FilesTypeOK
    <3> HIDE DEF f, new
    <3> QED
      BY <1>6, <1>8, <2>1, <2>2, <3>1 DEF Succeeded
  <2>5. alt_max_fd' \in alt_max_fd .. MaxFd - 1 /\ o.fd <= alt_max_fd'
    BY <1>1, <1>3, <1>8 DEF Succeeded
  <2> HIDE DEF f, new
  <2>6. alt_fd_list' \in [Fds -> Entry]
    BY <2>2, <2>3 DEF PoolInv, FilesTypeOK
  <2>7. FilesTypeOK'
    <3>1. redirects' \in {<<1, 0, 2>>, <<0, 2>>, <<2>>, <<>>} /\ held' = held
      BY <1>0, <1>5
    <3>2. \A g \in Fds :
            IF g \in StandardFds THEN alt_fd_list'[g].dev # None
            ELSE alt_fd_list'[g].dev # None => g <= alt_max_fd'
      BY <1>0, <1>8, <2>1, <2>3, <2>4, <2>5
      DEF Succeeded, PoolInv, FilesTypeOK, Free, Fds, StandardFds
    <3> QED
      BY <2>5, <2>6, <3>1, <3>2 DEF PoolInv, FilesTypeOK
  <2>8. NoLeak'
    BY <1>0, <1>8, <2>1, <2>3, <2>4 DEF Succeeded, PoolInv, NoLeak, Free, StandardFds
  <2>9. LockInv'
    <3>1. \A g \in Fds : "EXCL" \notin alt_fd_list'[g].flags
      BY <1>4, <2>3, <2>4 DEF Free
    <3>2. alt_max_fd' > 2
      BY <2>1, <2>5, <1>8 DEF Succeeded, PoolInv, FilesTypeOK, Fds
    <3>3. ASSUME NEW g \in Fds, "DEV" \in alt_fd_list'[g].flags
          PROVE  alt_fd_list'[g].dev \in Device /\ g <= alt_max_fd'
      <4>1. g # o.fd
        BY <2>4, <3>3 DEF Free
      <4>2. CASE g = f
        BY <1>0, <2>1, <2>3, <2>4, <2>5, <3>2, <3>3, <4>2, DescriptorAssumption
        DEF StandardFds, PoolInv, FilesTypeOK
      <4>3. CASE g # f
        BY <2>4, <2>5, <3>3, <4>1, <4>3 DEF PoolInv, FilesTypeOK, LockInv, Fds
      <4> QED
        BY <4>2, <4>3
    <3> QED
      BY <3>1, <3>2, <3>3 DEF LockInv
  <2> QED
    BY <2>7, <2>8, <2>9 DEF PoolInv
<1> QED
  BY <1>3, <1>7, <1>8

(* open by the program (alt_open.c:105-171). *)
LEMMA OpenPool ==
  ASSUME PoolInv, NEW name \in Name, NEW bits \in SUBSET Bits, NEW ok \in BOOLEAN,
         Open(name, bits, ok)
  PROVE  PoolInv'
<1>0. redirects = <<>> /\ redirects' = redirects
  BY DEF Open
<1>1. PICK o \in Outcomes(name, bits, ok) :
         /\ alt_fd_list' = o.list
         /\ alt_max_fd' = o.top
         /\ held' = IF o.fd >= 0 THEN held \cup {o.fd} ELSE held
  BY DEF Open
<1>2. /\ alt_fd_list' \in [Fds -> Entry]
      /\ alt_max_fd' \in alt_max_fd .. MaxFd - 1
      /\ Failed(o) \/ Succeeded(o, name, bits)
  BY <1>1, OutcomeFacts
<1>3. CASE Failed(o)
  <2>1. \A g \in Fds : \/ alt_fd_list'[g] = alt_fd_list[g]
                      \/ /\ g \notin StandardFds
                         /\ alt_fd_list[g].dev = None
                         /\ alt_fd_list'[g] = Free
    BY <1>1, <1>3 DEF Failed
  <2>2. held' = held
    BY <1>1, <1>3 DEF Failed
  <2>3. FilesTypeOK'
    BY <1>0, <1>2, <2>1, <2>2, DescriptorAssumption
    DEF PoolInv, FilesTypeOK, Free, Fds, StandardFds
  <2>4. NoLeak'
    BY <2>1, <2>2 DEF PoolInv, NoLeak, Free
  <2>5. LockInv'
    BY <1>0, <1>2, <2>1 DEF PoolInv, FilesTypeOK, LockInv, Free, Fds
  <2> QED
    BY <2>3, <2>4, <2>5 DEF PoolInv
<1>4. CASE Succeeded(o, name, bits)
  <2> DEFINE new == EntryFor(name, bits)
  <2>1. /\ o.fd \in Fds \ StandardFds
        /\ o.fd <= alt_max_fd'
        /\ alt_fd_list[o.fd].dev = None
        /\ alt_fd_list' = [alt_fd_list EXCEPT ![o.fd] = new]
        /\ name # None
        /\ \A g \in Fds : /\ g # o.fd
                          /\ "EXCL" \in alt_fd_list[g].flags
                          => alt_fd_list[g].dev # name
    BY <1>1, <1>4 DEF Succeeded
  <2>2. o.fd > 2 /\ held' = held \cup {o.fd}
    BY <1>1, <2>1 DEF Fds, StandardFds
  <2>3. /\ new.dev = name
        /\ "EXCL" \notin new.flags
        /\ "DEV" \in new.flags => name \in Device
    BY DEF EntryFor, Internal
  <2> HIDE DEF new
  <2>4. \A g \in Fds : alt_fd_list'[g] = IF g = o.fd THEN new ELSE alt_fd_list[g]
    BY <2>1 DEF PoolInv, FilesTypeOK
  <2>5. FilesTypeOK'
    <3>1. \A g \in Fds :
            IF g \in StandardFds THEN alt_fd_list'[g].dev # None
            ELSE alt_fd_list'[g].dev # None => g <= alt_max_fd'
      BY <1>2, <2>1, <2>3, <2>4 DEF PoolInv, FilesTypeOK, Fds
    <3> QED
      BY <1>0, <1>2, <2>1, <2>2, <3>1 DEF PoolInv, FilesTypeOK
  <2>6. NoLeak'
    BY <2>1, <2>2, <2>3, <2>4 DEF PoolInv, NoLeak
  <2>7. LockInv'
    BY <1>0, <1>2, <2>1, <2>2, <2>3, <2>4 DEF PoolInv, FilesTypeOK, LockInv, Fds, StandardFds
  <2> QED
    BY <2>5, <2>6, <2>7 DEF PoolInv
<1> QED
  BY <1>2, <1>3, <1>4

(* close (alt_close.c:64-101): a standard stream keeps its entry. *)
LEMMA ClosePool ==
  ASSUME PoolInv, NEW f \in held, CloseFd(f)
  PROVE  PoolInv'
<1> USE DEF CloseFd, PoolInv, FilesTypeOK
<1>0. f \in Fds /\ Free \in Entry
  BY DescriptorAssumption DEF Free, Entry, Name
<1>1. \A g \in Fds : alt_fd_list'[g] = IF g = f /\ f > 2 THEN Free ELSE alt_fd_list[g]
  BY <1>0 DEF Released
<1>2. alt_fd_list' \in [Fds -> Entry]
  BY <1>0 DEF Released
<1>3. FilesTypeOK'
  BY <1>0, <1>1, <1>2 DEF Free, Fds, StandardFds
<1>4. NoLeak'
  BY <1>0, <1>1 DEF NoLeak, Free, Fds, StandardFds
<1>5. LockInv'
  <2>1. ASSUME NEW g \in Fds, "EXCL" \in alt_fd_list[g].flags
        PROVE  alt_fd_list[g].dev # None
    BY <2>1, DescriptorAssumption DEF LockInv
  <2>2. Free.dev = None /\ Free.flags = {}
    BY DEF Free
  <2> QED
    BY <1>0, <1>1, <2>1, <2>2 DEF LockInv
<1> QED
  BY <1>3, <1>4, <1>5

(* The lock (alt_fd_lock.c:54-75).  The search has seen every descriptor   *)
(* but the one at the high-water mark.                                     *)
LEMMA LockPool ==
  ASSUME PoolInv, NEW f \in held, Lock(f)
  PROVE  PoolInv'
<1> USE DEF Lock, PoolInv, FilesTypeOK
<1> DEFINE new == [alt_fd_list[f] EXCEPT !.flags = @ \cup {"EXCL"}]
<1>0. f \in Fds /\ alt_fd_list[f] \in Entry
  OBVIOUS
<1>1. /\ new \in Entry /\ new.dev = alt_fd_list[f].dev
      /\ new.flags = alt_fd_list[f].flags \cup {"EXCL"}
  BY <1>0 DEF Entry, Bits, Internal
<1>2. alt_fd_list' = [alt_fd_list EXCEPT ![f] = new]
  OBVIOUS
<1> HIDE DEF new
<1>3. \A g \in Fds : alt_fd_list'[g] = IF g = f THEN new ELSE alt_fd_list[g]
  BY <1>0, <1>2
<1>4. FilesTypeOK'
  BY <1>0, <1>1, <1>2, <1>3 DEF StandardFds
<1>5. NoLeak'
  BY <1>0, <1>1, <1>3 DEF NoLeak
<1>6. ASSUME NEW g \in Fds, g # f, alt_fd_list[g].dev = alt_fd_list[f].dev
      PROVE  f < alt_max_fd /\ "EXCL" \notin alt_fd_list[g].flags
  <2>1. g \notin 0 .. alt_max_fd - 1
    BY <1>6 DEF SharedDevice
  <2>2. f <= alt_max_fd /\ alt_max_fd > 2 /\ alt_fd_list[f].dev \in Device
    BY <1>0 DEF LockInv
  <2>3. alt_fd_list[g].dev # None
    BY <1>6, <2>2, DescriptorAssumption
  <2>4. g = alt_max_fd
    BY <2>1, <2>2, <2>3 DEF Fds, StandardFds
  <2> QED
    BY <1>0, <1>6, <2>2, <2>4 DEF LockInv, Fds
<1>7. LockInv'
  BY <1>0, <1>1, <1>3, <1>6 DEF LockInv
<1> QED
  BY <1>4, <1>5, <1>7

(* A change of bits that sets none of the pool's own (alt_fd_unlock.c:52,  *)
(* alt_fcntl.c:66-101).                                                    *)
LEMMA FlagsPool ==
  ASSUME PoolInv, NEW f \in held, NEW flags \in SUBSET Bits,
         flags \cap Internal \subseteq alt_fd_list[f].flags,
         alt_fd_list' = [alt_fd_list EXCEPT ![f] = [dev |-> alt_fd_list[f].dev,
                                                    flags |-> flags]],
         "EXCL" \in flags => "DEV" \in flags,
         UNCHANGED <<alt_max_fd, redirects, held>>
  PROVE  PoolInv'
<1> USE DEF PoolInv, FilesTypeOK
<1> DEFINE new == [dev |-> alt_fd_list[f].dev, flags |-> flags]
<1>0. f \in Fds /\ alt_fd_list[f] \in Entry
  OBVIOUS
<1>1. new \in Entry /\ new.dev = alt_fd_list[f].dev /\ new.flags = flags
  BY <1>0 DEF Entry
<1>2. "EXCL" \in flags => "EXCL" \in alt_fd_list[f].flags
  BY DEF Internal
<1>3. "DEV" \in flags => "DEV" \in alt_fd_list[f].flags
  BY DEF Internal
<1>4. alt_fd_list' = [alt_fd_list EXCEPT ![f] = new]
  OBVIOUS
<1> HIDE DEF new
<1>5. \A g \in Fds : alt_fd_list'[g] = IF g = f THEN new ELSE alt_fd_list[g]
  BY <1>0, <1>4
<1>6. FilesTypeOK'
  BY <1>0, <1>1, <1>4, <1>5 DEF StandardFds
<1>7. NoLeak'
  BY <1>0, <1>1, <1>5 DEF NoLeak
<1>8. LockInv'
  BY <1>0, <1>1, <1>2, <1>3, <1>5 DEF LockInv
<1> QED
  BY <1>6, <1>7, <1>8

LEMMA NextPool == PoolInv /\ [FilesNext]_filesvars => PoolInv'
<1> SUFFICES ASSUME PoolInv, [FilesNext]_filesvars PROVE PoolInv'
  OBVIOUS
<1>1. ASSUME NEW ok \in BOOLEAN, Redirect(ok) PROVE PoolInv'
  BY <1>1, RedirectPool
<1>2. ASSUME NEW name \in Name, NEW bits \in SUBSET Bits, NEW ok \in BOOLEAN,
             Open(name, bits, ok)
      PROVE  PoolInv'
  BY <1>2, OpenPool
<1>3. ASSUME NEW f \in held, CloseFd(f) PROVE PoolInv'
  BY <1>3, ClosePool
<1>4. ASSUME NEW f \in held, Lock(f) PROVE PoolInv'
  BY <1>4, LockPool
<1>5. ASSUME NEW f \in held, Unlock(f) PROVE PoolInv'
  <2> DEFINE flags == alt_fd_list[f].flags \ {"EXCL"}
  <2>1. f \in Fds /\ alt_fd_list[f] \in Entry
    BY DEF PoolInv, FilesTypeOK
  <2>2. flags \in SUBSET Bits /\ flags \cap Internal \subseteq alt_fd_list[f].flags
    BY <2>1 DEF Entry
  <2>3. [alt_fd_list[f] EXCEPT !.flags = flags] = [dev |-> alt_fd_list[f].dev, flags |-> flags]
    BY <2>1 DEF Entry
  <2>4. alt_fd_list' = [alt_fd_list EXCEPT ![f] = [dev |-> alt_fd_list[f].dev, flags |-> flags]]
    BY <1>5, <2>3 DEF Unlock
  <2>5. UNCHANGED <<alt_max_fd, redirects, held>> /\ "EXCL" \notin flags
    BY <1>5 DEF Unlock
  <2> HIDE DEF flags
  <2> QED
    BY <2>2, <2>4, <2>5, FlagsPool
<1>6. ASSUME NEW f \in held, NEW bits \in SUBSET Bits, SetFlags(f, bits) PROVE PoolInv'
  <2> DEFINE flags == (alt_fd_list[f].flags \ Fcntl) \cup (bits \cap Fcntl)
  <2>1. f \in Fds /\ alt_fd_list[f] \in Entry
    BY DEF PoolInv, FilesTypeOK
  <2>2. flags \in SUBSET Bits /\ flags \cap Internal \subseteq alt_fd_list[f].flags
    BY <2>1 DEF Entry, Bits, Internal, Fcntl
  <2>3. "EXCL" \in flags => "DEV" \in flags
    BY <2>1 DEF PoolInv, LockInv, Fcntl
  <2>4. [alt_fd_list[f] EXCEPT !.flags = flags] = [dev |-> alt_fd_list[f].dev, flags |-> flags]
    BY <2>1 DEF Entry
  <2>5. alt_fd_list' = [alt_fd_list EXCEPT ![f] = [dev |-> alt_fd_list[f].dev, flags |-> flags]]
    BY <1>6, <2>4 DEF SetFlags
  <2>6. UNCHANGED <<alt_max_fd, redirects, held>>
    BY <1>6 DEF SetFlags
  <2> HIDE DEF flags
  <2> QED
    BY <2>2, <2>3, <2>5, <2>6, FlagsPool
<1>7. CASE UNCHANGED filesvars
  BY <1>7 DEF filesvars, PoolInv, FilesTypeOK, NoLeak, LockInv
<1> QED
  BY <1>1, <1>2, <1>3, <1>4, <1>5, <1>6, <1>7 DEF FilesNext

(* The invariant of the pool: types and high-water mark, no leak, and      *)
(* where locks can sit.                                                    *)
THEOREM PoolInvariance == FilesSpec => []PoolInv
  BY InitPool, NextPool, PTL DEF FilesSpec

(* Whatever fails half way, the pool holds what the program holds.         *)
THEOREM NoDescriptorLeaks == FilesSpec => []NoLeak
<1>1. PoolInv => NoLeak
  BY DEF PoolInv
<1> QED
  BY <1>1, PoolInvariance, PTL

(* Two descriptors never both have a device locked, despite the search     *)
(* that stops one short.                                                   *)
THEOREM OneLockPerDevice == FilesSpec => []OneLock
<1>1. PoolInv => OneLock
  BY DEF PoolInv, LockInv, OneLock
<1> QED
  BY <1>1, PoolInvariance, PTL

(* open never hands out a second descriptor for a locked device.           *)
THEOREM LocksAreRespected == FilesSpec => OpenRespectsLock
<1> DEFINE A == \A f \in held' \ held, g \in Fds :
                  ~(/\ "EXCL" \in alt_fd_list[g].flags
                    /\ alt_fd_list[g].dev = alt_fd_list'[f].dev)
<1>1. PoolInv /\ [FilesNext]_filesvars => [A]_filesvars
  <2> SUFFICES ASSUME PoolInv, FilesNext PROVE A
    OBVIOUS
  <2>1. ASSUME NEW name \in Name, NEW bits \in SUBSET Bits, NEW ok \in BOOLEAN,
               Open(name, bits, ok)
        PROVE  A
    <3>1. PICK o \in Outcomes(name, bits, ok) :
             /\ alt_fd_list' = o.list
             /\ held' = IF o.fd >= 0 THEN held \cup {o.fd} ELSE held
      BY <2>1 DEF Open
    <3>2. Failed(o) \/ Succeeded(o, name, bits)
      BY <3>1, OutcomeFacts
    <3>3. CASE Failed(o)
      BY <3>1, <3>3 DEF Failed
    <3>4. CASE Succeeded(o, name, bits)
      <4>1. alt_fd_list'[o.fd].dev = name
        BY <3>1, <3>4 DEF Succeeded, EntryFor, PoolInv, FilesTypeOK
      <4>2. held' \ held \subseteq {o.fd}
        BY <3>1
      <4> QED
        BY <3>4, <4>1, <4>2 DEF Succeeded
    <3> QED
      BY <3>2, <3>3, <3>4
  <2>2. held' \subseteq held \/ \E name \in Name, bits \in SUBSET Bits, ok \in BOOLEAN :
                                  Open(name, bits, ok)
    BY DEF FilesNext, Redirect, CloseFd, Lock, Unlock, SetFlags
  <2> QED
    BY <2>1, <2>2
<1> QED
  BY <1>1, PoolInvariance, PTL DEF FilesSpec, OpenRespectsLock

=============================================================================
