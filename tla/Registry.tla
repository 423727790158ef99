------------------------------- MODULE Registry -------------------------------
(***************************************************************************)
(* The lists of devices, DMA channels, flash devices and file systems, and *)
(* the search for a name in them.  A name is a C string: the sequence of   *)
(* its characters, followed in memory by NUL and by whatever comes then.   *)
(***************************************************************************)
EXTENDS Integers, Sequences

CONSTANTS
  Dev,        \* alt_dev structures and their like
  DevName,    \* names they are registered with
  Path,       \* names that are looked up
  Slash, NUL, \* two characters
  NULL        \* no structure, no name

ASSUME RegistryAssumption ==
  /\ NULL \notin Dev /\ NULL \notin DevName
  /\ \A n \in DevName \cup Path : n \in Seq({n[i] : i \in 1 .. Len(n)})
  /\ <<>> \notin DevName
  /\ \A n \in DevName \cup Path : \A i \in 1 .. Len(n) : n[i] # NUL

VARIABLES
  lists,      \* alt_dev_list, alt_dma_txchan_list, ..., alt_fs_list
  ALT_ERRNO

registryvars == <<lists, ALT_ERRNO>>

(* The lists for DMA receive channels and flash devices are handled by the *)
(* same code as the one for DMA transmit channels.                         *)
List == {"dev", "dma_txchan", "fs"}

Entries(l) == {lists[l][i] : i \in 1 .. Len(lists[l])}
Registered(d) == \E l \in List : \E e \in Entries(l) : e.dev = d

(* What is in memory from a name on, the first len bytes of it: the        *)
(* characters, NUL, and then bytes that are not ours.                      *)
Memory(name, len, beyond) ==
  [i \in 1 .. len |-> IF i <= Len(name) THEN name[i]
                      ELSE IF i = Len(name) + 1 THEN NUL ELSE beyond]

First(l, Matches(_)) ==
  LET hits == {i \in 1 .. Len(lists[l]) : Matches(lists[l][i].name)}
  IN  IF hits = {} THEN NULL
      ELSE lists[l][CHOOSE i \in hits : \A j \in hits : i <= j].dev

(* alt_find_dev: as many bytes as the name looked for has, its NUL         *)
(* included.  (Mutant: without it.)                                        *)
alt_find_devPrefix(name, l, beyond) ==
  First(l, LAMBDA n : Memory(n, Len(name), beyond) = Memory(name, Len(name), beyond))

alt_find_dev(name, l, beyond) ==
  First(l, LAMBDA n : Memory(n, Len(name) + 1, beyond) = Memory(name, Len(name) + 1, beyond))

(* alt_find_file: a file system's name, without a trailing slash, has to   *)
(* be followed in the path by a slash or by its end.                       *)
(* (Mutant: what follows is not looked at.)                                *)
Mount(n) == IF n[Len(n)] = Slash THEN SubSeq(n, 1, Len(n) - 1) ELSE n

alt_find_fileAnyPrefix(path, beyond) ==
  First("fs", LAMBDA n : Mount(n) = Memory(path, Len(Mount(n)), beyond))

alt_find_file(path, beyond) ==
  First("fs", LAMBDA n :
    LET len == Len(Mount(n))
    IN  /\ Memory(path, len + 1, beyond)[len + 1] \in {Slash, NUL}
        /\ Mount(n) = Memory(path, len, beyond))
-----------------------------------------------------------------------------
RegistryInit ==
  /\ lists = [l \in List |-> <<>>]
  /\ ALT_ERRNO = ""

(* alt_dev_llist_insert and alt_fs_reg: the new entry becomes the first.   *)
(* Both refuse a structure without a name; the second only by its result.  *)
(* A structure is registered once: a second insertion would tear the list. *)
Insert(l, d, name) ==
  /\ ~ Registered(d)
  /\ IF name = NULL
     THEN /\ ALT_ERRNO' = IF l = "fs" THEN ALT_ERRNO ELSE "EINVAL"
          /\ UNCHANGED lists
     ELSE /\ lists' = [lists EXCEPT ![l] = <<[dev |-> d, name |-> name]>> \o @]
          /\ UNCHANGED ALT_ERRNO

(* alt_dma_txchan_open (and alt_dma_rxchan_open). *)
OpenChannel(name, beyond) ==
  /\ ALT_ERRNO' = IF alt_find_dev(name, "dma_txchan", beyond) = NULL THEN "ENODEV" ELSE ALT_ERRNO
  /\ UNCHANGED lists

RegistryNext ==
  \/ \E l \in List, d \in Dev, name \in DevName \cup {NULL} : Insert(l, d, name)
  \/ \E name \in Path : OpenChannel(name, NUL)

RegistrySpec == RegistryInit /\ [][RegistryNext]_registryvars
-----------------------------------------------------------------------------
(* What follows the bytes of a name in memory: anything.                   *)
Beyond == {Slash, NUL} \cup {p[1] : p \in Path \ {<<>>}}

IsNewest(d, l, Named(_)) ==
  LET named == {i \in 1 .. Len(lists[l]) : Named(lists[l][i].name)}
  IN  \/ named = {} /\ d = NULL
      \/ \E i \in named : d = lists[l][i].dev /\ \A j \in named : i <= j

(* The device found is the last one registered under exactly the name      *)
(* looked for, and there is none only if nobody registered that name       *)
(* (alt_find_dev.c:54-86): no name is taken for a longer or a shorter one, *)
(* whatever lies behind it in memory.                                      *)
FindsExactly ==
  \A l \in List, name \in Path, b \in Beyond :
    IsNewest(alt_find_dev(name, l, b), l, LAMBDA n : n = name)

(* The directories a path leads through, by name. *)
Components(p) ==
  LET split[i \in 0 .. Len(p)] ==
        IF i = 0 THEN << <<>> >>
        ELSE IF p[i] = Slash THEN Append(split[i - 1], <<>>)
        ELSE [split[i - 1] EXCEPT ![Len(split[i - 1])] = Append(@, p[i])]
  IN  split[Len(p)]

Within(mount, p) ==
  LET m == Components(mount)  c == Components(p)
  IN  Len(m) <= Len(c) /\ SubSeq(c, 1, Len(m)) = m

(* The file system found is the last one registered whose mount point is   *)
(* the path or a directory on the way to it, component by component        *)
(* (alt_find_file.c:54-87); the byte the code looks at behind the end of a *)
(* shorter path never decides.                                             *)
FindsMount ==
  \A path \in Path, b \in Beyond :
    IsNewest(alt_find_file(path, b), "fs", LAMBDA n : Within(Mount(n), path))
=============================================================================
