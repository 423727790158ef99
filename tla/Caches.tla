-------------------------------- MODULE Caches --------------------------------
(***************************************************************************)
(* The cache routines of the HAL: flushing a region, with and without      *)
(* writing it back, flushing everything, and memory that is taken out of   *)
(* the data cache and given back to it.  Both caches are direct mapped; a  *)
(* memory line is the unit they hold.  What memory contains is left out:   *)
(* what matters is which lines a cache holds and which of them are dirty.  *)
(*                                                                         *)
(* The processor of this design has no caches and these routines are empty *)
(* on it; the module is what they do on one that has.                      *)
(***************************************************************************)
EXTENDS Integers, FiniteSets

CONSTANTS
  LINE_SIZE,       \* bytes in a line
  CacheLines,      \* lines in each cache
  MemoryLines,     \* lines of memory
  Flash,           \* the lines of it that are flash memory
  MaxBlocks,       \* bound: blocks used uncached at one time
  NoRegion         \* not a region

Region == [start : 0 .. MemoryLines * LINE_SIZE - 1, len : 0 .. MemoryLines * LINE_SIZE]
InMemory(r) == r.start + r.len <= MemoryLines * LINE_SIZE

ASSUME CacheAssumption ==
  /\ LINE_SIZE \in Nat \ {0} /\ CacheLines \in Nat \ {0} /\ MemoryLines \in Nat \ {0}
  /\ MaxBlocks \in Nat /\ Flash \subseteq 0 .. MemoryLines - 1
  /\ NoRegion \notin Region

VARIABLES
  flushda,         \* NIOS2_FLUSHDA_SUPPORTED: fixed when the program is built
  dcache, dirty,   \* lines the data cache holds, and those written to
  stale,           \* lines of flash it holds as they were before
  icache,          \* lines the instruction cache holds
  uncached,        \* blocks handed out for use around the data cache
  called           \* the flush that has just returned: its cache and region
cachevars == <<flushda, dcache, dirty, stale, icache, uncached, called>>

Line(a) == a \div LINE_SIZE
Index(l) == l % CacheLines
LinesOf(r) == {Line(a) : a \in r.start .. r.start + r.len - 1}

(* The addresses a flush of len bytes from start executes its instruction  *)
(* for: one per line length, and one more for an unaligned start.          *)
(* (Mutant: without that one.)                                             *)
Steps(start, len) == {start + k * LINE_SIZE : k \in 0 .. (len + LINE_SIZE - 1) \div LINE_SIZE - 1}

TouchedAligned(start, len) == Steps(start, len)

Touched(start, len) ==
  Steps(start, len) \cup
  (IF start % LINE_SIZE = 0 THEN {}
   ELSE {start + ((len + LINE_SIZE - 1) \div LINE_SIZE) * LINE_SIZE})

(* No more than the cache holds is ever flushed by index.                  *)
Trimmed(len) == IF len > CacheLines * LINE_SIZE THEN CacheLines * LINE_SIZE ELSE len

(* flushd and flushi drop whatever line has the index of the address,      *)
(* flushda and initda the line of the address alone.  (Mutant: the region  *)
(* is trimmed although only its own lines are flushed.)                    *)
ByIndex(held, touched) == {l \in held : \E a \in touched : Index(Line(a)) = Index(l)}
ByAddress(held, touched) == {l \in held : \E a \in touched : Line(a) = l}

FlushedTrims(r) ==
  IF flushda THEN ByAddress(dcache, Touched(r.start, Trimmed(r.len)))
  ELSE ByIndex(dcache, Touched(r.start, Trimmed(r.len)))

Flushed(r) ==
  IF flushda THEN ByAddress(dcache, Touched(r.start, r.len))
  ELSE ByIndex(dcache, Touched(r.start, Trimmed(r.len)))

Discarded(r) == ByAddress(dcache, Touched(r.start, r.len))

Drop(lines) ==
  dcache' = dcache \ lines /\ dirty' = dirty \ lines /\ stale' = stale \ lines
-----------------------------------------------------------------------------
CacheInit ==
  /\ flushda \in BOOLEAN
  /\ dcache = {} /\ dirty = {} /\ stale = {} /\ icache = {}
  /\ uncached = {}
  /\ called = NoRegion

Shared(a) == \E b \in uncached : a \in b.start .. b.start + b.len - 1

(* A store or a load of the program: its line takes the place of the one   *)
(* with the same index.  A block handed out uncached is not used this way, *)
(* and nothing is stored in flash.                                         *)
Cached(a, store) ==
  LET evicted == {l \in dcache : Index(l) = Index(Line(a)) /\ l # Line(a)}
  IN  /\ ~ Shared(a)
      /\ store => Line(a) \notin Flash
      /\ dcache' = (dcache \ evicted) \cup {Line(a)}
      /\ stale' = stale \ evicted
      /\ dirty' = (dirty \ evicted) \cup (IF store THEN {Line(a)} ELSE {})
      /\ called' = NoRegion
      /\ UNCHANGED <<flushda, icache, uncached>>

Fetch(l) ==
  /\ icache' = {k \in icache : Index(k) # Index(l)} \cup {l}
  /\ called' = NoRegion
  /\ UNCHANGED <<flushda, dcache, dirty, stale, uncached>>

alt_dcache_flush(r) ==
  /\ Drop(Flushed(r))
  /\ called' = [cache |-> "data", region |-> r, lost |-> {}]
  /\ UNCHANGED <<flushda, icache, uncached>>

alt_dcache_flush_no_writeback(r) ==
  /\ Drop(Discarded(r))
  /\ called' = [cache |-> "data", region |-> r, lost |-> dirty \cap Discarded(r)]
  /\ UNCHANGED <<flushda, icache, uncached>>

All == [start |-> 0, len |-> CacheLines * LINE_SIZE]

alt_dcache_flush_all ==
  /\ Drop(ByIndex(dcache, Steps(0, All.len)))
  /\ called' = [cache |-> "data", region |-> All, lost |-> {}]
  /\ UNCHANGED <<flushda, icache, uncached>>

(* alt_icache_flush_all is this with the region All. *)
alt_icache_flush(r) ==
  /\ icache' = icache \ ByIndex(icache, Touched(r.start, Trimmed(r.len)))
  /\ called' = [cache |-> "instruction", region |-> r, lost |-> {}]
  /\ UNCHANGED <<flushda, dcache, dirty, stale, uncached>>

(* alt_remap_uncached and alt_uncached_malloc flush the block and hand out *)
(* an address of it that goes around the cache.  The block has its lines   *)
(* to itself: nothing in the code sees to that, see Unshared.  (Mutant:    *)
(* the flush is forgotten.)                                                *)
Unshared(r) == r.start % LINE_SIZE = 0 /\ r.len % LINE_SIZE = 0 /\ r.len > 0

alt_remap_uncachedUnflushed(r) ==
  /\ Unshared(r) /\ Cardinality(uncached) < MaxBlocks
  /\ uncached' = uncached \cup {r}
  /\ called' = NoRegion
  /\ UNCHANGED <<flushda, dcache, dirty, stale, icache>>

alt_remap_uncached(r) ==
  /\ Unshared(r) /\ Cardinality(uncached) < MaxBlocks
  /\ uncached' = uncached \cup {r}
  /\ Drop(Flushed(r))
  /\ called' = NoRegion
  /\ UNCHANGED <<flushda, icache>>

(* alt_remap_cached and alt_uncached_free. *)
alt_remap_cached(r) ==
  /\ uncached' = uncached \ {r}
  /\ called' = NoRegion
  /\ UNCHANGED <<flushda, dcache, dirty, stale, icache>>

(* The driver erases or programs part of the flash; if it says that it has *)
(* failed, nothing has changed.  What the data cache holds of that part is *)
(* then flushed.  alt_erase_flash_block flushes the block,                 *)
(* alt_write_flash_block the data it has programmed in it.  (Mutant: as    *)
(* many bytes from the start of the block.)                                *)
ProgramFlash(changed, flushed) ==
  LET dropped == Flushed(flushed)
  IN  /\ dcache' = dcache \ dropped /\ dirty' = dirty \ dropped
      /\ stale' = (stale \cup (dcache \cap LinesOf(changed))) \ dropped
      /\ called' = [cache |-> "data", region |-> flushed, lost |-> {}]
      /\ UNCHANGED <<flushda, icache, uncached>>

InFlash(r) == r.len > 0 /\ LinesOf(r) \subseteq Flash

alt_erase_flash_block(block) == InFlash(block) /\ ProgramFlash(block, block)

InBlock(data, block) ==
  data.start >= block.start /\ data.start + data.len <= block.start + block.len

alt_write_flash_blockFromStart(block, data) ==
  /\ InFlash(block) /\ InFlash(data) /\ InBlock(data, block)
  /\ ProgramFlash(data, [start |-> block.start, len |-> data.len])

alt_write_flash_block(block, data) ==
  /\ InFlash(block) /\ InFlash(data) /\ InBlock(data, block)
  /\ ProgramFlash(data, data)

CacheNext ==
  \/ \E a \in 0 .. MemoryLines * LINE_SIZE - 1, store \in BOOLEAN : Cached(a, store)
  \/ \E l \in 0 .. MemoryLines - 1 : Fetch(l)
  \/ \E r \in Region : InMemory(r) /\ ( \/ alt_dcache_flush(r)
                                        \/ alt_dcache_flush_no_writeback(r)
                                        \/ alt_icache_flush(r)
                                        \/ alt_remap_uncached(r)
                                        \/ alt_erase_flash_block(r) )
  \/ \E block, data \in Region :
       InMemory(block) /\ InMemory(data) /\ alt_write_flash_block(block, data)
  \/ alt_dcache_flush_all
  \/ \E r \in uncached : alt_remap_cached(r)

CacheSpec == CacheInit /\ [][CacheNext]_cachevars
-----------------------------------------------------------------------------
CacheTypeOK ==
  /\ dirty \subseteq dcache /\ dcache \subseteq 0 .. MemoryLines - 1
  /\ stale \subseteq dcache
  /\ icache \subseteq 0 .. MemoryLines - 1
  /\ \A l, k \in dcache : Index(l) = Index(k) => l = k

(* When a flush returns, no line its region touches is left in the cache,  *)
(* wherever in its lines the region starts and ends, also when it is       *)
(* longer than the cache and was trimmed (alt_dcache_flush.c:63-92,        *)
(* alt_icache_flush.c:50-75).                                              *)
FlushReaches ==
  called # NoRegion =>
    LinesOf(called.region) \cap (IF called.cache = "data" THEN dcache ELSE icache) = {}

(* A flush without write-back throws away the changes of lines of its      *)
(* region only, if that starts at a line; else it may throw away those of  *)
(* one line more, which begins less than a line behind the region          *)
(* (alt_dcache_flush_no_writeback.c:71-85).                                *)
DiscardIsNear ==
  called # NoRegion =>
    LET r == called.region
    IN  called.lost \subseteq
          IF r.start % LINE_SIZE = 0 THEN LinesOf(r)
          ELSE LinesOf([r EXCEPT !.len = @ + LINE_SIZE - 1])

(* What alt_cache.h:64-66 says: it flushes the data cache for a region (of *)
(* at least one byte).  It is false of the code: where the whole lines     *)
(* from an unaligned start take in the last byte already, the line for     *)
(* which lines 82-85 execute initda once more lies behind the region, and  *)
(* its changes are lost.                                                   *)
DiscardIsLocal ==
  called # NoRegion /\ called.region.len > 0 => called.lost \subseteq LinesOf(called.region)

(* While a block is used around the cache, the cache holds no line of it:  *)
(* no write-back can overwrite it and no load can find an old copy         *)
(* (alt_remap_uncached.c:47-51, alt_uncached_malloc.c:46-55).              *)
UncachedStaysOut == \A b \in uncached : LinesOf(b) \cap dcache = {}

(* After flash has been erased or programmed, a load through the data cache*)
(* never finds what was there before (alt_flash.h:113-158).                *)
FlashIsFresh == stale = {}
=============================================================================
