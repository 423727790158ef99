------------------------------- MODULE Profiler -------------------------------
(***************************************************************************)
(* The call graph of a profiled program.  The compiler calls mcount() at   *)
(* the start of each function, of the program's and of the interrupt       *)
(* handlers'; it walks two linked lists and counts a call with interrupts  *)
(* enabled, and adds to the lists with interrupts disabled.  Memory comes  *)
(* from sbrk().  The functions here share one hash bucket.                 *)
(***************************************************************************)
EXTENDS Integers, Sequences, FiniteSets, FiniteSetsExt

CONSTANTS
  Arc,          \* pairs <<function called, caller>>
  MaxCalls,     \* bound: MaxCalls[p], calls made by p
  HeapLimit, Align, Record, Slab, Block,   \* heap: its size, the alignment of
                \* sbrk (4), bytes of a list record (12), of a slab (1020) and of
                \* a block that the program asks for
  TextBytes, BucketBytes   \* sizes the text section may have, of a sample bucket

ASSUME ProfilerAssumption ==
  /\ {HeapLimit, Align, Record, Slab, Block, BucketBytes} \cup TextBytes \subseteq Nat \ {0}
  /\ \A a \in Arc : a = <<a[1], a[2]>>

Caller == {"program", "interrupt"}

VARIABLES
  head,         \* __mcount_fn_head: the first function record, 0: none
  entries,      \* function records [self_pc, arc_head, next]
  arcs,         \* arc records [from_pc, count, next]
  m,            \* m[p]: mcount() of p: its stage, arguments and registers
  calls,        \* calls[p][a]: calls of arc a that p has had counted
  cut,          \* where an interrupt has come: before a "store", before a "clear"
                \* of pcsample_need_init, else in a "walk"
  heap_end, blocks,   \* sbrk(): and the blocks <<start, bytes>> it has returned
  mcount_slab_size,
  wild,         \* a record has been put where sbrk(), failing, pointed
  pcsample_need_init, started,  \* the sampler, and how often its alarm was started
  clock_runs,   \* alt_ticks_per_second() is not zero
  text, s_pcsamples, stray   \* size of the text, of the histogram; a sample was
                \* counted behind the histogram

heapvars == <<heap_end, blocks, mcount_slab_size, wild>>
samplevars == <<pcsample_need_init, started, clock_runs, text, s_pcsamples, stray>>
profilervars == <<head, entries, arcs, m, calls, cut, heapvars, samplevars>>

Idle == [stage |-> "idle", self |-> 0, from |-> 0, r10 |-> 0, r3 |-> 0, r2 |-> 0]

ProfilerInit ==
  /\ head = 0 /\ entries = << >> /\ arcs = << >>
  /\ m = [p \in Caller |-> Idle]
  /\ calls = [p \in Caller |-> [a \in Arc |-> 0]]
  /\ cut = {}
  /\ heap_end = 0 /\ blocks = << >> /\ mcount_slab_size = 0 /\ wild = FALSE
  /\ pcsample_need_init = TRUE /\ started = 0 /\ clock_runs = FALSE
  /\ text \in TextBytes /\ s_pcsamples = 0 /\ stray = FALSE

Running(p) ==
  /\ ~wild
  /\ p = "program" => m["interrupt"].stage = "idle"

Made(p) == MapThenSumSet(LAMBDA a : calls[p][a], Arc)

-----------------------------------------------------------------------------
(* sbrk(bytes): the heap_end and the block afterwards; no block if the     *)
(* heap is exhausted.  (Mutant: it tests where the block starts.)          *)
RoundUp(x) == ((x + Align - 1) \div Align) * Align

FitsIfStarts(bytes) == RoundUp(heap_end) <= HeapLimit
Fits(bytes) == RoundUp(heap_end) + bytes <= HeapLimit

alt_sbrk(bytes) ==
  IF Fits(bytes)
  THEN /\ heap_end' = RoundUp(heap_end) + bytes
       /\ blocks' = Append(blocks, <<RoundUp(heap_end), bytes>>)
  ELSE /\ heap_end' = RoundUp(heap_end)
       /\ UNCHANGED blocks

Malloc ==
  /\ Running("program") /\ m["program"].stage = "idle"
  /\ Len(blocks) < 3
  /\ alt_sbrk(Block)
  /\ UNCHANGED <<head, entries, arcs, m, calls, cut, mcount_slab_size, wild, samplevars>>

(* mcount_allocate() for the records of one call; sbrk() is not checked.   *)
Allocate(records) ==
  LET bytes == records * Record
  IN  IF mcount_slab_size >= bytes
      THEN /\ mcount_slab_size' = mcount_slab_size - bytes
           /\ UNCHANGED <<heap_end, blocks, wild>>
      ELSE /\ alt_sbrk(Slab)
           /\ mcount_slab_size' = Slab
                - (IF records = 2 /\ mcount_slab_size >= Record THEN Record ELSE bytes)
           /\ wild' = ~Fits(Slab)

-----------------------------------------------------------------------------
(* mcount() is called; if by an interrupt handler, wherever the program is *)
(* then: interrupts are disabled in none of the program's stages.          *)
mcount(p, a) ==
  /\ Running(p) /\ m[p].stage = "idle" /\ Made(p) < MaxCalls[p]
  /\ m' = [m EXCEPT ![p] = [Idle EXCEPT !.stage = "function", !.self = a[1],
                                        !.from = a[2], !.r10 = head]]
  /\ cut' = IF p = "program" \/ m["program"].stage = "idle" THEN cut
            ELSE cut \cup {IF m["program"].stage = "store" THEN "store" ELSE "walk"}
                     \cup ({m["program"].stage} \cap {"clear"})
  /\ UNCHANGED <<head, entries, arcs, calls, heapvars, samplevars>>

FindFunction(p) ==
  LET r == m[p]
  IN  /\ Running(p) /\ r.stage = "function"
      /\ m' = [m EXCEPT ![p] =
           IF r.r10 = 0 THEN [r EXCEPT !.stage = "record"]
           ELSE IF entries[r.r10].self_pc = r.self
                THEN [r EXCEPT !.stage = "arc", !.r3 = entries[r.r10].arc_head]
                ELSE [r EXCEPT !.r10 = entries[r.r10].next]]
      /\ UNCHANGED <<head, entries, arcs, calls, cut, heapvars, samplevars>>

FindArc(p) ==
  LET r == m[p]
  IN  /\ Running(p) /\ r.stage = "arc"
      /\ m' = [m EXCEPT ![p] =
           IF arcs[r.r3].from_pc = r.from
           THEN [r EXCEPT !.stage = "store", !.r2 = arcs[r.r3].count + 1]
           ELSE IF arcs[r.r3].next # 0 THEN [r EXCEPT !.r3 = arcs[r.r3].next]
           ELSE [r EXCEPT !.stage = "record"]]
      /\ UNCHANGED <<head, entries, arcs, calls, cut, heapvars, samplevars>>

Count(p) ==
  /\ m' = [m EXCEPT ![p] = Idle]
  /\ calls' = [calls EXCEPT ![p][<<m[p].self, m[p].from>>] = @ + 1]

FoundArc(p) ==
  /\ Running(p) /\ m[p].stage = "store"
  /\ arcs' = [arcs EXCEPT ![m[p].r3].count = m[p].r2]
  /\ Count(p)
  /\ UNCHANGED <<head, entries, cut, heapvars, samplevars>>

(* __mcount_record() first tests whether the sampler is to be started, and *)
(* in a step of its own says that this need not be tried again.  (Mutant:  *)
(* it leaves that to what nios2_pcsample_init() returns.)                  *)
TryInit(p) ==
  /\ Running(p) /\ m[p].stage = "record"
  /\ m' = [m EXCEPT ![p].stage = IF pcsample_need_init THEN "clear" ELSE "insert"]
  /\ UNCHANGED <<head, entries, arcs, calls, cut, heapvars, samplevars>>

ClearNeedInitLeaves(p) ==
  /\ Running(p) /\ m[p].stage = "clear"
  /\ m' = [m EXCEPT ![p].stage = "init"]
  /\ UNCHANGED <<head, entries, arcs, calls, cut, heapvars, samplevars>>

ClearNeedInit(p) ==
  /\ Running(p) /\ m[p].stage = "clear"
  /\ m' = [m EXCEPT ![p].stage = "init"]
  /\ pcsample_need_init' = FALSE
  /\ UNCHANGED <<head, entries, arcs, calls, cut, heapvars, started, clock_runs, text,
                 s_pcsamples, stray>>

nios2_pcsample_init(p) ==
  LET size == text \div BucketBytes
  IN  /\ Running(p) /\ m[p].stage = "init"
      /\ m' = [m EXCEPT ![p].stage = "insert"]
      /\ IF ~clock_runs
         THEN /\ pcsample_need_init' = TRUE
              /\ UNCHANGED <<heapvars, started, s_pcsamples>>
         ELSE /\ alt_sbrk(2 * size)
              /\ wild' = ~Fits(2 * size)
              /\ s_pcsamples' = size
              /\ started' = started + 1
              /\ pcsample_need_init' = FALSE
              /\ UNCHANGED mcount_slab_size
      /\ UNCHANGED <<head, entries, arcs, calls, cut, clock_runs, text, stray>>

(* With interrupts disabled: a function record unless the walk has found   *)
(* one, and an arc record, each put at the head of its list.               *)
mcount_record(p) ==
  LET known == m[p].r10 # 0
      e == IF known THEN m[p].r10 ELSE Len(entries) + 1
      a == Len(arcs) + 1
  IN  /\ Running(p) /\ m[p].stage = "insert"
      /\ Allocate(IF known THEN 1 ELSE 2)
      /\ arcs' = Append(arcs, [from_pc |-> m[p].from, count |-> 1,
                               next |-> IF known THEN entries[e].arc_head ELSE 0])
      /\ IF known
         THEN entries' = [entries EXCEPT ![e].arc_head = a] /\ UNCHANGED head
         ELSE /\ entries' = Append(entries, [self_pc |-> m[p].self, arc_head |-> a,
                                             next |-> head])
              /\ head' = e
      /\ Count(p)
      /\ UNCHANGED <<cut, samplevars>>

StartClock ==
  /\ ~clock_runs /\ Running("program") /\ m["program"].stage = "idle"
  /\ clock_runs' = TRUE
  /\ UNCHANGED <<head, entries, arcs, m, calls, cut, heapvars, pcsample_need_init,
                 started, text, s_pcsamples, stray>>

(* The sampler's alarm, at an instruction anywhere in the text.            *)
nios2_pcsample(offset) ==
  /\ ~wild /\ started > 0
  /\ stray' = (stray \/ offset \div BucketBytes >= s_pcsamples)
  /\ UNCHANGED <<head, entries, arcs, m, calls, cut, heapvars, pcsample_need_init,
                 started, clock_runs, text, s_pcsamples>>

ProfilerNext ==
  \/ Malloc \/ StartClock
  \/ \E p \in Caller :
       \/ \E a \in Arc : mcount(p, a)
       \/ FindFunction(p) \/ FindArc(p) \/ FoundArc(p)
       \/ TryInit(p) \/ ClearNeedInit(p) \/ nios2_pcsample_init(p) \/ mcount_record(p)
  \/ \E offset \in 0 .. text - 1 : nios2_pcsample(offset)

ProfilerSpec == ProfilerInit /\ [][ProfilerNext]_profilervars
-----------------------------------------------------------------------------
(* The records of a list: those in every set that holds the first, and     *)
(* with each record the next.                                              *)
HoldsList(S, start, next) ==
  (start # 0 => start \in S) /\ \A i \in S : next[i] # 0 => next[i] \in S
Listed(start, next) ==
  {i \in DOMAIN next : \A S \in SUBSET DOMAIN next : HoldsList(S, start, next) => i \in S}

FunctionRecords == Listed(head, [i \in DOMAIN entries |-> entries[i].next])
ArcsOf(e) == Listed(entries[e].arc_head, [i \in DOMAIN arcs |-> arcs[i].next])
Copies(a) ==
  UNION {{i \in ArcsOf(e) : arcs[i].from_pc = a[2]} :
         e \in {e \in FunctionRecords : entries[e].self_pc = a[1]}}

SumTo(c, n) ==
  LET sum[i \in 0 .. n] == IF i = 0 THEN 0 ELSE sum[i - 1] + c[i] IN sum[n]
Total(a) ==
  SumTo([i \in DOMAIN arcs |-> IF i \in Copies(a) THEN arcs[i].count ELSE 0], Len(arcs))

(* The copies of an arc together count every call the program has made,    *)
(* and no call twice; calls of interrupt handlers are lost only where one  *)
(* has come between the load of a counter and its store, and there is more *)
(* than one copy only where one has come while the program walked the      *)
(* lists (alt_mcount.S:69-84, 118-123, alt_gmon.c:173-206).                *)
CallsCounted ==
  ~wild => \A a \in Arc :
    LET all == calls["program"][a] + calls["interrupt"][a]
    IN  /\ calls["program"][a] <= Total(a) /\ Total(a) <= all
        /\ "store" \notin cut => Total(a) = all
        /\ "walk" \notin cut => Cardinality(Copies(a)) <= 1

(* The sampler is tried with every new arc until it has started, and never *)
(* forgotten; it starts a second time only where an interrupt handler has  *)
(* started it between the program's test of pcsample_need_init and the     *)
(* clearing of it, and never a third (alt_gmon.c:164-171, 216-242).        *)
SamplerStarts ==
  /\ pcsample_need_init => started = 0
  /\ started = 0 /\ ~pcsample_need_init => \E p \in Caller : m[p].stage = "init"
  /\ started <= 2
  /\ started = 2 => "clear" \in cut

(* What alt_gmon.c:210-214 says: nios2_pcsample_init() is called until it  *)
(* returns zero, which it does once it has started the alarm.  It is false *)
(* of the code: a handler's mcount() between lines 167 and 169 starts the  *)
(* same alarm once more, and a second histogram takes the first's place.   *)
SamplerStartsOnce == started <= 1

(* Blocks that sbrk() has returned lie in the heap and do not overlap,     *)
(* though the program and interrupt handlers both ask for them; a sample   *)
(* is counted behind its block only where the text does not fill the last  *)
(* bucket (alt_sbrk.c:68-136, alt_gmon.c:226, 263-267).                    *)
HeapBlocksApart ==
  /\ \A i \in DOMAIN blocks :
       /\ blocks[i][1] % Align = 0
       /\ blocks[i][1] + blocks[i][2] <= HeapLimit
       /\ \A j \in DOMAIN blocks : i < j => blocks[i][1] + blocks[i][2] <= blocks[j][1]
  /\ stray => text % BucketBytes # 0
=============================================================================
