------------------------------ MODULE BusySleep ------------------------------
(***************************************************************************)
(* usleep(): the passes its loops of two instructions make, for a delay in *)
(* microseconds.  The number a loop counts down lies in one register, so a *)
(* long delay is cut into chunks of the largest signed number of passes.   *)
(***************************************************************************)
EXTENDS Integers

CONSTANTS
  Unsigned,       \* numbers of a register (2^32)
  IntMax,         \* the largest signed one
  ALT_CPU_FREQ,   \* cycles of the processor in a second
  Micro,          \* microseconds in a second (1000000)
  Tiny            \* NIOS2_CPU_IMPLEMENTATION is "tiny", as here

(* Cycles that a pass of a loop takes.                                     *)
cycles_per_loop == IF Tiny THEN 9 ELSE 3

(* Passes in a microsecond, and what the division leaves.  (This system's  *)
(* 50 MHz are 5 passes in a microsecond, and 5 of 50 cycles are left.)     *)
PerMicro == ALT_CPU_FREQ \div (cycles_per_loop * Micro)
Rest == ALT_CPU_FREQ % (cycles_per_loop * Micro)

ASSUME SleepAssumption ==
  /\ Unsigned \in Nat /\ IntMax = (Unsigned \div 2) - 1
  /\ ALT_CPU_FREQ \in Nat /\ Micro \in Nat \ {0} /\ Tiny \in BOOLEAN
  /\ PerMicro \in 1 .. IntMax

(* addi, bne: the register is decremented before it is tested.             *)
Counted(n) == IF n = 0 THEN Unsigned ELSE n

(* addi, bgt.                                                              *)
CountedSigned(n) == IF n = 0 THEN 1 ELSE n

(* The microseconds of a chunk.  (Mutant: as many as a register holds.)    *)
ChunkInPasses == IntMax
Chunk == IntMax \div PerMicro

(* The loop for a chunk changes a register that the compiler was told is   *)
(* only read: it may load INT_MAX anew for each chunk, or find what the    *)
(* chunk before has left there, zero.                                      *)
alt_busy_sleep(us, reloaded) ==
  LET big_loops == us \div Chunk
      rest == ((us - big_loops * Chunk) * PerMicro) % Unsigned
  IN  IF big_loops = 0 THEN CountedSigned(rest)
      ELSE (IF reloaded THEN big_loops * IntMax
            ELSE IntMax + (big_loops - 1) * Counted(0))
           + Counted(rest)
-----------------------------------------------------------------------------
(* Cycles are compared with the time asked for, both times Micro.          *)
Spends(us, reloaded) == alt_busy_sleep(us, reloaded) * (cycles_per_loop * Micro)

(* A delay is short by less than a pass for each microsecond, for the      *)
(* division truncates: exactly by what it leaves if the delay is shorter   *)
(* than a chunk (alt_busy_sleep.c:74-130).  It is never too long but for   *)
(* the rounding of each chunk and one pass, unless it is a whole number of *)
(* chunks - then the last loop, given zero, counts through all numbers of  *)
(* a register (line 112) - or INT_MAX is not loaded anew.                  *)
SleepsNearly(us) ==
  /\ us > 0 => \A reloaded \in BOOLEAN :
       /\ Spends(us, reloaded) + us * (cycles_per_loop * Micro) > us * ALT_CPU_FREQ
       /\ us < Chunk => Spends(us, reloaded) = us * (ALT_CPU_FREQ - Rest)
  /\ \/ us \div Chunk > 0 /\ us % Chunk = 0
     \/ Spends(us, TRUE) <= (us + us \div Chunk) * ALT_CPU_FREQ + cycles_per_loop * Micro
=============================================================================
