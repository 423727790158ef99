------------------------------ MODULE TimeOfDay ------------------------------
(***************************************************************************)
(* gettimeofday and settimeofday: the time of day is not kept anywhere, it *)
(* is computed from the tick counter and an offset, alt_resettime, which   *)
(* settimeofday sets so that the sum comes out as the time it was given.   *)
(*                                                                         *)
(* The fields of a time are integers here; the tick counter and the        *)
(* product of settimeofday have the width of the machine.                  *)
(***************************************************************************)
EXTENDS Integers

CONSTANTS
  ClockWord,    \* 32-bit arithmetic is modulo this (2^32)
  ALT_US,       \* microseconds per second (1000000)
  Rate,         \* ticks per second
  Seconds,      \* seconds settimeofday is called with
  NoTime        \* not a time

ASSUME TimeAssumption ==
  /\ ClockWord \in Nat \ {0} /\ ALT_US \in Nat \ {0}
  /\ Rate \in 1 .. ALT_US /\ ALT_US % Rate = 0
  /\ Seconds \subseteq Nat
  /\ NoTime \notin [sec : Int, usec : Int]

VARIABLES
  tick_rate,        \* alt_ticks_per_second(): zero before a clock registers
  nticks,           \* alt_nticks()
  alt_resettime,
  given             \* the last time given to settimeofday, and at which tick

clockvars == <<tick_rate, nticks, alt_resettime, given>>

Time(sec, usec) == [sec |-> sec, usec |-> usec]

(* Microseconds of the ticks that do not make up a second, as              *)
(* gettimeofday has them (64 bits) and as settimeofday does (32 bits).     *)
Fraction(n) == (n * (ALT_US \div Rate)) % ALT_US
FractionSet(n) == ((n * (ALT_US \div Rate)) % ClockWord) % ALT_US

(* The two loops that bring the microseconds into range.  A time before    *)
(* zero becomes zero.  (Mutant: the second is not borrowed.)               *)
NormalNoBorrow(sec, usec) ==
  Time(IF usec < 0 THEN sec ELSE sec + usec \div ALT_US, usec % ALT_US)

Normal(sec, usec) ==
  LET whole == sec + usec \div ALT_US
  IN  IF usec < 0 /\ whole < 0 THEN Time(0, 0) ELSE Time(whole, usec % ALT_US)

GetTimeOfDay ==
  IF tick_rate = 0 THEN NoTime
  ELSE Normal(alt_resettime.sec + nticks \div tick_rate,
              alt_resettime.usec + Fraction(nticks))

Times == IF tick_rate = 0 THEN 0 ELSE nticks
-----------------------------------------------------------------------------
ClockInit ==
  /\ tick_rate = 0
  /\ nticks = 0
  /\ alt_resettime = Time(0, 0)
  /\ given = [time |-> Time(0, 0), at |-> 0]

ClockRegisters ==
  /\ tick_rate = 0
  /\ tick_rate' = Rate
  /\ UNCHANGED <<nticks, alt_resettime, given>>

(* Once the counter has rolled over, what was given before says nothing.  *)
ClockTick ==
  /\ tick_rate # 0
  /\ nticks' = (nticks + 1) % ClockWord
  /\ given' = IF nticks' = 0 THEN NoTime ELSE given
  /\ UNCHANGED <<tick_rate, alt_resettime>>

(* settimeofday.  Without a clock it fails and changes nothing; the time   *)
(* zone is stored beside the offset and not modelled.                      *)
SetTimeOfDay(t) ==
  /\ tick_rate # 0
  /\ alt_resettime' = Time(t.sec - nticks \div tick_rate,
                           t.usec - FractionSet(nticks))
  /\ given' = [time |-> t, at |-> nticks]
  /\ UNCHANGED <<tick_rate, nticks>>

ClockNext ==
  \/ ClockRegisters
  \/ ClockTick
  \/ \E sec \in Seconds, usec \in 0 .. ALT_US - 1 : SetTimeOfDay(Time(sec, usec))

ClockSpec == ClockInit /\ [][ClockNext]_clockvars
-----------------------------------------------------------------------------
ClockTypeOK ==
  /\ tick_rate \in {0, Rate}
  /\ nticks \in 0 .. ClockWord - 1
  /\ alt_resettime.sec \in Int
  /\ alt_resettime.usec \in -(ALT_US - 1) .. ALT_US - 1
  /\ given # NoTime => given.at \in 0 .. nticks

(* gettimeofday returns the time last given to settimeofday plus the time  *)
(* the ticks since then make up (alt_gettod.c, alt_settod.c): offset,      *)
(* borrow and carry cancel for every number of ticks before and after the  *)
(* call.  Left out: a settimeofday whose product exceeds the machine word  *)
(* (see SetReadsBack), and what follows a roll-over of the tick counter.   *)
TimeAgrees ==
  tick_rate # 0 /\ given # NoTime =>
    (given.at * (ALT_US \div Rate) < ClockWord =>
       LET elapsed == (Times - given.at) * (ALT_US \div Rate)
       IN  GetTimeOfDay = Normal(given.time.sec, given.time.usec + elapsed))

(* alt_settod.c:61-63: "an immediate call to gettimeofday() would return   *)
(* the value specified".                                                   *)
SetReadsBack ==
  tick_rate # 0 /\ given # NoTime =>
    (given.at = nticks => GetTimeOfDay = given.time)
=============================================================================
