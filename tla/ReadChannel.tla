----------------------------- MODULE ReadChannel -----------------------------
(***************************************************************************)
(* What the receive half of the JTAG UART promises a program: the bytes    *)
(* the host sends are handed to the reads in order and each once, a read   *)
(* stores a prefix of what is on its way, and its result is the number of  *)
(* bytes it stored, or an error if that is none.                           *)
(***************************************************************************)
EXTENDS Integers, Sequences

CONSTANTS Byte, Capacity, Refusals   \* Refusals: the error results of a read

VARIABLES
  chan,      \* bytes on their way to the program, oldest first
  stored,    \* what the read in progress has stored in the caller's buffer
  result     \* result of the last read, 0 while one is in progress

vars == <<chan, stored, result>>

Init == chan = <<>> /\ stored = <<>> /\ result = 0

Send ==
  /\ Len(chan) < Capacity
  /\ \E b \in Byte : chan' = Append(chan, b)
  /\ UNCHANGED <<stored, result>>

Start ==
  /\ stored = <<>>
  /\ result' = 0
  /\ UNCHANGED <<chan, stored>>

Store(n) ==
  /\ n \in 1 .. Len(chan)
  /\ stored' = stored \o SubSeq(chan, 1, n)
  /\ chan' = SubSeq(chan, n + 1, Len(chan))
  /\ UNCHANGED result

Finish ==
  /\ result' \in (IF stored # <<>> THEN {Len(stored)} ELSE Refusals)
  /\ stored' = <<>>
  /\ UNCHANGED chan

Next == Send \/ Start \/ (\E n \in 1 .. Len(chan) : Store(n)) \/ Finish

Spec == Init /\ [][Next]_vars

=============================================================================
