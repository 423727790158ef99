---------------------------- MODULE WriteChannel ----------------------------
(***************************************************************************)
(* What the transmit half of the JTAG UART promises a program: the bytes   *)
(* of each write leave, in order and each once, from the front of the      *)
(* buffer it passes; they reach the host in that order; a write that stops *)
(* early has taken a prefix, and its result is the length of the prefix.   *)
(***************************************************************************)
EXTENDS Integers, Sequences

CONSTANTS Byte, Capacity, Refusals   \* Refusals: the error results of a write

VARIABLES
  offered,   \* what the write in progress has still to hand over
  taken,     \* how many bytes of it the channel has taken
  chan,      \* bytes on their way to the host, oldest first
  result     \* result of the last write, 0 while one is in progress

vars == <<offered, taken, chan, result>>

Init == offered = <<>> /\ taken = 0 /\ chan = <<>> /\ result = 0

Offer ==
  /\ offered = <<>> /\ taken = 0
  /\ offered' \in Seq(Byte)
  /\ result' = 0
  /\ UNCHANGED <<taken, chan>>

Accept(n) ==
  /\ n \in 1 .. Len(offered)
  /\ Len(chan) + n <= Capacity
  /\ chan' = chan \o SubSeq(offered, 1, n)
  /\ offered' = SubSeq(offered, n + 1, Len(offered))
  /\ taken' = taken + n
  /\ UNCHANGED result

Finish ==
  /\ result' \in (IF taken > 0 THEN {taken} ELSE Refusals)
  /\ offered' = <<>>
  /\ taken' = 0
  /\ UNCHANGED chan

Deliver ==
  /\ chan # <<>>
  /\ chan' = Tail(chan)
  /\ UNCHANGED <<offered, taken, result>>

Next == Offer \/ (\E n \in 1 .. Len(offered) : Accept(n)) \/ Finish \/ Deliver

Spec == Init /\ [][Next]_vars

=============================================================================
