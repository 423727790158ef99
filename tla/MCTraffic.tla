------------------------------ MODULE MCTraffic ------------------------------
(* The specification of JtagUart for checking it with TLC with two         *)
(* characters, its behaviours divided by the direction they travel in.     *)
(* Reads together with writes are the subject of Connected.cfg.            *)
EXTENDS JtagUart

NoArgs == {}

VARIABLE traffic

Carries ==
  /\ traffic = "receive"  => op # "write"
  /\ traffic = "transmit" => op # "read" /\ rfifo = <<>>

TrafficInit == Init /\ traffic \in {"receive", "transmit"}

TrafficNext == Next /\ UNCHANGED traffic /\ Carries'

TrafficSpec == TrafficInit /\ [][TrafficNext]_<<vars, traffic>>

(* Symmetry is not used: Zero, the initial content of the buffers, singles *)
(* one character out.                                                      *)
=============================================================================
