------------------------------ MODULE MCProfiler ------------------------------
(***************************************************************************)
(* The smallest profile in which an interrupt handler can come between the *)
(* test of pcsample_need_init and its clearing: the program and a handler  *)
(* each record one arc.                                                    *)
(***************************************************************************)
EXTENDS Profiler

CONSTANTS one, main, isr    \* functions

Arcs == {<<main, one>>, <<isr, one>>}
Calls == [p \in {"program", "interrupt"} |-> 1]
=============================================================================
