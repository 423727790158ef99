------------------------------ MODULE MCJtagUart ------------------------------
(* Constant values for checking JtagUart with TLC. *)
EXTENDS JtagUart

NoArgs == {}
SomeArgs == {1, 3}

(* Symmetry is not used: Zero, the initial content of the buffers, singles *)
(* one character out.                                                      *)
=============================================================================
