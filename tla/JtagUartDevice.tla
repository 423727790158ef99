--------------------------- MODULE JtagUartDevice ---------------------------
(***************************************************************************)
(* The JTAG UART peripheral (Nios_Qsys_jtag_uart_0.v) at the granularity   *)
(* of Avalon transfers: one step per register access of the CPU and one    *)
(* per event of the JTAG host.  The two FIFOs, the interrupt enables, the  *)
(* pause interrupt, the activity bit and the overflow bit are its state.   *)
(*                                                                         *)
(* A read of the data register takes two clocks: the FIFO is popped and    *)
(* RVALID is sampled on the first, RAVAIL is driven from the FIFO level on *)
(* the second.  A byte the host pushes on the clock of the pop is counted  *)
(* by RAVAIL but not seen by RVALID; it is the argument "arriving" of      *)
(* AfterRead.  Every other coincidence of a CPU access with a host event   *)
(* equals the two in some order, so it needs no step of its own.           *)
(***************************************************************************)
EXTENDS Integers, Sequences

CONSTANTS
  Byte,       \* the characters
  HostByte,   \* those the host sends; {}: a host that only listens
  Depth,      \* entries of each FIFO (64 in this system)
  Threshold   \* the interrupt thresholds of both FIFOs (8 in this system)

ASSUME DeviceAssumption ==
  /\ Byte # {}
  /\ HostByte \subseteq Byte
  /\ Depth \in Nat \ {0}
  /\ Threshold \in Nat
  /\ Threshold < Depth

VARIABLES
  rfifo,      \* host to CPU
  wfifo,      \* CPU to host
  ien,        \* control bits 0 and 1: "RE" (ien_AF) and "WE" (ien_AE)
  pause_irq,  \* the host paused while rfifo held data
  ac,         \* host activity since the bit was last cleared
  woverflow   \* the last write to the data register found wfifo full

device == <<rfifo, wfifo, ien, pause_irq, ac, woverflow>>

ControlBits == {"RE", "WE"}

(* Reset: FIFOs cleared, nothing enabled, nothing pending. *)
DeviceInit ==
  /\ rfifo = <<>>
  /\ wfifo = <<>>
  /\ ien = {}
  /\ pause_irq = FALSE
  /\ ac = FALSE
  /\ woverflow = FALSE

-----------------------------------------------------------------------------
(* Interrupt outputs. *)

fifo_AF == Depth - Len(rfifo) <= Threshold
fifo_AE == Len(wfifo) <= Threshold

ipen_AFIgnoresPause == "RE" \in ien /\ fifo_AF   \* mutant

ipen_AF == "RE" \in ien /\ (pause_irq \/ fifo_AF)
ipen_AE == "WE" \in ien /\ fifo_AE

av_irq == ipen_AF \/ ipen_AE

wspace == Depth - Len(wfifo)

-----------------------------------------------------------------------------
(* CPU accesses.  Reading the control register changes nothing. *)

WriteControl(bits, clearAC) ==
  /\ ien' = bits
  /\ ac' = (ac /\ ~clearAC)
  /\ UNCHANGED <<rfifo, wfifo, pause_irq, woverflow>>

WriteData(b) ==
  /\ wfifo' = IF Len(wfifo) < Depth THEN Append(wfifo, b) ELSE wfifo
  /\ woverflow' = (Len(wfifo) >= Depth)
  /\ UNCHANGED <<rfifo, ien, pause_irq, ac>>

(* At most one byte can enter on the clock of the pop, and only into a     *)
(* FIFO that is not full.                                                  *)
Arrivals ==
  {<<>>} \cup (IF Len(rfifo) < Depth THEN {<<b>> : b \in HostByte} ELSE {})

AfterRead(arriving) ==
  (IF rfifo = <<>> THEN <<>> ELSE Tail(rfifo)) \o arriving

(* Mutant: the read leaves the pause interrupt pending. *)
ReadDataKeepsPause(arriving) ==
  /\ rfifo' = AfterRead(arriving)
  /\ ac' = (ac \/ arriving # <<>>)
  /\ UNCHANGED <<wfifo, ien, pause_irq, woverflow>>

ReadData(arriving) ==
  /\ rfifo' = AfterRead(arriving)
  /\ pause_irq' = FALSE
  /\ ac' = (ac \/ arriving # <<>>)
  /\ UNCHANGED <<wfifo, ien, woverflow>>

-----------------------------------------------------------------------------
(* JTAG host, through alt_jtag_atlantic.  t_dav keeps it from sending into *)
(* a full FIFO.                                                            *)

t_ena(b) ==
  /\ Len(rfifo) < Depth
  /\ rfifo' = Append(rfifo, b)
  /\ ac' = TRUE
  /\ UNCHANGED <<wfifo, ien, pause_irq, woverflow>>

t_pause ==
  /\ pause_irq' = (pause_irq \/ rfifo # <<>>)
  /\ ac' = TRUE
  /\ UNCHANGED <<rfifo, wfifo, ien, woverflow>>

r_ena ==
  /\ wfifo # <<>>
  /\ wfifo' = Tail(wfifo)
  /\ UNCHANGED <<rfifo, ien, pause_irq, ac, woverflow>>

Host == t_pause \/ r_ena \/ \E b \in HostByte : t_ena(b)

-----------------------------------------------------------------------------

DeviceTypeOK ==
  /\ rfifo \in Seq(Byte) /\ Len(rfifo) <= Depth
  /\ wfifo \in Seq(Byte) /\ Len(wfifo) <= Depth
  /\ ien \subseteq ControlBits
  /\ pause_irq \in BOOLEAN
  /\ ac \in BOOLEAN
  /\ woverflow \in BOOLEAN

=============================================================================
