------------------------------- MODULE JtagUart -------------------------------
(***************************************************************************)
(* What the JTAG UART driver and its device together achieve: the          *)
(* invariants behind the hand-over between program and handler, the two    *)
(* channels they implement, and progress under fairness.                   *)
(***************************************************************************)
EXTENDS JtagUartDriver

TxCount == Used(tx_in, tx_out)

EnablePcs == {"e_disable", "e_load", "e_store", "e_iowr", "e_enable"}
ReadPcs   == {"r_snap", "r_copy", "r_publish", "r_spin", "r_check", "r_return"}
WritePcs  == {"w_snap", "w_copy", "w_publish", "w_spin", "w_check", "w_return"}
BootPcs   == {"init", "init_register", "init_alarm"}
Pcs       == BootPcs \cup EnablePcs \cup ReadPcs \cup WritePcs \cup {"idle", "c_wait"}
IsrPcs    == {"idle", "control", "rx", "rx_end", "tx", "timeout"}

(* Type correctness of every variable, the bounds on the ring indices, the *)
(* copy window and the FIFO levels included.                               *)
StateTypeOK ==
  /\ irq_enable \subseteq ControlBits
  /\ host_inactive \in 0 .. (IntMax - 2)
  /\ timeout \in 2 .. IntMax
  /\ rx_in \in Slots /\ rx_out \in Slots /\ tx_in \in Slots /\ tx_out \in Slots
  /\ rx_buf \in [Slots -> Byte] /\ tx_buf \in [Slots -> Byte]

CallTypeOK ==
  /\ pie \in BOOLEAN /\ ienable \in BOOLEAN
  /\ pc \in Pcs
  /\ op \in {"none", "read", "write", "close", "ioctl"}
  /\ nonblock \in BOOLEAN
  /\ in \in Slots /\ out \in Slots
  /\ n \in 0 .. BufLen /\ k \in 0 .. BufLen
  /\ moved \in Nat /\ space \in Nat
  /\ ubuf \in Seq(Byte) /\ src \in Seq(Byte)
  /\ reg \subseteq ControlBits
  /\ ret \in Int

HandlerTypeOK ==
  /\ isr \in IsrPcs
  /\ ravail \in BOOLEAN /\ wi \in BOOLEAN
  /\ wroom \in 0 .. Depth

TypeOK == DeviceTypeOK /\ StateTypeOK /\ CallTypeOK /\ HandlerTypeOK

-----------------------------------------------------------------------------
(* Safety. *)

(* No lost wake-up on receive: whenever the handler has turned receive     *)
(* interrupts off (init.c:156-162), the ring holds data, so the next read  *)
(* finds some and turns them on again, or a read is already on its way to  *)
(* do so (read.c:188-195).                                                 *)
RxArmed ==
  "RE" \notin ien =>
    \/ rx_in # rx_out
    \/ pc = "init"
    \/ op = "read" /\ moved > 0
       /\ pc \in {"r_snap", "e_disable", "e_load", "e_store", "e_iowr"}

(* No stranded byte on transmit: while the ring holds data, transmit       *)
(* interrupts are on, or the write that put it there is still on its way   *)
(* to turn them on (write.c:136-139), although the handler turns them off  *)
(* behind the program's back (init.c:186-194).                             *)
TxArmed ==
  tx_in # tx_out /\ "WE" \notin ien =>
    /\ op = "write"
    /\ pc \in {"w_snap", "w_copy", "w_publish", "e_disable", "e_load", "e_store",
               "e_iowr"}

(* The handler spends the space it read at the start of a pass             *)
(* (init.c:172-184) without ever overrunning the transmit FIFO.            *)
NoOverflow == ~woverflow

(* A call goes on waiting only when it cannot do better: the index it      *)
(* compares with (read.c:173, write.c:183) cannot come round to the same   *)
(* value while data or room appears (no ABA on the ring indices).          *)
WaitMeansStuck ==
  /\ (pc \in {"r_spin", "r_check"} /\ in = rx_in) => rx_in = rx_out
  /\ (pc \in {"w_spin", "w_check"} /\ out = tx_out) => TxCount = BufLen - 1

(* The handler and the alarm callback never see the shadow irq_enable      *)
(* apart from the control register it stands for: the program's            *)
(* read-modify-write is closed to them (read.c:191-194, write.c:136-139).  *)
MaskAgrees == isr # "idle" => irq_enable = ien

(* A timeout of INT_MAX (no clock, init.c:89-96) or INT_MAX - 1 (set by    *)
(* TIOCSTIMEOUT, ioctl.c:65) never expires: the silent-second count stops  *)
(* below both (init.c:215).                                                *)
NeverTimesOut == timeout >= IntMax - 1 => HostActive

(* The transmit half implements WriteChannel: no byte is lost, doubled or  *)
(* reordered between the buffer a write passes and the host, and the       *)
(* result of a write is the number of bytes taken from it.                 *)
Writes == INSTANCE WriteChannel WITH
  Capacity <- Depth + BufLen - 1,
  Refusals <- {-EIO, -EWOULDBLOCK},
  offered  <- src,
  taken    <- IF op = "write" THEN moved ELSE 0,
  chan     <- wfifo \o Ring(tx_buf, tx_in, tx_out),
  result   <- IF op = "write" THEN ret ELSE 0
WriteInOrder == Writes!Spec

(* The receive half implements ReadChannel: the reads store exactly the    *)
(* bytes the host sent, in order, whatever the handler does meanwhile.     *)
Reads == INSTANCE ReadChannel WITH
  Capacity <- Depth + BufLen - 1,
  Refusals <- {-EIO, -EWOULDBLOCK},
  chan     <- Ring(rx_buf, rx_in, rx_out) \o rfifo,
  stored   <- IF op = "read" THEN SubSeq(ubuf, 1, moved) ELSE <<>>,
  result   <- IF op = "read" THEN ret ELSE 0
ReadInOrder == Reads!Spec

-----------------------------------------------------------------------------
(* The inductive invariants, in parts: IInv is behind RxArmed, TxArmed,    *)
(* NoOverflow, MaskAgrees and WaitMeansStuck, ChannelInv behind the two    *)
(* refinements.                                                            *)

(* Interrupts are off exactly inside the critical section, so no handler   *)
(* is inside while the program is.                                         *)
PlaceInv ==
  /\ pc \in ReadPcs => op = "read"
  /\ pc \in WritePcs => op = "write"
  /\ pc \in EnablePcs => op \in {"read", "write"}
  /\ pie = (pc \notin {"e_load", "e_store", "e_iowr", "e_enable"})
  /\ isr # "idle" => pie

(* The shadow mask and the control register part only between the store    *)
(* and the register write.                                                 *)
MaskInv ==
  /\ pc # "e_iowr" => irq_enable = ien
  /\ pc = "e_iowr" => irq_enable = ien \cup {EnableBit}
  /\ pc = "e_store" => reg = irq_enable

(* The window a read copies, and what it knows when it waits or leaves.    *)
ReadInv ==
  /\ pc \in {"r_snap", "r_spin", "r_check"} => space > 0
  /\ pc \in {"r_copy", "r_publish"} => n > 0 /\ out + n <= BufLen /\ n <= space
  /\ pc = "r_copy" => k < n
  /\ pc \in EnablePcs /\ op = "read" => moved > 0
  /\ pc \in {"r_spin", "r_check"} => in = rx_out

(* The same for a write.  It leaves the copy loop with bytes left over     *)
(* only if the ring was full when it looked.                               *)
WriteInv ==
  /\ pc \in BootPcs => tx_in = tx_out
  /\ pc \in {"w_snap", "w_spin", "w_check"} => src # <<>>
  /\ pc \in {"w_copy", "w_publish"} => n > 0 /\ in + n <= BufLen /\ n <= Len(src)
  /\ pc = "w_copy" => k < n
  /\ pc \in EnablePcs \cup {"w_spin", "w_check"} /\ op = "write" /\ src # <<>>
       => TxRun(tx_in, out) = 0

(* A pass of the handler: a receive interrupt means data (init.c:127-129), *)
(* and the space it counts on is still there.                              *)
HandlerInv ==
  /\ pause_irq => rfifo # <<>>
  /\ isr = "rx" => rfifo # <<>> \/ rx_in # rx_out
  /\ (isr = "rx_end" /\ ravail) => rx_in # rx_out
  /\ wroom <= wspace

IInv ==
  /\ TypeOK /\ PlaceInv /\ MaskInv /\ ReadInv /\ WriteInv /\ HandlerInv
  /\ RxArmed /\ TxArmed /\ NoOverflow

(* What the two channels rest on besides: the variables of one call are    *)
(* gone when the next starts, and no result shows before the return.       *)
CallInv ==
  /\ pc = "c_wait" => op = "close"
  /\ pc \in BootPcs \cup {"idle"} \/ op \notin {"read", "write"}
       => src = <<>> /\ ubuf = <<>> /\ moved = 0
  /\ op = "read" => src = <<>>
  /\ pc \in ReadPcs \cup WritePcs \cup EnablePcs => ret = 0

(* What write has copied lies behind the ring's end, where the handler     *)
(* does not look, and there is room for it: the handler only makes more    *)
(* (write.c:104-126 against init.c:178).                                   *)
WriteWindow ==
  pc \in {"w_copy", "w_publish"} =>
    /\ in = tx_in
    /\ TxCount + n <= BufLen - 1
    /\ \A j \in 1 .. k : tx_buf[in + j - 1] = src[j]
    /\ pc = "w_publish" => k = n

(* What read has copied is the ring's beginning, which the handler does    *)
(* not overwrite (read.c:121-140 against init.c:137-139).                  *)
ReadWindow ==
  /\ op = "read" /\ pc \notin {"r_copy", "r_publish"} => Len(ubuf) = moved
  /\ pc \in {"r_copy", "r_publish"} =>
       /\ out = rx_out
       /\ n <= Used(rx_in, rx_out)
       /\ Len(ubuf) = moved + k
       /\ \A j \in 1 .. k : ubuf[moved + j] = rx_buf[out + j - 1]
       /\ pc = "r_publish" => k = n

ChannelInv == IInv /\ CallInv /\ WriteWindow /\ ReadWindow

-----------------------------------------------------------------------------
(* Progress.  The CPU executes: the program gets steps between interrupts  *)
(* (SF: an interrupt may be taken at any instruction, but not for ever),   *)
(* a pending interrupt is taken while PIE is on, and an entered handler    *)
(* runs on.                                                                *)
CpuFairness ==
  /\ SF_vars(Program)
  /\ SF_vars(IsrEnter)
  /\ WF_vars(Handler)

(* A connected host: it takes what is in the transmit FIFO and polls.      *)
HostFairness ==
  /\ WF_vars(r_ena /\ UNCHANGED <<state, task, isrvars>>)
  /\ WF_vars(t_pause /\ UNCHANGED <<state, task, isrvars>>)

ConnectedSpec == Spec /\ CpuFairness /\ HostFairness

(* With a system clock and a host that may have gone. *)
TimedSpec == Spec /\ CpuFairness /\ SF_vars(TimeoutCheck)

(* The handler always comes back (init.c:117-196), whatever the host does: *)
(* it fills the receive ring or drains the transmit ring and turns the     *)
(* interrupt off.                                                          *)
HandlerReturns == isr # "idle" ~> isr = "idle"

(* While the host is connected, every write and close returns and every    *)
(* byte in the transmit ring moves on, even though the program only spins. *)
WritesReturn == pc \in {"w_spin", "c_wait"} ~> pc = "idle"

TransmitProgress ==
  \A s \in Slots : (tx_out = s /\ tx_in # s) ~> tx_out # s

(* A read waiting while the receive FIFO holds a byte returns: receive     *)
(* interrupts are on and the host's poll raises one.                       *)
ReadsReturn == (pc = "r_spin" /\ rfifo # <<>>) ~> pc = "idle"

(* With a system clock no call waits for ever for a host that stays        *)
(* silent: it returns, unless host activity keeps being seen or the        *)
(* program has set the timeout that stands for "never".                    *)
TimeoutUnblocks == []<>(pc = "idle" \/ ac \/ timeout = IntMax - 1)
=============================================================================
