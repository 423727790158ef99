--------------------------- MODULE JtagUartDriver ---------------------------
(***************************************************************************)
(* The interrupt-driven driver of the JTAG UART (altera_avalon_jtag_uart_  *)
(* {init,read,write,ioctl}.c, without a real-time OS) on top of the        *)
(* device of JtagUartDevice.                                               *)
(*                                                                         *)
(* Three actors share the driver's state structure:                        *)
(*   - the program, one call at a time, whose place in the call is pc;     *)
(*   - the interrupt handler and the alarm callback, which run to          *)
(*     completion once entered, whose place is isr ("idle": the program    *)
(*     runs);                                                              *)
(*   - the JTAG host, which acts on the FIFOs between any two steps.       *)
(* A step of the program is one access to shared state or to a register;   *)
(* work on the call's own variables is folded into the neighbouring step.  *)
(***************************************************************************)
EXTENDS JtagUartDevice

CONSTANTS
  BufLen,          \* ALTERA_AVALON_JTAG_UART_BUF_LEN (2048)
  DefaultTimeout,  \* ALTERA_AVALON_JTAG_UART_DEFAULT_TIMEOUT (10)
  IntMax,          \* INT_MAX
  HasSysClk,       \* a system clock is present: alt_alarm_start succeeds
  Calls,           \* the calls the program makes
  MaxCount,        \* longest read or write the program asks for
  TimeoutArgs      \* arguments of TIOCSTIMEOUT the program uses

ASSUME DriverAssumption ==
  /\ BufLen \in Nat /\ BufLen >= 2
  /\ IntMax \in Nat /\ IntMax >= 4
  /\ DefaultTimeout \in 2 .. (IntMax - 2)
  /\ HasSysClk \in BOOLEAN
  /\ Calls \subseteq {"read", "write", "close", "ioctl"}
  /\ MaxCount \in Nat
  /\ TimeoutArgs \subseteq Int

EIO == 5
EWOULDBLOCK == 11

VARIABLES
  (* altera_avalon_jtag_uart_state *)
  irq_enable, host_inactive, timeout,
  rx_in, rx_out, tx_in, tx_out, rx_buf, tx_buf,
  (* CPU: global interrupt enable, and this device's bit of ienable *)
  pie, ienable,
  (* the program: place, and the variables of the call in progress *)
  pc, op, nonblock, in, out, n, k, moved, space, ubuf, src, reg, ret,
  (* the handler: place, and its variables *)
  isr, ravail, wi, wroom

state  == <<irq_enable, host_inactive, timeout, rx_in, rx_out, tx_in, tx_out,
            rx_buf, tx_buf>>
frame  == <<op, nonblock, in, out, n, k, moved, space, ubuf, src, reg>>
task   == <<pc, frame, ret, pie, ienable>>
isrvars == <<isr, ravail, wi, wroom>>
vars   == <<device, state, task, isrvars>>

Slots == 0 .. BufLen - 1
Zero  == CHOOSE b \in Byte : TRUE

WrapLate(i) == IF i > BufLen THEN 0 ELSE i   \* mutant

Wrap(i) == i % BufLen

-----------------------------------------------------------------------------
(* The rings: rx_in/tx_in is written by the producer, rx_out/tx_out by the *)
(* consumer; one slot stays free so that equal indices mean empty.         *)

Used(i, o) == IF i >= o THEN i - o ELSE i + BufLen - o

Ring(buf, i, o) == [j \in 1 .. Used(i, o) |-> buf[Wrap(o + j - 1)]]

RxFullNoWrap == rx_in + 1 = rx_out   \* mutant

RxFull == Wrap(rx_in + 1) = rx_out

(* Bytes jtag_uart_read can copy without wrapping.  (Mutant: a wrapped     *)
(* ring looks empty.)                                                      *)
RxRunNoWrap(i, o) == IF i >= o THEN i - o ELSE 0

RxRun(i, o) == IF i >= o THEN i - o ELSE BufLen - o

(* Bytes jtag_uart_write can copy without wrapping or filling the ring.    *)
(* (Mutant: fills it when tx_out is 0.)                                    *)
TxRunFills(i, o) == IF i < o THEN o - 1 - i ELSE BufLen - i

TxRun(i, o) ==
  IF i < o THEN o - 1 - i
  ELSE IF o > 0 THEN BufLen - i
  ELSE BufLen - 1 - i

AtMost(x, limit) == IF x > limit THEN limit ELSE x

HostActive == host_inactive < timeout

-----------------------------------------------------------------------------

Init ==
  /\ DeviceInit
  /\ irq_enable = {} /\ host_inactive = 0 /\ timeout = DefaultTimeout
  /\ rx_in = 0 /\ rx_out = 0 /\ tx_in = 0 /\ tx_out = 0
  /\ rx_buf = [s \in Slots |-> Zero]
  /\ tx_buf = [s \in Slots |-> Zero]
  /\ pie = TRUE /\ ienable = FALSE
  /\ pc = "init" /\ op = "none" /\ nonblock = FALSE
  /\ in = 0 /\ out = 0 /\ n = 0 /\ k = 0 /\ moved = 0 /\ space = 0
  /\ ubuf = <<>> /\ src = <<>> /\ reg = {} /\ ret = 0
  /\ isr = "idle" /\ ravail = FALSE /\ wi = FALSE /\ wroom = 0

(* The program takes a step only while no handler runs. *)
At(from, to) ==
  /\ isr = "idle"
  /\ pc = from
  /\ pc' = to

(* A call ends: its variables are gone, only the result remains. *)
Return(result) ==
  /\ ret' = result
  /\ nonblock' = FALSE
  /\ in' = 0 /\ out' = 0 /\ n' = 0 /\ k' = 0 /\ moved' = 0 /\ space' = 0
  /\ ubuf' = <<>> /\ src' = <<>> /\ reg' = {}

(* What read and write return once nothing more will be moved. *)
Result(m, nb) == IF m > 0 THEN m ELSE IF nb THEN -EWOULDBLOCK ELSE -EIO

-----------------------------------------------------------------------------
(* altera_avalon_jtag_uart_init *)

InitDevice ==
  /\ At("init", "init_register")
  /\ irq_enable' = {"RE"}
  /\ WriteControl({"RE"}, FALSE)
  /\ UNCHANGED <<host_inactive, timeout, rx_in, rx_out, tx_in, tx_out, rx_buf,
                 tx_buf, pie, ienable, frame, ret, isrvars>>

InitRegister ==
  /\ At("init_register", "init_alarm")
  /\ ienable' = TRUE
  /\ UNCHANGED <<device, state, pie, frame, ret, isrvars>>

InitAlarm ==
  /\ At("init_alarm", "idle")
  /\ host_inactive' = 0
  /\ timeout' = IF HasSysClk THEN timeout ELSE IntMax
  /\ UNCHANGED <<device, irq_enable, rx_in, rx_out, tx_in, tx_out, rx_buf,
                 tx_buf, pie, ienable, frame, ret, isrvars>>

-----------------------------------------------------------------------------
(* altera_avalon_jtag_uart_read *)

ReadCall(count, nb) ==
  /\ "read" \in Calls
  /\ op' = "read"
  /\ IF count > 0
     THEN /\ At("idle", "r_snap")
          /\ nonblock' = nb /\ space' = count /\ ret' = 0
          /\ UNCHANGED <<in, out, n, k, moved, ubuf, src, reg>>
     ELSE At("idle", "idle") /\ Return(Result(0, nb))
  /\ UNCHANGED <<device, state, pie, ienable, isrvars>>

(* Snapshot the ring; with nothing to copy, leave or start to wait. *)
ReadSnap ==
  /\ isr = "idle" /\ pc = "r_snap"
  /\ in' = rx_in /\ out' = rx_out
  /\ n' = AtMost(RxRun(rx_in, rx_out), space)
  /\ k' = 0
  /\ pc' = IF n' > 0 THEN "r_copy"
           ELSE IF moved > 0 THEN "e_disable"
           ELSE IF nonblock THEN "r_return"
           ELSE "r_spin"
  /\ UNCHANGED <<device, state, op, nonblock, moved, space, ubuf, src, reg, ret,
                 pie, ienable, isrvars>>

(* memcpy, a byte at a time. *)
ReadCopy ==
  /\ At("r_copy", IF k + 1 = n THEN "r_publish" ELSE "r_copy")
  /\ ubuf' = Append(ubuf, rx_buf[out + k])
  /\ k' = k + 1
  /\ UNCHANGED <<device, state, op, nonblock, in, out, n, moved, space, src, reg,
                 ret, pie, ienable, isrvars>>

(* Mutant: a satisfied read leaves receive interrupts as they are. *)
ReadPublishReturns ==
  /\ At("r_publish", IF space > n THEN "r_snap" ELSE "r_return")
  /\ rx_out' = Wrap(out + n)
  /\ moved' = moved + n
  /\ space' = space - n
  /\ k' = 0
  /\ UNCHANGED <<device, irq_enable, host_inactive, timeout, rx_in, tx_in, tx_out,
                 rx_buf, tx_buf, op, nonblock, in, out, n, ubuf, src, reg, ret,
                 pie, ienable, isrvars>>

ReadPublish ==
  /\ At("r_publish", IF space > n THEN "r_snap" ELSE "e_disable")
  /\ rx_out' = Wrap(out + n)
  /\ moved' = moved + n
  /\ space' = space - n
  /\ k' = 0
  /\ UNCHANGED <<device, irq_enable, host_inactive, timeout, rx_in, tx_in, tx_out,
                 rx_buf, tx_buf, op, nonblock, in, out, n, ubuf, src, reg, ret,
                 pie, ienable, isrvars>>

(* The wait loop is left when data arrived or the host went away, ...      *)
ReadSpin ==
  /\ At("r_spin", "r_check")
  /\ in # rx_in \/ ~HostActive
  /\ UNCHANGED <<device, state, frame, ret, pie, ienable, isrvars>>

(* ... and rx_in is read once more to tell which.                          *)
ReadCheck ==
  /\ At("r_check", IF in = rx_in THEN "r_return" ELSE "r_snap")
  /\ UNCHANGED <<device, state, frame, ret, pie, ienable, isrvars>>

ReadReturn ==
  /\ At("r_return", "idle")
  /\ Return(Result(moved, nonblock))
  /\ UNCHANGED <<device, state, op, pie, ienable, isrvars>>

-----------------------------------------------------------------------------
(* altera_avalon_jtag_uart_write *)

WriteCall(bytes, nb) ==
  /\ "write" \in Calls
  /\ At("idle", IF bytes # <<>> THEN "w_snap" ELSE "e_disable")
  /\ op' = "write" /\ nonblock' = nb /\ src' = bytes /\ ret' = 0
  /\ UNCHANGED <<device, state, in, out, n, k, moved, space, ubuf, reg, pie,
                 ienable, isrvars>>

WriteSnap ==
  /\ isr = "idle" /\ pc = "w_snap"
  /\ in' = tx_in /\ out' = tx_out
  /\ n' = AtMost(TxRun(tx_in, tx_out), Len(src))
  /\ k' = 0
  /\ pc' = IF n' > 0 THEN "w_copy" ELSE "e_disable"
  /\ UNCHANGED <<device, state, op, nonblock, moved, space, ubuf, src, reg, ret,
                 pie, ienable, isrvars>>

WriteCopy ==
  /\ At("w_copy", IF k + 1 = n THEN "w_publish" ELSE "w_copy")
  /\ tx_buf' = [tx_buf EXCEPT ![in + k] = src[k + 1]]
  /\ k' = k + 1
  /\ UNCHANGED <<device, irq_enable, host_inactive, timeout, rx_in, rx_out, tx_in,
                 tx_out, rx_buf, op, nonblock, in, out, n, moved, space, ubuf,
                 src, reg, ret, pie, ienable, isrvars>>

(* Mutant: a write that is done leaves transmit interrupts as they are. *)
WritePublishReturns ==
  /\ At("w_publish", IF Len(src) > n THEN "w_snap" ELSE "w_return")
  /\ tx_in' = Wrap(in + n)
  /\ moved' = moved + n
  /\ src' = SubSeq(src, n + 1, Len(src))
  /\ k' = 0
  /\ UNCHANGED <<device, irq_enable, host_inactive, timeout, rx_in, rx_out, tx_out,
                 rx_buf, tx_buf, op, nonblock, in, out, n, space, ubuf, reg, ret,
                 pie, ienable, isrvars>>

WritePublish ==
  /\ At("w_publish", IF Len(src) > n THEN "w_snap" ELSE "e_disable")
  /\ tx_in' = Wrap(in + n)
  /\ moved' = moved + n
  /\ src' = SubSeq(src, n + 1, Len(src))
  /\ k' = 0
  /\ UNCHANGED <<device, irq_enable, host_inactive, timeout, rx_in, rx_out, tx_out,
                 rx_buf, tx_buf, op, nonblock, in, out, n, space, ubuf, reg, ret,
                 pie, ienable, isrvars>>

(* Mutant: the wait does not look at the host. *)
WriteSpinForever ==
  /\ At("w_spin", "w_check")
  /\ out # tx_out
  /\ UNCHANGED <<device, state, frame, ret, pie, ienable, isrvars>>

WriteSpin ==
  /\ At("w_spin", "w_check")
  /\ out # tx_out \/ ~HostActive
  /\ UNCHANGED <<device, state, frame, ret, pie, ienable, isrvars>>

WriteCheck ==
  /\ At("w_check", IF out = tx_out THEN "w_return" ELSE "w_snap")
  /\ UNCHANGED <<device, state, frame, ret, pie, ienable, isrvars>>

WriteReturn ==
  /\ At("w_return", "idle")
  /\ Return(Result(moved, nonblock))
  /\ UNCHANGED <<device, state, op, pie, ienable, isrvars>>

-----------------------------------------------------------------------------
(* The critical section in which read and write set their interrupt        *)
(* enable: irq_enable |= bit, then the control register.                   *)

EnableBitAlwaysRead == "RE"   \* mutant

EnableBit == IF op = "read" THEN "RE" ELSE "WE"

(* Mutant: no critical section. *)
EnableKeepsInterrupts ==
  /\ At("e_disable", "e_load")
  /\ UNCHANGED <<device, state, frame, ret, pie, ienable, isrvars>>

EnableDisableAll ==
  /\ At("e_disable", "e_load")
  /\ pie' = FALSE
  /\ UNCHANGED <<device, state, frame, ret, ienable, isrvars>>

EnableLoad ==
  /\ At("e_load", "e_store")
  /\ reg' = irq_enable
  /\ UNCHANGED <<device, state, op, nonblock, in, out, n, k, moved, space, ubuf,
                 src, ret, pie, ienable, isrvars>>

EnableStore ==
  /\ At("e_store", "e_iowr")
  /\ irq_enable' = reg \cup {EnableBit}
  /\ UNCHANGED <<device, host_inactive, timeout, rx_in, rx_out, tx_in, tx_out,
                 rx_buf, tx_buf, frame, ret, pie, ienable, isrvars>>

EnableIowr ==
  /\ At("e_iowr", "e_enable")
  /\ WriteControl(irq_enable, FALSE)
  /\ UNCHANGED <<state, frame, ret, pie, ienable, isrvars>>

(* alt_irq_enable_all, and what read and write do next. *)
EnableAll ==
  /\ At("e_enable", IF op = "read" THEN "r_return"
                    ELSE IF src = <<>> \/ nonblock THEN "w_return"
                    ELSE "w_spin")
  /\ pie' = TRUE
  /\ UNCHANGED <<device, state, frame, ret, ienable, isrvars>>

-----------------------------------------------------------------------------
(* altera_avalon_jtag_uart_close *)

CloseCall(nb) ==
  /\ "close" \in Calls
  /\ At("idle", "c_wait")
  /\ op' = "close" /\ nonblock' = nb /\ ret' = 0
  /\ UNCHANGED <<device, state, in, out, n, k, moved, space, ubuf, src, reg, pie,
                 ienable, isrvars>>

CloseWait ==
  /\ At("c_wait", "idle")
  /\ \/ /\ tx_out = tx_in \/ ~HostActive
        /\ Return(0)
     \/ /\ tx_out # tx_in /\ HostActive /\ nonblock
        /\ Return(-EWOULDBLOCK)
  /\ UNCHANGED <<device, state, op, pie, ienable, isrvars>>

(* altera_avalon_jtag_uart_ioctl: TIOCSTIMEOUT.  (TIOCGCONNECTED only      *)
(* reads HostActive; every other request changes nothing.)                 *)
IoctlSetTimeout(arg) ==
  /\ "ioctl" \in Calls
  /\ At("idle", "idle")
  /\ timeout # IntMax
  /\ timeout' = IF arg >= 2 /\ arg < IntMax THEN arg ELSE IntMax - 1
  /\ op' = "ioctl" /\ ret' = 0
  /\ UNCHANGED <<device, irq_enable, host_inactive, rx_in, rx_out, tx_in, tx_out,
                 rx_buf, tx_buf, pie, ienable, nonblock, in, out, n, k, moved,
                 space, ubuf, src, reg, isrvars>>

-----------------------------------------------------------------------------
(* altera_avalon_jtag_uart_irq.  Entered when the CPU takes the interrupt, *)
(* which masks further ones until the handler is left.                     *)

IsrEnter ==
  /\ isr = "idle" /\ pie /\ ienable /\ av_irq
  /\ isr' = "control"
  /\ UNCHANGED <<device, state, task, ravail, wi, wroom>>

(* Each pass reads the control register once: it decides what the pass     *)
(* does, however the device changes meanwhile.                             *)
(* Mutant: takes the threshold interrupt to mean an empty FIFO. *)
IsrControlAssumesEmpty ==
  /\ isr = "control"
  /\ isr' = IF ipen_AF THEN "rx" ELSE IF ipen_AE THEN "tx" ELSE "idle"
  /\ wi' = ipen_AE
  /\ wroom' = IF ipen_AE THEN Depth ELSE 0
  /\ ravail' = ipen_AF
  /\ UNCHANGED <<device, state, task>>

IsrControl ==
  /\ isr = "control"
  /\ isr' = IF ipen_AF THEN "rx" ELSE IF ipen_AE THEN "tx" ELSE "idle"
  /\ wi' = ipen_AE
  /\ wroom' = IF ipen_AE THEN wspace ELSE 0
  /\ ravail' = ipen_AF
  /\ UNCHANGED <<device, state, task>>

(* Move one character into the ring, unless the ring or the FIFO stops it. *)
IsrReceive ==
  /\ isr = "rx"
  /\ ~RxFull
  /\ \E arriving \in Arrivals :
       /\ ReadData(arriving)
       /\ ravail' = (AfterRead(arriving) # <<>>)
  /\ IF rfifo = <<>>
     THEN isr' = "rx_end" /\ UNCHANGED <<rx_in, rx_buf>>
     ELSE /\ rx_buf' = [rx_buf EXCEPT ![rx_in] = Head(rfifo)]
          /\ rx_in' = Wrap(rx_in + 1)
          /\ isr' = "rx"
  /\ UNCHANGED <<irq_enable, host_inactive, timeout, rx_out, tx_in, tx_out,
                 tx_buf, task, wi, wroom>>

IsrReceiveFull ==
  /\ isr = "rx"
  /\ RxFull
  /\ isr' = "rx_end"
  /\ UNCHANGED <<device, state, task, ravail, wi, wroom>>

(* Mutant: leaves receive interrupts on over a full ring. *)
IsrReceiveEndKeepsOn ==
  /\ isr = "rx_end"
  /\ isr' = IF wi THEN "tx" ELSE "control"
  /\ ravail' = FALSE
  /\ UNCHANGED <<device, state, task, wi, wroom>>

IsrReceiveEnd ==
  /\ isr = "rx_end"
  /\ isr' = IF wi THEN "tx" ELSE "control"
  /\ ravail' = FALSE
  /\ IF ravail
     THEN /\ irq_enable' = irq_enable \ {"RE"}
          /\ WriteControl(irq_enable \ {"RE"}, FALSE)
     ELSE UNCHANGED <<irq_enable, device>>
  /\ UNCHANGED <<host_inactive, timeout, rx_in, rx_out, tx_in, tx_out, rx_buf,
                 tx_buf, task, wi, wroom>>

IsrTransmit ==
  /\ isr = "tx"
  /\ wroom > 0 /\ tx_out # tx_in
  /\ WriteData(tx_buf[tx_out])
  /\ tx_out' = Wrap(tx_out + 1)
  /\ wroom' = wroom - 1
  /\ UNCHANGED <<irq_enable, host_inactive, timeout, rx_in, rx_out, tx_in, rx_buf,
                 tx_buf, task, isr, ravail, wi>>

(* Mutant: turns transmit interrupts off although characters are left. *)
IsrTransmitEndAlwaysOff ==
  /\ isr = "tx"
  /\ wroom = 0 \/ tx_out = tx_in
  /\ isr' = "control" /\ wi' = FALSE /\ wroom' = 0
  /\ irq_enable' = irq_enable \ {"WE"}
  /\ WriteControl(irq_enable \ {"WE"}, FALSE)
  /\ UNCHANGED <<host_inactive, timeout, rx_in, rx_out, tx_in, tx_out, rx_buf,
                 tx_buf, task, ravail>>

IsrTransmitEnd ==
  /\ isr = "tx"
  /\ wroom = 0 \/ tx_out = tx_in
  /\ isr' = "control" /\ wi' = FALSE /\ wroom' = 0
  /\ IF wroom > 0
     THEN /\ irq_enable' = irq_enable \ {"WE"}
          /\ WriteControl(irq_enable \ {"WE"}, FALSE)
     ELSE UNCHANGED <<irq_enable, device>>
  /\ UNCHANGED <<host_inactive, timeout, rx_in, rx_out, tx_in, tx_out, rx_buf,
                 tx_buf, task, ravail>>

-----------------------------------------------------------------------------
(* altera_avalon_jtag_uart_timeout, called from the system clock's         *)
(* interrupt once a second.                                                *)

(* The count of silent seconds stops short of INT_MAX - 1, the timeout     *)
(* that stands for "never".                                                *)
SaturateLate(h) == IF h < IntMax - 1 THEN h + 1 ELSE h   \* mutant

Saturate(h) == IF h < IntMax - 2 THEN h + 1 ELSE h

Ticking == HasSysClk /\ pc \notin {"init", "init_register", "init_alarm"}

TimeoutCheck ==
  /\ Ticking /\ isr = "idle" /\ pie
  /\ IF ac
     THEN isr' = "timeout" /\ UNCHANGED host_inactive
     ELSE host_inactive' = Saturate(host_inactive) /\ UNCHANGED isr
  /\ UNCHANGED <<device, irq_enable, timeout, rx_in, rx_out, tx_in, tx_out,
                 rx_buf, tx_buf, task, ravail, wi, wroom>>

TimeoutClear ==
  /\ isr = "timeout"
  /\ isr' = "idle"
  /\ WriteControl(irq_enable, TRUE)
  /\ host_inactive' = 0
  /\ UNCHANGED <<irq_enable, timeout, rx_in, rx_out, tx_in, tx_out, rx_buf,
                 tx_buf, task, ravail, wi, wroom>>

-----------------------------------------------------------------------------

BytesUpTo(m) == UNION {[1 .. l -> Byte] : l \in 0 .. m}

StartCall ==
  \/ \E count \in 0 .. MaxCount, nb \in BOOLEAN : ReadCall(count, nb)
  \/ \E bytes \in BytesUpTo(MaxCount), nb \in BOOLEAN : WriteCall(bytes, nb)
  \/ \E nb \in BOOLEAN : CloseCall(nb)
  \/ \E arg \in TimeoutArgs : IoctlSetTimeout(arg)

Booting == InitDevice \/ InitRegister \/ InitAlarm

Reading == ReadSnap \/ ReadCopy \/ ReadPublish \/ ReadSpin \/ ReadCheck \/ ReadReturn

Writing ==
  WriteSnap \/ WriteCopy \/ WritePublish \/ WriteSpin \/ WriteCheck \/ WriteReturn

Enabling == EnableDisableAll \/ EnableLoad \/ EnableStore \/ EnableIowr \/ EnableAll

(* The program runs on inside the call it has made. *)
Program == Booting \/ Reading \/ Writing \/ Enabling \/ CloseWait

Handler ==
  \/ IsrEnter \/ IsrControl \/ IsrReceive \/ IsrReceiveFull \/ IsrReceiveEnd
  \/ IsrTransmit \/ IsrTransmitEnd \/ TimeoutClear

HostStep == Host /\ UNCHANGED <<state, task, isrvars>>

Next == StartCall \/ Program \/ Handler \/ TimeoutCheck \/ HostStep

Spec == Init /\ [][Next]_vars

=============================================================================
