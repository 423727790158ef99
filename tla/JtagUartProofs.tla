--------------------------- MODULE JtagUartProofs ---------------------------
(***************************************************************************)
(* Proofs about the interrupt-driven driver of the JTAG UART.  IInv is     *)
(* inductive: each of its parts has a lemma that says which parts of IInv  *)
(* one step needs in order to keep it, with a case per group of actions.   *)
(* The theorems at the end hold for every buffer length, FIFO depth,       *)
(* threshold, character set and timeout.                                   *)
(***************************************************************************)
EXTENDS JtagUart, TLAPS

(* The buffers start out holding characters (any, in fact 0).              *)
LEMMA ZeroIsAByte ==
  Zero \in Byte
  BY DeviceAssumption DEF Zero

(* (i + 1) % BUF_LEN, the step of every ring index (init.c:137, 150, 178). *)
LEMMA WrapNext ==
  ASSUME NEW i \in Slots
  PROVE  /\ Wrap(i + 1) = IF i + 1 = BufLen THEN 0 ELSE i + 1
         /\ Wrap(i + 1) \in Slots
  BY DriverAssumption, SMT DEF Wrap, Slots

(* (out + n) % BUF_LEN, which publishes a copied window (read.c:140,       *)
(* write.c:126): the window ends inside the buffer or exactly at its end.  *)
LEMMA WrapPlus ==
  ASSUME NEW i \in Slots, NEW m \in 0 .. BufLen, i + m <= BufLen
  PROVE  /\ Wrap(i + m) = IF i + m = BufLen THEN 0 ELSE i + m
         /\ Wrap(i + m) \in Slots
  BY DriverAssumption, SMT DEF Wrap, Slots

(* What a write has left after handing over m characters (write.c:123-124): *)
(* nothing if and only if m was all of it.                                 *)
LEMMA RestLength ==
  ASSUME NEW S, NEW s \in Seq(S), NEW m \in 0 .. Len(s)
  PROVE  /\ SubSeq(s, m + 1, Len(s)) \in Seq(S)
         /\ Len(SubSeq(s, m + 1, Len(s))) = Len(s) - m
         /\ (SubSeq(s, m + 1, Len(s)) = <<>>) <=> (m = Len(s))
<1> DEFINE t == SubSeq(s, m + 1, Len(s))
<1>1. t \in Seq(S) /\ Len(t) = Len(s) - m
  BY SMT
<1>2. t = <<>> <=> Len(t) = 0
  BY <1>1, SMT
<1>3. Len(s) \in Nat
  BY SMT
<1> HIDE DEF t
<1>4. t = <<>> <=> m = Len(s)
  BY <1>1, <1>2, <1>3, SMT
<1> QED
  BY <1>1, <1>4 DEF t

(* The buffers a write is called with are sequences of characters.         *)
LEMMA BytesAreSequences ==
  ASSUME NEW m \in Nat, NEW bytes \in BytesUpTo(m)
  PROVE  bytes \in Seq(Byte)
<1>1. PICK l \in 0 .. m : bytes \in [1 .. l -> Byte]
  BY DEF BytesUpTo
<1> QED
  BY <1>1, SMT

(* Popping the receive FIFO while at most one character arrives leaves it a *)
(* FIFO within its depth (Nios_Qsys_jtag_uart_0.v:401-402, 514).           *)
LEMMA AfterReadType ==
  ASSUME DeviceTypeOK, NEW arriving \in Arrivals
  PROVE  AfterRead(arriving) \in Seq(Byte) /\ Len(AfterRead(arriving)) <= Depth
<1> USE DeviceAssumption DEF DeviceTypeOK
<1>1. CASE arriving = <<>>
  BY <1>1, SMT DEF AfterRead
<1>2. CASE arriving # <<>>
  <2>1. PICK b \in Byte : arriving = <<b>>
    BY <1>2 DEF Arrivals
  <2>2. Len(rfifo) < Depth
    BY <1>2 DEF Arrivals
  <2>3. CASE rfifo = <<>>
    BY <2>1, <2>2, <2>3, SMT DEF AfterRead
  <2>4. CASE rfifo # <<>>
    <3>1. Tail(rfifo) \in Seq(Byte) /\ Len(Tail(rfifo)) = Len(rfifo) - 1
      BY <2>4, SMT
    <3>2. <<b>> \in Seq(Byte) /\ Len(<<b>>) = 1
      BY SMT
    <3> QED
      BY <2>1, <2>2, <2>4, <3>1, <3>2, SMT DEF AfterRead
  <2> QED
    BY <2>3, <2>4
<1> QED
  BY <1>1, <1>2

(* Writing the control register keeps the device's types.                  *)
LEMMA WriteControlType ==
  ASSUME DeviceTypeOK, NEW bits \in SUBSET ControlBits, NEW clear \in BOOLEAN,
         WriteControl(bits, clear)
  PROVE  DeviceTypeOK'
  BY DEF DeviceTypeOK, WriteControl

(* Writing the data register keeps the device's types: a full FIFO stays as *)
(* it is (Nios_Qsys_jtag_uart_0.v:496-500).                                *)
LEMMA WriteDataType ==
  ASSUME DeviceTypeOK, NEW b \in Byte, WriteData(b)
  PROVE  DeviceTypeOK'
  BY DeviceAssumption, SMT DEF DeviceTypeOK, WriteData

(* Reading the data register keeps the device's types.                     *)
LEMMA ReadDataType ==
  ASSUME DeviceTypeOK, NEW arriving \in Arrivals, ReadData(arriving)
  PROVE  DeviceTypeOK'
  BY AfterReadType DEF DeviceTypeOK, ReadData

(* So does everything the host does.                                       *)
LEMMA HostType ==
  ASSUME DeviceTypeOK, Host
  PROVE  DeviceTypeOK'
<1> USE DeviceAssumption DEF DeviceTypeOK
<1>1. ASSUME NEW b \in HostByte, t_ena(b) PROVE DeviceTypeOK'
  BY <1>1, SMT DEF t_ena
<1>2. CASE t_pause
  BY <1>2 DEF t_pause
<1>3. CASE r_ena
  BY <1>3, SMT DEF r_ena
<1> QED
  BY <1>1, <1>2, <1>3 DEF Host

(* The result of a read or write is an integer (read.c:197-202,            *)
(* write.c:199-214).                                                       *)
LEMMA ResultType ==
  ASSUME NEW m \in Nat, NEW nb \in BOOLEAN
  PROVE  Result(m, nb) \in Int
  BY SMT DEF Result, EIO, EWOULDBLOCK

(* A return clears the variables of the call and keeps their types.        *)
LEMMA ReturnType ==
  ASSUME CallTypeOK, NEW result \in Int, Return(result),
         op' = "read" \/ UNCHANGED op, UNCHANGED <<pie, ienable>>, pc' = "idle"
  PROVE  CallTypeOK'
<1>1. 0 \in Slots /\ 0 \in 0 .. BufLen /\ 0 \in Nat
  BY DriverAssumption, SMT DEF Slots
<1>2. <<>> \in Seq(Byte)
  OBVIOUS
<1> QED
  BY <1>1, <1>2 DEF CallTypeOK, Return, Pcs

(* Registers and FIFOs keep their types under every access. *)
LEMMA DeviceTypeStep ==
  ASSUME TypeOK, [Next]_vars
  PROVE  DeviceTypeOK'
<1> USE DEF TypeOK, device, state, frame, task, isrvars, At
<1>1. CASE StartCall
  BY <1>1 DEF StartCall, ReadCall, WriteCall, CloseCall, IoctlSetTimeout,
       Return, DeviceTypeOK
<1>2. CASE Booting
  BY <1>2, WriteControlType DEF Booting, InitDevice, InitRegister, InitAlarm,
       WriteControl, DeviceTypeOK, ControlBits
<1>3. CASE Reading
  BY <1>3 DEF Reading, ReadSnap, ReadCopy, ReadPublish, ReadSpin, ReadCheck,
       ReadReturn, Return, DeviceTypeOK
<1>4. CASE Writing
  BY <1>4 DEF Writing, WriteSnap, WriteCopy, WritePublish, WriteSpin,
       WriteCheck, WriteReturn, Return, DeviceTypeOK
<1>5. CASE Enabling
  BY <1>5, WriteControlType DEF Enabling, EnableDisableAll, EnableLoad,
       EnableStore, EnableIowr, EnableAll, WriteControl, DeviceTypeOK,
       StateTypeOK
<1>6. CASE CloseWait
  BY <1>6 DEF CloseWait, Return, DeviceTypeOK
<1>7. CASE Handler
  <2>1. CASE IsrEnter
    BY <2>1 DEF IsrEnter, DeviceTypeOK
  <2>2. CASE IsrControl
    BY <2>2 DEF IsrControl, DeviceTypeOK
  <2>3. CASE IsrReceive
    BY <2>3, ReadDataType DEF IsrReceive, ReadData
  <2>4. CASE IsrReceiveFull
    BY <2>4 DEF IsrReceiveFull, DeviceTypeOK
  <2>5. CASE IsrReceiveEnd
    BY <2>5, WriteControlType DEF IsrReceiveEnd, WriteControl, DeviceTypeOK,
         StateTypeOK
  <2>6. CASE IsrTransmit
    BY <2>6, WriteDataType DEF IsrTransmit, WriteData, StateTypeOK
  <2>7. CASE IsrTransmitEnd
    BY <2>7, WriteControlType DEF IsrTransmitEnd, WriteControl, DeviceTypeOK,
         StateTypeOK
  <2>8. CASE TimeoutClear
    BY <2>8, WriteControlType DEF TimeoutClear, WriteControl, StateTypeOK
  <2> QED
    BY <1>7, <2>1, <2>2, <2>3, <2>4, <2>5, <2>6, <2>7, <2>8 DEF Handler
<1>8. CASE TimeoutCheck
  BY <1>8 DEF TimeoutCheck, DeviceTypeOK
<1>9. CASE HostStep
  BY <1>9, HostType DEF HostStep, Host, t_ena, t_pause, r_ena
<1>10. CASE UNCHANGED vars
  BY <1>10 DEF vars, DeviceTypeOK
<1> QED
  BY <1>1, <1>2, <1>3, <1>4, <1>5, <1>6, <1>7, <1>8, <1>9, <1>10 DEF Next,
       Program

(* The ring indices stay in range: the copy windows of ReadInv and WriteInv *)
(* end at the end of the buffer, where Wrap brings them back to 0.         *)
LEMMA StateTypeStep ==
  ASSUME TypeOK, ReadInv, WriteInv, [Next]_vars
  PROVE  StateTypeOK'
<1> USE DriverAssumption DEF TypeOK, StateTypeOK, device, state, frame, task,
     isrvars, At
<1>1. CASE StartCall
  BY <1>1 DEF StartCall, ReadCall, WriteCall, CloseCall, IoctlSetTimeout,
       Return
<1>2. CASE Booting
  <2>1. CASE InitDevice
    BY <2>1 DEF InitDevice, WriteControl, ControlBits
  <2>2. CASE InitRegister
    BY <2>2 DEF InitRegister
  <2>3. CASE InitAlarm
    BY <2>3 DEF InitAlarm
  <2> QED
    BY <1>2, <2>1, <2>2, <2>3 DEF Booting
<1>3. CASE Reading
  <2>1. CASE ReadSnap
    BY <2>1 DEF ReadSnap
  <2>2. CASE ReadCopy
    BY <2>2 DEF ReadCopy
  <2>3. CASE ReadPublish
    BY <2>3, WrapPlus DEF ReadPublish, CallTypeOK, ReadInv
  <2>4. CASE ReadSpin
    BY <2>4 DEF ReadSpin
  <2>5. CASE ReadCheck
    BY <2>5 DEF ReadCheck
  <2>6. CASE ReadReturn
    BY <2>6 DEF ReadReturn, Return
  <2> QED
    BY <1>3, <2>1, <2>2, <2>3, <2>4, <2>5, <2>6 DEF Reading
<1>4. CASE Writing
  <2>1. CASE WriteSnap
    BY <2>1 DEF WriteSnap
  <2>2. CASE WriteCopy
    BY <2>2 DEF WriteCopy, CallTypeOK, WriteInv, Slots
  <2>3. CASE WritePublish
    BY <2>3, WrapPlus DEF WritePublish, CallTypeOK, WriteInv
  <2>4. CASE WriteSpin
    BY <2>4 DEF WriteSpin
  <2>5. CASE WriteCheck
    BY <2>5 DEF WriteCheck
  <2>6. CASE WriteReturn
    BY <2>6 DEF WriteReturn, Return
  <2> QED
    BY <1>4, <2>1, <2>2, <2>3, <2>4, <2>5, <2>6 DEF Writing
<1>5. CASE Enabling
  BY <1>5 DEF Enabling, EnableDisableAll, EnableLoad, EnableStore, EnableIowr,
       EnableAll, WriteControl, CallTypeOK, EnableBit, ControlBits
<1>6. CASE CloseWait
  BY <1>6 DEF CloseWait, Return
<1>7. CASE Handler
  <2>1. CASE IsrEnter
    BY <2>1 DEF IsrEnter
  <2>2. CASE IsrControl
    BY <2>2 DEF IsrControl
  <2>3. CASE IsrReceive
    BY <2>3, WrapNext DEF IsrReceive, ReadData, DeviceTypeOK
  <2>4. CASE IsrReceiveFull
    BY <2>4 DEF IsrReceiveFull
  <2>5. CASE IsrReceiveEnd
    BY <2>5 DEF IsrReceiveEnd, WriteControl
  <2>6. CASE IsrTransmit
    BY <2>6, WrapNext DEF IsrTransmit, WriteData
  <2>7. CASE IsrTransmitEnd
    BY <2>7 DEF IsrTransmitEnd, WriteControl
  <2>8. CASE TimeoutClear
    BY <2>8 DEF TimeoutClear, WriteControl
  <2> QED
    BY <1>7, <2>1, <2>2, <2>3, <2>4, <2>5, <2>6, <2>7, <2>8 DEF Handler
<1>8. CASE TimeoutCheck
  BY <1>8 DEF TimeoutCheck, Saturate
<1>9. CASE HostStep
  BY <1>9 DEF HostStep, Host, t_ena, t_pause, r_ena
<1>10. CASE UNCHANGED vars
  BY <1>10 DEF vars
<1> QED
  BY <1>1, <1>2, <1>3, <1>4, <1>5, <1>6, <1>7, <1>8, <1>9, <1>10 DEF Next,
       Program

(* The variables of a call: what is copied comes out of the ring, and what *)
(* is left over is a sequence of characters again.                         *)
LEMMA CallTypeStep ==
  ASSUME TypeOK, ReadInv, WriteInv, [Next]_vars
  PROVE  CallTypeOK'
<1> USE DriverAssumption DEF TypeOK, CallTypeOK, Pcs, BootPcs, ReadPcs,
     WritePcs, EnablePcs, device, state, frame, task, isrvars, At
<1>1. CASE StartCall
  <2>1. ASSUME NEW count \in 0 .. MaxCount, NEW nb \in BOOLEAN, ReadCall(count, nb)
        PROVE  CallTypeOK'
    <3>1. CASE count > 0
      BY <2>1, <3>1 DEF ReadCall
    <3>2. CASE ~(count > 0)
      <4>1. Result(0, nb) \in Int
        BY ResultType
      <4>2. Return(Result(0, nb)) /\ pc' = "idle" /\ op' = "read"
        BY <2>1, <3>2 DEF ReadCall
      <4> QED
        BY <2>1, <4>1, <4>2, ReturnType DEF ReadCall
    <3> QED
      BY <3>1, <3>2
  <2>2. ASSUME NEW bytes \in BytesUpTo(MaxCount), NEW nb \in BOOLEAN,
               WriteCall(bytes, nb)
        PROVE  CallTypeOK'
    BY <2>2, BytesAreSequences DEF WriteCall
  <2>3. ASSUME NEW nb \in BOOLEAN, CloseCall(nb)
        PROVE  CallTypeOK'
    BY <2>3 DEF CloseCall
  <2>4. ASSUME NEW arg \in TimeoutArgs, IoctlSetTimeout(arg)
        PROVE  CallTypeOK'
    BY <2>4 DEF IoctlSetTimeout
  <2> QED
    BY <1>1, <2>1, <2>2, <2>3, <2>4 DEF StartCall
<1>2. CASE Booting
  BY <1>2 DEF Booting, InitDevice, InitRegister, InitAlarm, WriteControl
<1>3. CASE Reading
  <2>1. CASE ReadSnap
    BY <2>1 DEF ReadSnap, StateTypeOK, AtMost, RxRun, Slots
  <2>2. CASE ReadCopy
    BY <2>2 DEF ReadCopy, ReadInv, StateTypeOK, Slots
  <2>3. CASE ReadPublish
    BY <2>3 DEF ReadPublish, ReadInv
  <2>4. CASE ReadSpin
    BY <2>4 DEF ReadSpin
  <2>5. CASE ReadCheck
    BY <2>5 DEF ReadCheck
  <2>6. CASE ReadReturn
    BY <2>6, ResultType, ReturnType DEF ReadReturn, Return
  <2> QED
    BY <1>3, <2>1, <2>2, <2>3, <2>4, <2>5, <2>6 DEF Reading
<1>4. CASE Writing
  <2>1. CASE WriteSnap
    BY <2>1 DEF WriteSnap, StateTypeOK, AtMost, TxRun, Slots
  <2>2. CASE WriteCopy
    BY <2>2 DEF WriteCopy, WriteInv
  <2>3. CASE WritePublish
    BY <2>3, RestLength DEF WritePublish, WriteInv
  <2>4. CASE WriteSpin
    BY <2>4 DEF WriteSpin
  <2>5. CASE WriteCheck
    BY <2>5 DEF WriteCheck
  <2>6. CASE WriteReturn
    BY <2>6, ResultType, ReturnType DEF WriteReturn, Return
  <2> QED
    BY <1>4, <2>1, <2>2, <2>3, <2>4, <2>5, <2>6 DEF Writing
<1>5. CASE Enabling
  BY <1>5 DEF Enabling, EnableDisableAll, EnableLoad, EnableStore, EnableIowr,
       EnableAll, WriteControl, StateTypeOK, EnableBit
<1>6. CASE CloseWait
  <2>1. \E result \in {0, -EWOULDBLOCK} : Return(result)
    BY <1>6 DEF CloseWait
  <2>2. \A result \in {0, -EWOULDBLOCK} : result \in Int
    BY DEF EWOULDBLOCK
  <2> QED
    BY <1>6, <2>1, <2>2, ReturnType DEF CloseWait
<1>7. CASE Handler
  BY <1>7 DEF Handler, IsrEnter, IsrControl, IsrReceive, IsrReceiveFull,
       IsrReceiveEnd, IsrTransmit, IsrTransmitEnd, TimeoutClear, ReadData,
       WriteControl, WriteData
<1>8. CASE TimeoutCheck
  BY <1>8 DEF TimeoutCheck
<1>9. CASE HostStep
  BY <1>9 DEF HostStep, Host, t_ena, t_pause, r_ena
<1>10. CASE UNCHANGED vars
  BY <1>10 DEF vars
<1> QED
  BY <1>1, <1>2, <1>3, <1>4, <1>5, <1>6, <1>7, <1>8, <1>9, <1>10 DEF Next,
       Program

(* The handler's variables; the space it reads is at most the FIFO's depth. *)
LEMMA HandlerTypeStep ==
  ASSUME TypeOK, [Next]_vars
  PROVE  HandlerTypeOK'
<1> USE DeviceAssumption DEF TypeOK, HandlerTypeOK, IsrPcs, device, state,
     frame, task, isrvars, At
<1>1. CASE StartCall
  BY <1>1 DEF StartCall, ReadCall, WriteCall, CloseCall, IoctlSetTimeout,
       Return
<1>2. CASE Booting
  BY <1>2 DEF Booting, InitDevice, InitRegister, InitAlarm, WriteControl
<1>3. CASE Reading
  BY <1>3 DEF Reading, ReadSnap, ReadCopy, ReadPublish, ReadSpin, ReadCheck,
       ReadReturn, Return
<1>4. CASE Writing
  BY <1>4 DEF Writing, WriteSnap, WriteCopy, WritePublish, WriteSpin,
       WriteCheck, WriteReturn, Return
<1>5. CASE Enabling
  BY <1>5 DEF Enabling, EnableDisableAll, EnableLoad, EnableStore, EnableIowr,
       EnableAll, WriteControl
<1>6. CASE CloseWait
  BY <1>6 DEF CloseWait, Return
<1>7. CASE Handler
  <2>1. CASE IsrEnter
    BY <2>1 DEF IsrEnter
  <2>2. CASE IsrControl
    BY <2>2 DEF IsrControl, wspace, DeviceTypeOK, ipen_AF, ipen_AE, fifo_AF,
         fifo_AE
  <2>3. CASE IsrReceive
    BY <2>3 DEF IsrReceive, ReadData
  <2>4. CASE IsrReceiveFull
    BY <2>4 DEF IsrReceiveFull
  <2>5. CASE IsrReceiveEnd
    BY <2>5 DEF IsrReceiveEnd, WriteControl
  <2>6. CASE IsrTransmit
    BY <2>6 DEF IsrTransmit, WriteData
  <2>7. CASE IsrTransmitEnd
    <3>1. 0 \in 0 .. Depth
      BY SMT
    <3> QED
      BY <2>7, <3>1 DEF IsrTransmitEnd
  <2>8. CASE TimeoutClear
    BY <2>8 DEF TimeoutClear, WriteControl
  <2> QED
    BY <1>7, <2>1, <2>2, <2>3, <2>4, <2>5, <2>6, <2>7, <2>8 DEF Handler
<1>8. CASE TimeoutCheck
  BY <1>8 DEF TimeoutCheck
<1>9. CASE HostStep
  BY <1>9 DEF HostStep, Host, t_ena, t_pause, r_ena
<1>10. CASE UNCHANGED vars
  BY <1>10 DEF vars
<1> QED
  BY <1>1, <1>2, <1>3, <1>4, <1>5, <1>6, <1>7, <1>8, <1>9, <1>10 DEF Next,
       Program

(* Only the critical section turns interrupts off, and only outside it can *)
(* the CPU be taken by a handler.                                          *)
LEMMA PlaceStep ==
  ASSUME PlaceInv, [Next]_vars
  PROVE  PlaceInv'
<1> USE DEF PlaceInv, ReadPcs, WritePcs, EnablePcs, device, state, frame, task,
     isrvars, At
<1>1. CASE StartCall
  BY <1>1 DEF StartCall, ReadCall, WriteCall, CloseCall, IoctlSetTimeout,
       Return
<1>2. CASE Booting
  BY <1>2 DEF Booting, InitDevice, InitRegister, InitAlarm, WriteControl
<1>3. CASE Reading
  BY <1>3 DEF Reading, ReadSnap, ReadCopy, ReadPublish, ReadSpin, ReadCheck,
       ReadReturn, Return
<1>4. CASE Writing
  BY <1>4 DEF Writing, WriteSnap, WriteCopy, WritePublish, WriteSpin,
       WriteCheck, WriteReturn, Return
<1>5. CASE Enabling
  BY <1>5 DEF Enabling, EnableDisableAll, EnableLoad, EnableStore, EnableIowr,
       EnableAll, WriteControl
<1>6. CASE CloseWait
  BY <1>6 DEF CloseWait, Return
<1>7. CASE Handler
  BY <1>7 DEF Handler, IsrEnter, IsrControl, IsrReceive, IsrReceiveFull,
       IsrReceiveEnd, IsrTransmit, IsrTransmitEnd, TimeoutClear, ReadData,
       WriteControl, WriteData
<1>8. CASE TimeoutCheck
  BY <1>8 DEF TimeoutCheck
<1>9. CASE HostStep
  BY <1>9 DEF HostStep, Host, t_ena, t_pause, r_ena
<1>10. CASE UNCHANGED vars
  BY <1>10 DEF vars
<1> QED
  BY <1>1, <1>2, <1>3, <1>4, <1>5, <1>6, <1>7, <1>8, <1>9, <1>10 DEF Next,
       Program

(* Each writer of the shadow mask is alone with it until the register      *)
(* follows: the handler because the program does not run, the program      *)
(* because the handler cannot.                                             *)
LEMMA MaskStep ==
  ASSUME PlaceInv, MaskInv, [Next]_vars
  PROVE  MaskInv'
<1> USE DEF MaskInv, EnableBit, PlaceInv, ReadPcs, WritePcs, EnablePcs, device,
     state, frame, task, isrvars, At
<1>1. CASE StartCall
  BY <1>1 DEF StartCall, ReadCall, WriteCall, CloseCall, IoctlSetTimeout,
       Return
<1>2. CASE Booting
  BY <1>2 DEF Booting, InitDevice, InitRegister, InitAlarm, WriteControl
<1>3. CASE Reading
  BY <1>3 DEF Reading, ReadSnap, ReadCopy, ReadPublish, ReadSpin, ReadCheck,
       ReadReturn, Return
<1>4. CASE Writing
  BY <1>4 DEF Writing, WriteSnap, WriteCopy, WritePublish, WriteSpin,
       WriteCheck, WriteReturn, Return
<1>5. CASE Enabling
  BY <1>5 DEF Enabling, EnableDisableAll, EnableLoad, EnableStore, EnableIowr,
       EnableAll, WriteControl
<1>6. CASE CloseWait
  BY <1>6 DEF CloseWait, Return
<1>7. CASE Handler
  BY <1>7 DEF Handler, IsrEnter, IsrControl, IsrReceive, IsrReceiveFull,
       IsrReceiveEnd, IsrTransmit, IsrTransmitEnd, TimeoutClear, ReadData,
       WriteControl, WriteData
<1>8. CASE TimeoutCheck
  BY <1>8 DEF TimeoutCheck
<1>9. CASE HostStep
  BY <1>9 DEF HostStep, Host, t_ena, t_pause, r_ena
<1>10. CASE UNCHANGED vars
  BY <1>10 DEF vars
<1> QED
  BY <1>1, <1>2, <1>3, <1>4, <1>5, <1>6, <1>7, <1>8, <1>9, <1>10 DEF Next,
       Program

(* The copy window ends at the snapshot of rx_in or the end of the buffer;  *)
(* a read that waits has seen the ring empty.                              *)
LEMMA ReadStep ==
  ASSUME TypeOK, PlaceInv, ReadInv, [Next]_vars
  PROVE  ReadInv'
<1> USE DEF ReadInv, PlaceInv, ReadPcs, WritePcs, EnablePcs, device, state,
     frame, task, isrvars, At
<1>1. CASE StartCall
  BY <1>1 DEF StartCall, ReadCall, WriteCall, CloseCall, IoctlSetTimeout,
       Return, TypeOK
<1>2. CASE Booting
  BY <1>2 DEF Booting, InitDevice, InitRegister, InitAlarm, WriteControl
<1>3. CASE Reading
  <2>1. CASE ReadSnap
    BY <2>1, DriverAssumption DEF ReadSnap, TypeOK, StateTypeOK, CallTypeOK,
         Slots, AtMost, RxRun
  <2>2. CASE ReadCopy
    BY <2>2 DEF ReadCopy, TypeOK, CallTypeOK
  <2>3. CASE ReadPublish
    BY <2>3 DEF ReadPublish, TypeOK, CallTypeOK
  <2>4. CASE ReadSpin
    BY <2>4 DEF ReadSpin
  <2>5. CASE ReadCheck
    BY <2>5 DEF ReadCheck
  <2>6. CASE ReadReturn
    BY <2>6 DEF ReadReturn, Return
  <2> QED
    BY <1>3, <2>1, <2>2, <2>3, <2>4, <2>5, <2>6 DEF Reading
<1>4. CASE Writing
  BY <1>4 DEF Writing, WriteSnap, WriteCopy, WritePublish, WriteSpin,
       WriteCheck, WriteReturn, Return
<1>5. CASE Enabling
  BY <1>5 DEF Enabling, EnableDisableAll, EnableLoad, EnableStore, EnableIowr,
       EnableAll, WriteControl
<1>6. CASE CloseWait
  BY <1>6 DEF CloseWait, Return
<1>7. CASE Handler
  BY <1>7 DEF Handler, IsrEnter, IsrControl, IsrReceive, IsrReceiveFull,
       IsrReceiveEnd, IsrTransmit, IsrTransmitEnd, TimeoutClear, ReadData,
       WriteControl, WriteData
<1>8. CASE TimeoutCheck
  BY <1>8 DEF TimeoutCheck
<1>9. CASE HostStep
  BY <1>9 DEF HostStep, Host, t_ena, t_pause, r_ena
<1>10. CASE UNCHANGED vars
  BY <1>10 DEF vars
<1> QED
  BY <1>1, <1>2, <1>3, <1>4, <1>5, <1>6, <1>7, <1>8, <1>9, <1>10 DEF Next,
       Program

(* The same for a write, which leaves bytes over only when the ring was    *)
(* full at its last snapshot.                                              *)
LEMMA WriteStep ==
  ASSUME TypeOK, PlaceInv, WriteInv, [Next]_vars
  PROVE  WriteInv'
<1> USE DEF WriteInv, BootPcs, PlaceInv, ReadPcs, WritePcs, EnablePcs, device,
     state, frame, task, isrvars, At
<1>1. CASE StartCall
  BY <1>1 DEF StartCall, ReadCall, WriteCall, CloseCall, IoctlSetTimeout,
       Return, TypeOK
<1>2. CASE Booting
  BY <1>2 DEF Booting, InitDevice, InitRegister, InitAlarm, WriteControl
<1>3. CASE Reading
  BY <1>3 DEF Reading, ReadSnap, ReadCopy, ReadPublish, ReadSpin, ReadCheck,
       ReadReturn, Return
<1>4. CASE Writing
  <2>1. CASE WriteSnap
    BY <2>1, DriverAssumption DEF WriteSnap, TypeOK, StateTypeOK, CallTypeOK,
         Slots, AtMost, TxRun
  <2>2. CASE WriteCopy
    BY <2>2 DEF WriteCopy, TypeOK, CallTypeOK
  <2>3. CASE WritePublish
    BY <2>3, RestLength DEF WritePublish, TypeOK, CallTypeOK
  <2>4. CASE WriteSpin
    BY <2>4 DEF WriteSpin
  <2>5. CASE WriteCheck
    BY <2>5 DEF WriteCheck
  <2>6. CASE WriteReturn
    BY <2>6 DEF WriteReturn, Return
  <2> QED
    BY <1>4, <2>1, <2>2, <2>3, <2>4, <2>5, <2>6 DEF Writing
<1>5. CASE Enabling
  <2>1. CASE EnableDisableAll
    BY <2>1 DEF EnableDisableAll
  <2>2. CASE EnableLoad
    BY <2>2 DEF EnableLoad
  <2>3. CASE EnableStore
    BY <2>3 DEF EnableStore
  <2>4. CASE EnableIowr
    BY <2>4 DEF EnableIowr, WriteControl
  <2>5. CASE EnableAll
    BY <2>5 DEF EnableAll
  <2> QED
    BY <1>5, <2>1, <2>2, <2>3, <2>4, <2>5 DEF Enabling
<1>6. CASE CloseWait
  BY <1>6 DEF CloseWait, Return
<1>7. CASE Handler
  BY <1>7 DEF Handler, IsrEnter, IsrControl, IsrReceive, IsrReceiveFull,
       IsrReceiveEnd, IsrTransmit, IsrTransmitEnd, TimeoutClear, ReadData,
       WriteControl, WriteData
<1>8. CASE TimeoutCheck
  BY <1>8 DEF TimeoutCheck
<1>9. CASE HostStep
  BY <1>9 DEF HostStep, Host, t_ena, t_pause, r_ena
<1>10. CASE UNCHANGED vars
  BY <1>10 DEF vars
<1> QED
  BY <1>1, <1>2, <1>3, <1>4, <1>5, <1>6, <1>7, <1>8, <1>9, <1>10 DEF Next,
       Program

(* A pause interrupt is cleared by the read that could empty the FIFO, the *)
(* handler leaves its receive loop with the ring non-empty, and only it    *)
(* fills the transmit FIFO.                                                *)
LEMMA HandlerStep ==
  ASSUME TypeOK, HandlerInv, [Next]_vars
  PROVE  HandlerInv'
<1> USE DeviceAssumption DEF HandlerInv, wspace, device, state, frame, task,
     isrvars, At
<1>1. CASE StartCall
  BY <1>1 DEF StartCall, ReadCall, WriteCall, CloseCall, IoctlSetTimeout,
       Return
<1>2. CASE Booting
  BY <1>2 DEF Booting, InitDevice, InitRegister, InitAlarm, WriteControl
<1>3. CASE Reading
  BY <1>3 DEF Reading, ReadSnap, ReadCopy, ReadPublish, ReadSpin, ReadCheck,
       ReadReturn, Return, TypeOK, StateTypeOK
<1>4. CASE Writing
  BY <1>4 DEF Writing, WriteSnap, WriteCopy, WritePublish, WriteSpin,
       WriteCheck, WriteReturn, Return
<1>5. CASE Enabling
  BY <1>5 DEF Enabling, EnableDisableAll, EnableLoad, EnableStore, EnableIowr,
       EnableAll, WriteControl
<1>6. CASE CloseWait
  BY <1>6 DEF CloseWait, Return
<1>7. CASE Handler
  <2>1. CASE IsrEnter
    BY <2>1 DEF IsrEnter
  <2>2. CASE IsrControl
    BY <2>2 DEF IsrControl, TypeOK, DeviceTypeOK, ipen_AF, ipen_AE, fifo_AF
  <2>3. CASE IsrReceive
    BY <2>3, DriverAssumption, WrapNext DEF IsrReceive, ReadData, TypeOK,
         DeviceTypeOK, StateTypeOK, Slots, RxFull
  <2>4. CASE IsrReceiveFull
    BY <2>4, DriverAssumption, WrapNext DEF IsrReceiveFull, TypeOK,
         StateTypeOK, Slots, RxFull
  <2>5. CASE IsrReceiveEnd
    BY <2>5 DEF IsrReceiveEnd, WriteControl
  <2>6. CASE IsrTransmit
    BY <2>6 DEF IsrTransmit, WriteData, TypeOK, DeviceTypeOK, HandlerTypeOK
  <2>7. CASE IsrTransmitEnd
    BY <2>7 DEF IsrTransmitEnd, WriteControl, TypeOK, DeviceTypeOK
  <2>8. CASE TimeoutClear
    BY <2>8 DEF TimeoutClear, WriteControl
  <2> QED
    BY <1>7, <2>1, <2>2, <2>3, <2>4, <2>5, <2>6, <2>7, <2>8 DEF Handler
<1>8. CASE TimeoutCheck
  BY <1>8 DEF TimeoutCheck
<1>9. CASE HostStep
  BY <1>9 DEF HostStep, Host, t_ena, t_pause, r_ena, TypeOK, DeviceTypeOK,
       HandlerTypeOK
<1>10. CASE UNCHANGED vars
  BY <1>10 DEF vars
<1> QED
  BY <1>1, <1>2, <1>3, <1>4, <1>5, <1>6, <1>7, <1>8, <1>9, <1>10 DEF Next,
       Program

(* Receive interrupts go off only over a ring with data in it, and the read *)
(* that takes the data turns them on again.                                *)
LEMMA RxArmedStep ==
  ASSUME TypeOK, PlaceInv, MaskInv, ReadInv, HandlerInv, RxArmed, [Next]_vars
  PROVE  RxArmed'
<1> USE DEF RxArmed, PlaceInv, ReadPcs, WritePcs, EnablePcs, device, state,
     frame, task, isrvars, At
<1>1. CASE StartCall
  BY <1>1 DEF StartCall, ReadCall, WriteCall, CloseCall, IoctlSetTimeout,
       Return
<1>2. CASE Booting
  BY <1>2 DEF Booting, InitDevice, InitRegister, InitAlarm, WriteControl
<1>3. CASE Reading
  <2>1. CASE ReadSnap
    BY <2>1, DriverAssumption DEF ReadSnap, TypeOK, StateTypeOK, CallTypeOK,
         Slots, AtMost, RxRun, ReadInv
  <2>2. CASE ReadCopy
    BY <2>2 DEF ReadCopy
  <2>3. CASE ReadPublish
    BY <2>3 DEF ReadPublish, TypeOK, CallTypeOK, ReadInv
  <2>4. CASE ReadSpin
    BY <2>4 DEF ReadSpin
  <2>5. CASE ReadCheck
    BY <2>5 DEF ReadCheck
  <2>6. CASE ReadReturn
    BY <2>6 DEF ReadReturn, Return
  <2> QED
    BY <1>3, <2>1, <2>2, <2>3, <2>4, <2>5, <2>6 DEF Reading
<1>4. CASE Writing
  BY <1>4 DEF Writing, WriteSnap, WriteCopy, WritePublish, WriteSpin,
       WriteCheck, WriteReturn, Return
<1>5. CASE Enabling
  <2>1. CASE EnableDisableAll
    BY <2>1 DEF EnableDisableAll, ReadInv
  <2>2. CASE EnableLoad
    BY <2>2 DEF EnableLoad
  <2>3. CASE EnableStore
    BY <2>3 DEF EnableStore
  <2>4. CASE EnableIowr
    BY <2>4 DEF EnableIowr, WriteControl, MaskInv, EnableBit
  <2>5. CASE EnableAll
    BY <2>5 DEF EnableAll
  <2> QED
    BY <1>5, <2>1, <2>2, <2>3, <2>4, <2>5 DEF Enabling
<1>6. CASE CloseWait
  BY <1>6 DEF CloseWait, Return
<1>7. CASE Handler
  <2>1. CASE IsrEnter
    BY <2>1 DEF IsrEnter
  <2>2. CASE IsrControl
    BY <2>2 DEF IsrControl
  <2>3. CASE IsrReceive
    BY <2>3, DriverAssumption, WrapNext DEF IsrReceive, ReadData, TypeOK,
         StateTypeOK, Slots, RxFull
  <2>4. CASE IsrReceiveFull
    BY <2>4 DEF IsrReceiveFull
  <2>5. CASE IsrReceiveEnd
    BY <2>5 DEF IsrReceiveEnd, WriteControl, HandlerInv, MaskInv
  <2>6. CASE IsrTransmit
    BY <2>6 DEF IsrTransmit, WriteData
  <2>7. CASE IsrTransmitEnd
    BY <2>7 DEF IsrTransmitEnd, WriteControl, MaskInv
  <2>8. CASE TimeoutClear
    BY <2>8 DEF TimeoutClear, WriteControl, MaskInv
  <2> QED
    BY <1>7, <2>1, <2>2, <2>3, <2>4, <2>5, <2>6, <2>7, <2>8 DEF Handler
<1>8. CASE TimeoutCheck
  BY <1>8 DEF TimeoutCheck
<1>9. CASE HostStep
  BY <1>9 DEF HostStep, Host, t_ena, t_pause, r_ena
<1>10. CASE UNCHANGED vars
  BY <1>10 DEF vars
<1> QED
  BY <1>1, <1>2, <1>3, <1>4, <1>5, <1>6, <1>7, <1>8, <1>9, <1>10 DEF Next,
       Program

(* Transmit interrupts go off only over an empty ring, and the write that  *)
(* fills it turns them on before it waits or returns.                      *)
LEMMA TxArmedStep ==
  ASSUME TypeOK, PlaceInv, MaskInv, WriteInv, TxArmed, [Next]_vars
  PROVE  TxArmed'
<1> USE DEF TxArmed, PlaceInv, ReadPcs, WritePcs, EnablePcs, device, state,
     frame, task, isrvars, At
<1>1. CASE StartCall
  BY <1>1 DEF StartCall, ReadCall, WriteCall, CloseCall, IoctlSetTimeout,
       Return
<1>2. CASE Booting
  BY <1>2 DEF Booting, InitDevice, InitRegister, InitAlarm, WriteControl,
       WriteInv, BootPcs
<1>3. CASE Reading
  BY <1>3 DEF Reading, ReadSnap, ReadCopy, ReadPublish, ReadSpin, ReadCheck,
       ReadReturn, Return
<1>4. CASE Writing
  <2>1. CASE WriteSnap
    BY <2>1, DriverAssumption DEF WriteSnap, TypeOK, StateTypeOK, CallTypeOK,
         AtMost, TxRun, Slots, WriteInv
  <2>2. CASE WriteCopy
    BY <2>2 DEF WriteCopy
  <2>3. CASE WritePublish
    BY <2>3 DEF WritePublish
  <2>4. CASE WriteSpin
    BY <2>4 DEF WriteSpin
  <2>5. CASE WriteCheck
    BY <2>5 DEF WriteCheck
  <2>6. CASE WriteReturn
    BY <2>6 DEF WriteReturn, Return
  <2> QED
    BY <1>4, <2>1, <2>2, <2>3, <2>4, <2>5, <2>6 DEF Writing
<1>5. CASE Enabling
  <2>1. CASE EnableDisableAll
    BY <2>1 DEF EnableDisableAll
  <2>2. CASE EnableLoad
    BY <2>2 DEF EnableLoad
  <2>3. CASE EnableStore
    BY <2>3 DEF EnableStore
  <2>4. CASE EnableIowr
    BY <2>4 DEF EnableIowr, WriteControl, MaskInv, EnableBit
  <2>5. CASE EnableAll
    BY <2>5 DEF EnableAll
  <2> QED
    BY <1>5, <2>1, <2>2, <2>3, <2>4, <2>5 DEF Enabling
<1>6. CASE CloseWait
  BY <1>6 DEF CloseWait, Return
<1>7. CASE Handler
  <2>1. CASE IsrEnter
    BY <2>1 DEF IsrEnter
  <2>2. CASE IsrControl
    BY <2>2 DEF IsrControl
  <2>3. CASE IsrReceive
    BY <2>3 DEF IsrReceive, ReadData
  <2>4. CASE IsrReceiveFull
    BY <2>4 DEF IsrReceiveFull
  <2>5. CASE IsrReceiveEnd
    BY <2>5 DEF IsrReceiveEnd, WriteControl, MaskInv
  <2>6. CASE IsrTransmit
    BY <2>6 DEF IsrTransmit, WriteData
  <2>7. CASE IsrTransmitEnd
    BY <2>7 DEF IsrTransmitEnd, WriteControl, MaskInv, TypeOK, HandlerTypeOK
  <2>8. CASE TimeoutClear
    BY <2>8 DEF TimeoutClear, WriteControl, MaskInv
  <2> QED
    BY <1>7, <2>1, <2>2, <2>3, <2>4, <2>5, <2>6, <2>7, <2>8 DEF Handler
<1>8. CASE TimeoutCheck
  BY <1>8 DEF TimeoutCheck
<1>9. CASE HostStep
  BY <1>9 DEF HostStep, Host, t_ena, t_pause, r_ena
<1>10. CASE UNCHANGED vars
  BY <1>10 DEF vars
<1> QED
  BY <1>1, <1>2, <1>3, <1>4, <1>5, <1>6, <1>7, <1>8, <1>9, <1>10 DEF Next,
       Program

(* The handler writes only while it has space left of what it read.        *)
LEMMA OverflowStep ==
  ASSUME TypeOK, HandlerInv, NoOverflow, [Next]_vars
  PROVE  NoOverflow'
<1> USE DEF NoOverflow, device, state, frame, task, isrvars, At
<1>1. CASE StartCall
  BY <1>1 DEF StartCall, ReadCall, WriteCall, CloseCall, IoctlSetTimeout,
       Return
<1>2. CASE Booting
  BY <1>2 DEF Booting, InitDevice, InitRegister, InitAlarm, WriteControl
<1>3. CASE Reading
  BY <1>3 DEF Reading, ReadSnap, ReadCopy, ReadPublish, ReadSpin, ReadCheck,
       ReadReturn, Return
<1>4. CASE Writing
  BY <1>4 DEF Writing, WriteSnap, WriteCopy, WritePublish, WriteSpin,
       WriteCheck, WriteReturn, Return
<1>5. CASE Enabling
  BY <1>5 DEF Enabling, EnableDisableAll, EnableLoad, EnableStore, EnableIowr,
       EnableAll, WriteControl
<1>6. CASE CloseWait
  BY <1>6 DEF CloseWait, Return
<1>7. CASE Handler
  BY <1>7, DeviceAssumption DEF Handler, IsrEnter, IsrControl, IsrReceive,
       IsrReceiveFull, IsrReceiveEnd, IsrTransmit, IsrTransmitEnd,
       TimeoutClear, ReadData, WriteControl, WriteData, TypeOK, DeviceTypeOK,
       HandlerTypeOK, HandlerInv, wspace
<1>8. CASE TimeoutCheck
  BY <1>8 DEF TimeoutCheck
<1>9. CASE HostStep
  BY <1>9 DEF HostStep, Host, t_ena, t_pause, r_ena
<1>10. CASE UNCHANGED vars
  BY <1>10 DEF vars
<1> QED
  BY <1>1, <1>2, <1>3, <1>4, <1>5, <1>6, <1>7, <1>8, <1>9, <1>10 DEF Next,
       Program

(* The inductive invariant holds after reset, before the driver's init.    *)
LEMMA InitIInv == Init => IInv
<1> SUFFICES ASSUME Init PROVE IInv
  OBVIOUS
<1> USE DEF Init
<1>1. 0 \in Slots /\ 0 \in 0 .. BufLen /\ 0 \in 0 .. Depth /\ 0 \in 0 .. (IntMax - 2)
  BY DriverAssumption, DeviceAssumption, SMT DEF Slots
<1>2. DeviceTypeOK
  <2>1. <<>> \in Seq(Byte) /\ Len(<<>>) = 0
    BY SMT
  <2>2. rfifo = <<>> /\ wfifo = <<>> /\ ien = {}
    BY DEF DeviceInit
  <2>3. pause_irq = FALSE /\ ac = FALSE /\ woverflow = FALSE
    BY DEF DeviceInit
  <2>4. Depth \in Nat
    BY DeviceAssumption
  <2>5. 0 <= Depth
    BY <2>4, SMT
  <2>6. rfifo \in Seq(Byte) /\ Len(rfifo) <= Depth
    BY <2>1, <2>2, <2>5, Zenon
  <2>7. wfifo \in Seq(Byte) /\ Len(wfifo) <= Depth
    BY <2>1, <2>2, <2>5, Zenon
  <2>8. ien \subseteq ControlBits
    BY <2>2, Zenon
  <2> QED
    BY <2>3, <2>6, <2>7, <2>8, Zenon DEF DeviceTypeOK
<1>3. StateTypeOK
  BY <1>1, DriverAssumption, ZeroIsAByte DEF StateTypeOK
<1>4. CallTypeOK
  BY <1>1 DEF CallTypeOK, Pcs, BootPcs
<1>5. HandlerTypeOK
  BY <1>1 DEF HandlerTypeOK, IsrPcs
<1>6. PlaceInv /\ MaskInv /\ ReadInv /\ WriteInv
  BY DEF PlaceInv, MaskInv, ReadInv, WriteInv, DeviceInit, ReadPcs, WritePcs, EnablePcs
<1>7. HandlerInv
  BY DeviceAssumption DEF HandlerInv, DeviceInit, wspace
<1>8. RxArmed /\ TxArmed /\ NoOverflow
  BY DEF RxArmed, TxArmed, NoOverflow, DeviceInit
<1> QED
  BY <1>2, <1>3, <1>4, <1>5, <1>6, <1>7, <1>8 DEF IInv, TypeOK

(* Every step of program, handler, alarm and host keeps it.                *)
LEMMA NextIInv == IInv /\ [Next]_vars => IInv'
  BY DeviceTypeStep, StateTypeStep, CallTypeStep, HandlerTypeStep, PlaceStep,
     MaskStep, ReadStep, WriteStep, HandlerStep, RxArmedStep, TxArmedStep,
     OverflowStep DEF IInv, TypeOK

(* The inductive invariant holds in every reachable state.                 *)
THEOREM Invariance == Spec => []IInv
  BY InitIInv, NextIInv, PTL DEF Spec

(* Ring indices, copy windows and FIFO levels stay in range for ever: no   *)
(* access to rx_buf or tx_buf is out of bounds.                            *)
THEOREM TypeCorrect == Spec => []TypeOK
<1>1. IInv => TypeOK
  BY DEF IInv
<1> QED
  BY <1>1, Invariance, PTL

(* No lost wake-up on receive: the handler leaves receive interrupts off only *)
(* while the ring holds data or the read that emptied it is on its way to turn *)
(* them on again (init.c:156-162 against read.c:188-195).                  *)
THEOREM ReceiveStaysArmed == Spec => []RxArmed
<1>1. IInv => RxArmed
  BY DEF IInv
<1> QED
  BY <1>1, Invariance, PTL

(* No stranded character on transmit: while the ring holds data, transmit  *)
(* interrupts are on or the write that filled it is about to turn them on  *)
(* (init.c:186-194 against write.c:136-139).                               *)
THEOREM TransmitStaysArmed == Spec => []TxArmed
<1>1. IInv => TxArmed
  BY DEF IInv
<1> QED
  BY <1>1, Invariance, PTL

(* The handler never writes to a full transmit FIFO (init.c:172-184), whatever *)
(* the host does between its reading the space and its using it.           *)
THEOREM FifoNeverOverruns == Spec => []NoOverflow
<1>1. IInv => NoOverflow
  BY DEF IInv
<1> QED
  BY <1>1, Invariance, PTL

(* The handler and the alarm callback always find the shadow mask equal to the *)
(* control register (the critical sections at read.c:191-194, write.c:136-139). *)
THEOREM MasksAgreeInHandler == Spec => []MaskAgrees
<1>1. IInv => MaskAgrees
  BY DEF IInv, PlaceInv, MaskInv, MaskAgrees
<1> QED
  BY <1>1, Invariance, PTL

(* Without a clock, or with the timeout set to never, no call gives up on the *)
(* host (init.c:89-96, 215, ioctl.c:65).                                   *)
THEOREM NeverExpires == Spec => []NeverTimesOut
<1>1. IInv => NeverTimesOut
  BY DriverAssumption DEF IInv, TypeOK, StateTypeOK, NeverTimesOut, HostActive
<1> QED
  BY <1>1, Invariance, PTL

(* A call that still finds the index it waits on unchanged has nothing to do: *)
(* the ring is empty for a read, full for a write (read.c:173, write.c:183). *)
THEOREM WaitersAreStuck == Spec => []WaitMeansStuck
<1>1. IInv => WaitMeansStuck
  BY DriverAssumption DEF IInv, TypeOK, StateTypeOK, PlaceInv, ReadInv, WriteInv,
     WaitMeansStuck, WritePcs, TxCount, TxRun, Used, Slots
<1> QED
  BY <1>1, Invariance, PTL

=============================================================================
