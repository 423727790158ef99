------------------------- MODULE JtagUartSmallProofs -------------------------
(***************************************************************************)
(* Proofs about the polled driver of the JTAG UART: its invariants, and    *)
(* that its writes and reads implement the abstract channels, for every    *)
(* character set, FIFO depth and request length.                           *)
(***************************************************************************)
EXTENDS JtagUartSmall, SequenceTheorems, TLAPS

(* The invariant of the polled driver. *)
SmallInv ==
  /\ SmallTypeOK
  /\ NoOverflow
  /\ pc = "idle" => sent = 0 /\ src = <<>> /\ got = <<>>
  /\ op # "write" => sent = 0 /\ src = <<>>
  /\ op # "read" => got = <<>>
  /\ pc # "idle" => ret = 0
  /\ pc = "return" => src = <<>>

(* A non-empty sequence taken apart: what one pass of either loop moves    *)
(* (read.c:73-76, write.c:72).                                             *)
LEMMA HeadAndTail ==
  ASSUME NEW S, NEW s \in Seq(S), s # <<>>
  PROVE  /\ Head(s) \in S
         /\ Tail(s) \in Seq(S)
         /\ Len(s) \in Nat \ {0}
         /\ Len(Tail(s)) = Len(s) - 1
         /\ (Tail(s) = <<>>) <=> (Len(s) = 1)
         /\ Tail(s) = SubSeq(s, 2, Len(s))
         /\ SubSeq(s, 1, 1) = <<Head(s)>>
<1>1. /\ Head(s) \in S
      /\ Tail(s) \in Seq(S)
      /\ Len(s) \in Nat \ {0}
      /\ Len(Tail(s)) = Len(s) - 1
  BY SMT
<1>2. (Tail(s) = <<>>) <=> (Len(s) = 1)
  <2>1. (Tail(s) = <<>>) <=> (Len(Tail(s)) = 0)
    BY <1>1, EmptySeq, Zenon
  <2>2. (Len(Tail(s)) = 0) <=> (Len(s) = 1)
    BY <1>1, SMT
  <2> QED
    BY <2>1, <2>2
<1>3. SubSeq(s, 1, 1) = <<Head(s)>>
  <2>1. 1 \in 1 .. Len(s) /\ s[1] \in S /\ Head(s) = s[1]
    BY <1>1, SMT
  <2>2. /\ SubSeq(s, 1, 1) \in Seq(S)
        /\ Len(SubSeq(s, 1, 1)) = 1
        /\ SubSeq(s, 1, 1)[1] = s[1]
    BY <2>1, SubSeqProperties, SMT
  <2>3. <<Head(s)>> \in Seq(S) /\ Len(<<Head(s)>>) = 1 /\ <<Head(s)>>[1] = s[1]
    BY <1>1, <2>1, SMT
  <2>4. \A i \in 1 .. Len(SubSeq(s, 1, 1)) : SubSeq(s, 1, 1)[i] = <<Head(s)>>[i]
    <3>1. \A i \in 1 .. Len(SubSeq(s, 1, 1)) : i = 1
      BY <2>2, SMT
    <3> QED
      BY <2>2, <2>3, <3>1, Zenon
  <2>5. Len(SubSeq(s, 1, 1)) = Len(<<Head(s)>>)
    BY <2>2, <2>3
  <2> QED
    BY <2>2, <2>3, <2>4, <2>5, SeqEqual, Zenon
<1> QED
  BY <1>1, <1>2, <1>3, TailIsSubSeq

(* The invariant holds after reset. *)
LEMMA InitSmallInv == SmallInit => SmallInv
<1> SUFFICES ASSUME SmallInit PROVE SmallInv
  OBVIOUS
<1>1. <<>> \in Seq(Byte) /\ Len(<<>>) = 0 /\ 0 <= Depth
  BY DeviceAssumption, SMT
<1>2. DeviceTypeOK
  BY <1>1, Zenon DEF SmallInit, DeviceInit, DeviceTypeOK
<1>3. pc = "idle" /\ op = "none" /\ nonblock = FALSE /\ space = 0 /\ got = <<>>
      /\ src = <<>> /\ sent = 0 /\ ret = 0 /\ woverflow = FALSE
  BY DEF SmallInit, DeviceInit
<1>4. 0 \in Nat /\ 0 \in Int
  BY SMT
<1>5. SmallTypeOK
  BY <1>1, <1>2, <1>3, <1>4 DEF SmallTypeOK
<1> QED
  BY <1>3, <1>5 DEF SmallInv, NoOverflow

(* Every step keeps it: the space a poll has seen is still there when the  *)
(* character is put, because only the program fills the FIFO.              *)
LEMMA NextSmallInv == SmallInv /\ [SmallNext]_smallvars => SmallInv'
<1> SUFFICES ASSUME SmallInv, [SmallNext]_smallvars PROVE SmallInv'
  OBVIOUS
<1> USE DeviceAssumption, SmallAssumption
    DEF SmallInv, SmallTypeOK, NoOverflow, DeviceTypeOK, device, call
<1>0. <<>> \in Seq(Byte)
  BY EmptySeq
<1>1. ASSUME NEW count \in 0 .. MaxCount, NEW nb \in BOOLEAN, ReadCall(count, nb)
      PROVE  SmallInv'
  BY <1>1 DEF ReadCall, wspace
<1>2. ASSUME NEW bytes \in BytesUpTo(MaxCount), WriteCall(bytes)
      PROVE  SmallInv'
  <2>1. bytes \in Seq(Byte)
    <3>1. PICK l \in 0 .. MaxCount : bytes \in [1 .. l -> Byte]
      BY DEF BytesUpTo
    <3> QED
      BY <3>1, SMT
  <2> QED
    BY <1>2, <2>1 DEF WriteCall, wspace
<1>3. CASE ReadStore
  <2>1. Head(rfifo) \in Byte /\ Tail(rfifo) \in Seq(Byte)
        /\ Len(Tail(rfifo)) <= Depth
    <3>1. Head(rfifo) \in Byte /\ Tail(rfifo) \in Seq(Byte)
          /\ Len(Tail(rfifo)) = Len(rfifo) - 1 /\ Len(rfifo) \in Nat
      BY <1>3, HeadAndTail DEF ReadStore
    <3> QED
      BY <3>1, SMT
  <2>2. rfifo' = Tail(rfifo) /\ UNCHANGED <<wfifo, ien, woverflow>>
        /\ pause_irq' = FALSE /\ ac' = ac
    BY <1>3, <2>1, ConcatEmptySeq DEF ReadStore, ReadData, AfterRead
  <2>3. DeviceTypeOK'
    BY <2>1, <2>2, Zenon
  <2>4. Append(got, Head(rfifo)) \in Seq(Byte)
    BY <2>1, AppendProperties
  <2> QED
    BY <1>3, <2>2, <2>3, <2>4 DEF ReadStore, wspace
<1>4. CASE ReadNothing
  <2>1. rfifo' = <<>> /\ rfifo = <<>> /\ UNCHANGED <<wfifo, ien, woverflow>>
        /\ pause_irq' = FALSE /\ ac' = ac
    BY <1>4, <1>0, ConcatEmptySeq DEF ReadNothing, ReadData, AfterRead
  <2>2. DeviceTypeOK'
    BY <2>1
  <2> QED
    BY <1>4, <2>1, <2>2 DEF ReadNothing, wspace
<1>5. CASE WritePoll
  <2>1. wspace > 0
    BY <1>5 DEF WritePoll, wspace
  <2> QED
    BY <1>5, <2>1 DEF WritePoll, wspace
<1>6. CASE WritePut
  <2>1. /\ Head(src) \in Byte /\ Tail(src) \in Seq(Byte)
        /\ (Tail(src) = <<>>) <=> (Len(src) = 1)
        /\ Len(src) \in Nat \ {0}
    BY <1>6, HeadAndTail DEF WritePut
  <2>2. Len(wfifo) < Depth
    BY <1>6 DEF WritePut, wspace
  <2>3. wfifo' = Append(wfifo, Head(src)) /\ woverflow' = FALSE
        /\ UNCHANGED <<rfifo, ien, pause_irq, ac>>
    BY <1>6, <2>2 DEF WritePut, WriteData
  <2>4. wfifo' \in Seq(Byte) /\ Len(wfifo') <= Depth
    <3>1. /\ Append(wfifo, Head(src)) \in Seq(Byte)
          /\ Len(Append(wfifo, Head(src))) = Len(wfifo) + 1
      BY <2>1, AppendProperties
    <3>2. Len(wfifo) + 1 <= Depth
      BY <2>2, SMT
    <3> QED
      BY <2>3, <3>1, <3>2
  <2>5. DeviceTypeOK'
    BY <2>3, <2>4
  <2> QED
    BY <1>6, <2>1, <2>3, <2>5 DEF WritePut
<1>7. CASE Return
  <2>1. Result(Len(got), nonblock) \in Int
    BY DEF Result, EIO, EWOULDBLOCK
  <2>2. ret' \in Int
    BY <1>7, <2>1 DEF Return
  <2>3. DeviceTypeOK' /\ woverflow' = woverflow
    BY <1>7 DEF Return
  <2>4. pc' = "idle" /\ op' = op /\ nonblock' = FALSE /\ space' = 0 /\ got' = <<>>
        /\ src' = <<>> /\ sent' = 0
    BY <1>7 DEF Return
  <2>5. SmallTypeOK'
    BY <1>0, <2>2, <2>3, <2>4
  <2> QED
    BY <2>3, <2>4, <2>5
<1>8. CASE HostStep
  <2>1. DeviceTypeOK' /\ woverflow' = woverflow
    <3>1. ASSUME NEW b \in HostByte, t_ena(b)
          PROVE  DeviceTypeOK' /\ woverflow' = woverflow
      BY <3>1, SMT DEF t_ena
    <3>2. CASE t_pause
      BY <3>2 DEF t_pause
    <3>3. CASE r_ena
      BY <3>3, SMT DEF r_ena
    <3> QED
      BY <1>8, <3>1, <3>2, <3>3 DEF HostStep, Host
  <2>2. Len(wfifo') <= Len(wfifo) /\ Len(wfifo') \in Nat
    <3>1. CASE wfifo' = wfifo
      BY <3>1
    <3>2. CASE r_ena
      BY <3>2, HeadAndTail DEF r_ena
    <3> QED
      BY <1>8, <3>1, <3>2 DEF HostStep, Host, t_ena, t_pause
  <2> QED
    BY <1>8, <2>1, <2>2 DEF HostStep, wspace
<1>9. CASE UNCHANGED smallvars
  BY <1>9 DEF smallvars, wspace
<1> QED
  BY <1>1, <1>2, <1>3, <1>4, <1>5, <1>6, <1>7, <1>8, <1>9
     DEF SmallNext, StartCall, DriverStep

(* The invariant holds in every reachable state. *)
THEOREM SmallInvariance == SmallSpec => []SmallInv
  BY InitSmallInv, NextSmallInv, PTL DEF SmallSpec

(* The two FIFOs under the host: what WriteChannel and ReadChannel see of  *)
(* one of its steps.                                                       *)
LEMMA HostSends ==
  ASSUME SmallInv, HostStep
  PROVE  /\ UNCHANGED <<src, sent, got, op, ret>>
         /\ \/ rfifo' = rfifo
            \/ Len(rfifo) < Depth /\ \E b \in Byte : rfifo' = Append(rfifo, b)
         /\ \/ wfifo' = wfifo
            \/ wfifo # <<>> /\ wfifo' = Tail(wfifo)
  BY DeviceAssumption DEF HostStep, Host, t_ena, t_pause, r_ena, call

(* The writes of the polled driver implement WriteChannel: everything a    *)
(* write is given reaches the host once and in order, and its result says  *)
(* how much that was (write.c:70-74).                                      *)
THEOREM SmallWritesInOrder == SmallSpec => WriteInOrder
<1>1. SmallInit => Writes!Init
  BY DEF SmallInit, DeviceInit, Writes!Init
<1>2. SmallInv /\ [SmallNext]_smallvars => [Writes!Next]_Writes!vars
  <2> SUFFICES ASSUME SmallInv, [SmallNext]_smallvars PROVE [Writes!Next]_Writes!vars
    OBVIOUS
  <2> USE DEF device, call, Writes!vars
  <2>1. ASSUME NEW count \in 0 .. MaxCount, NEW nb \in BOOLEAN, ReadCall(count, nb)
        PROVE  Writes!Offer
    <3>1. src = <<>> /\ sent = 0 /\ <<>> \in Seq(Byte)
      BY <2>1, EmptySeq DEF ReadCall, SmallInv
    <3> QED
      BY <2>1, <3>1 DEF ReadCall, Writes!Offer
  <2>2. ASSUME NEW bytes \in BytesUpTo(MaxCount), WriteCall(bytes)
        PROVE  Writes!Offer
    <3>1. PICK l \in 0 .. MaxCount : bytes \in [1 .. l -> Byte]
      BY DEF BytesUpTo
    <3>2. bytes \in Seq(Byte)
      BY <3>1, SmallAssumption, SMT
    <3>3. src = <<>> /\ sent = 0
      BY <2>2 DEF WriteCall, SmallInv
    <3> QED
      BY <2>2, <3>2, <3>3 DEF WriteCall, Writes!Offer
  <2>3. CASE ReadStore \/ ReadNothing
    BY <2>3 DEF ReadStore, ReadNothing, ReadData
  <2>4. CASE WritePoll
    BY <2>4 DEF WritePoll
  <2>5. CASE WritePut
    <3>1. src \in Seq(Byte) /\ src # <<>> /\ wfifo \in Seq(Byte) /\ Len(wfifo) < Depth
      BY <2>5, DeviceAssumption
         DEF WritePut, SmallInv, SmallTypeOK, DeviceTypeOK, wspace
    <3>2. wfifo' = Append(wfifo, Head(src)) /\ src' = Tail(src) /\ sent' = sent + 1
          /\ UNCHANGED <<op, ret>>
      BY <2>5, <3>1 DEF WritePut, WriteData
    <3>3. Append(wfifo, Head(src)) = wfifo \o SubSeq(src, 1, 1)
      BY <3>1, HeadAndTail, AppendIsConcat
    <3>4. Tail(src) = SubSeq(src, 1 + 1, Len(src)) /\ 1 \in 1 .. Len(src)
      <4>1. Tail(src) = SubSeq(src, 2, Len(src)) /\ Len(src) \in Nat \ {0}
        BY <3>1, HeadAndTail
      <4> QED
        BY <4>1
    <3>5. Len(wfifo) + 1 <= Depth
      BY <3>1, DeviceAssumption
    <3>6. Writes!Accept(1)
      BY <3>2, <3>3, <3>4, <3>5 DEF Writes!Accept
    <3> QED
      BY <3>4, <3>6 DEF Writes!Next
  <2>6. CASE Return
    <3>1. CASE op = "write"
      <4>1. Writes!Finish
        BY <2>6, <3>1 DEF Return, Writes!Finish, SmallInv, SmallTypeOK
      <4> QED
        BY <4>1 DEF Writes!Next
    <3>2. CASE op # "write"
      BY <2>6, <3>2 DEF Return, SmallInv
    <3> QED
      BY <3>1, <3>2
  <2>7. CASE HostStep
    BY <2>7, HostSends DEF Writes!Next, Writes!Deliver
  <2>8. CASE UNCHANGED smallvars
    BY <2>8 DEF smallvars
  <2> QED
    BY <2>1, <2>2, <2>3, <2>4, <2>5, <2>6, <2>7, <2>8
       DEF SmallNext, StartCall, DriverStep, Writes!Next
<1> QED
  BY <1>1, <1>2, SmallInvariance, PTL DEF SmallSpec, WriteInOrder, Writes!Spec

(* The reads of the polled driver implement ReadChannel: what the host     *)
(* sends is stored once and in order, and the result of a read says how    *)
(* much it stored (read.c:71-91).                                          *)
THEOREM SmallReadsInOrder == SmallSpec => ReadInOrder
<1>1. SmallInit => Reads!Init
  BY DEF SmallInit, DeviceInit, Reads!Init
<1>2. SmallInv /\ [SmallNext]_smallvars => [Reads!Next]_Reads!vars
  <2> SUFFICES ASSUME SmallInv, [SmallNext]_smallvars PROVE [Reads!Next]_Reads!vars
    OBVIOUS
  <2> USE DEF device, call, Reads!vars
  <2>1. ASSUME NEW count \in 0 .. MaxCount, NEW nb \in BOOLEAN, ReadCall(count, nb)
        PROVE  Reads!Start
    BY <2>1 DEF ReadCall, Reads!Start, SmallInv
  <2>2. ASSUME NEW bytes \in BytesUpTo(MaxCount), WriteCall(bytes)
        PROVE  Reads!Start
    BY <2>2 DEF WriteCall, Reads!Start, SmallInv
  <2>3. CASE ReadStore
    <3>1. rfifo \in Seq(Byte) /\ rfifo # <<>> /\ got \in Seq(Byte)
      BY <2>3 DEF ReadStore, SmallInv, SmallTypeOK, DeviceTypeOK
    <3>2. Head(rfifo) \in Byte /\ Tail(rfifo) \in Seq(Byte)
      BY <3>1, HeadAndTail
    <3>3. rfifo' = Tail(rfifo)
      BY <2>3, <3>2, ConcatEmptySeq DEF ReadStore, ReadData, AfterRead
    <3>4. got' = Append(got, Head(rfifo)) /\ UNCHANGED <<op, ret>>
      BY <2>3 DEF ReadStore
    <3>5. Append(got, Head(rfifo)) = got \o SubSeq(rfifo, 1, 1)
      BY <3>1, HeadAndTail, AppendIsConcat
    <3>6. Tail(rfifo) = SubSeq(rfifo, 1 + 1, Len(rfifo)) /\ 1 \in 1 .. Len(rfifo)
      <4>1. Tail(rfifo) = SubSeq(rfifo, 2, Len(rfifo)) /\ Len(rfifo) \in Nat \ {0}
        BY <3>1, HeadAndTail
      <4> QED
        BY <4>1
    <3>7. Reads!Store(1)
      BY <3>3, <3>4, <3>5, <3>6 DEF Reads!Store
    <3> QED
      BY <3>6, <3>7 DEF Reads!Next
  <2>4. CASE ReadNothing
    <3>1. rfifo' = rfifo
      BY <2>4, EmptySeq, ConcatEmptySeq DEF ReadNothing, ReadData, AfterRead
    <3> QED
      BY <2>4, <3>1 DEF ReadNothing
  <2>5. CASE WritePoll \/ WritePut
    BY <2>5 DEF WritePoll, WritePut, WriteData, SmallInv, SmallTypeOK
  <2>6. CASE Return
    <3>1. CASE op = "read"
      <4>1. Result(Len(got), nonblock)
              \in (IF got # <<>> THEN {Len(got)} ELSE {-EIO, -EWOULDBLOCK})
        <5>1. CASE got = <<>>
          BY <5>1 DEF Result
        <5>2. CASE got # <<>>
          <6>1. Len(got) \in Nat \ {0}
            BY <5>2, EmptySeq DEF SmallInv, SmallTypeOK
          <6> QED
            BY <5>2, <6>1 DEF Result
        <5> QED
          BY <5>1, <5>2
      <4>2. Reads!Finish
        BY <2>6, <3>1, <4>1 DEF Return, Reads!Finish
      <4> QED
        BY <4>2 DEF Reads!Next
    <3>2. CASE op # "read"
      BY <2>6, <3>2 DEF Return, SmallInv
    <3> QED
      BY <3>1, <3>2
  <2>7. CASE HostStep
    BY <2>7, HostSends DEF Reads!Next, Reads!Send
  <2>8. CASE UNCHANGED smallvars
    BY <2>8 DEF smallvars
  <2> QED
    BY <2>1, <2>2, <2>3, <2>4, <2>5, <2>6, <2>7, <2>8
       DEF SmallNext, StartCall, DriverStep, Reads!Next
<1> QED
  BY <1>1, <1>2, SmallInvariance, PTL DEF SmallSpec, ReadInOrder, Reads!Spec

(* The polled write never puts a character into a full FIFO (write.c:71-72). *)
THEOREM SmallNeverOverflows == SmallSpec => []NoOverflow
<1>1. SmallInv => NoOverflow
  BY DEF SmallInv
<1> QED
  BY <1>1, SmallInvariance, PTL

=============================================================================
