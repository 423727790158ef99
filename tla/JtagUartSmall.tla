---------------------------- MODULE JtagUartSmall ----------------------------
(***************************************************************************)
(* The polled ("small") driver of the JTAG UART, the one this BSP links    *)
(* (ALT_USE_SMALL_DRIVERS), on top of the device of JtagUartDevice.  It    *)
(* keeps no state between calls, enables no interrupt and never gives up   *)
(* on a silent host.  Two actors: the program, inside one call at a time,  *)
(* one step per register access; and the JTAG host.                        *)
(*                                                                         *)
(* Of a read of the data register this driver uses RVALID only, so a byte  *)
(* that arrives on the clock of the pop may as well arrive after it:       *)
(* ReadData(<<>>).                                                         *)
(***************************************************************************)
EXTENDS JtagUartDevice

CONSTANT MaxCount   \* longest read or write the program asks for

ASSUME SmallAssumption == MaxCount \in Nat

EIO == 5
EWOULDBLOCK == 11

VARIABLES
  pc,        \* "idle", "r_poll", "w_poll", "w_put" or "return"
  op,        \* the call in progress, or the last one
  nonblock,  \* O_NONBLOCK in the flags of a read
  space,     \* characters the read has still room for
  got,       \* characters it has stored
  src,       \* characters the write has still to send
  sent,      \* how many it has sent
  ret        \* result of the last call

call == <<pc, op, nonblock, space, got, src, sent, ret>>
smallvars == <<device, call>>

SmallInit ==
  /\ DeviceInit
  /\ pc = "idle" /\ op = "none" /\ nonblock = FALSE
  /\ space = 0 /\ got = <<>> /\ src = <<>> /\ sent = 0 /\ ret = 0

Result(m, nb) == IF m > 0 THEN m ELSE IF nb THEN -EWOULDBLOCK ELSE -EIO

-----------------------------------------------------------------------------
(* altera_avalon_jtag_uart_read *)

ReadCall(count, nb) ==
  /\ pc = "idle"
  /\ pc' = IF count > 0 THEN "r_poll" ELSE "return"
  /\ op' = "read" /\ nonblock' = nb /\ space' = count /\ ret' = 0
  /\ UNCHANGED <<device, got, src, sent>>

(* Each read of the data register pops a character or finds none.          *)
ReadStore ==
  /\ pc = "r_poll"
  /\ rfifo # <<>>
  /\ ReadData(<<>>)
  /\ got' = Append(got, Head(rfifo))
  /\ space' = space - 1
  /\ pc' = IF space' = 0 THEN "return" ELSE "r_poll"
  /\ UNCHANGED <<op, nonblock, src, sent, ret>>

(* Mutant: RVALID is not looked at. *)
ReadNothingStoresIt ==
  /\ pc = "r_poll"
  /\ rfifo = <<>>
  /\ ReadData(<<>>)
  /\ got' = Append(got, CHOOSE b \in Byte : TRUE)
  /\ pc' = "return"
  /\ UNCHANGED <<op, nonblock, space, src, sent, ret>>

(* Mutant: waits until the whole of the buffer is filled. *)
ReadNothingWaits ==
  /\ pc = "r_poll"
  /\ rfifo = <<>>
  /\ ReadData(<<>>)
  /\ pc' = IF nonblock THEN "return" ELSE "r_poll"
  /\ UNCHANGED <<op, nonblock, space, got, src, sent, ret>>

ReadNothing ==
  /\ pc = "r_poll"
  /\ rfifo = <<>>
  /\ ReadData(<<>>)
  /\ pc' = IF got # <<>> \/ nonblock THEN "return" ELSE "r_poll"
  /\ UNCHANGED <<op, nonblock, space, got, src, sent, ret>>

-----------------------------------------------------------------------------
(* altera_avalon_jtag_uart_write, which does not look at its flags *)

WriteCall(bytes) ==
  /\ pc = "idle"
  /\ pc' = IF bytes # <<>> THEN "w_poll" ELSE "return"
  /\ op' = "write" /\ src' = bytes /\ ret' = 0
  /\ UNCHANGED <<device, nonblock, space, got, sent>>

(* Mutant: does not look for space. *)
WritePollBlind ==
  /\ pc = "w_poll"
  /\ pc' = "w_put"
  /\ UNCHANGED <<device, op, nonblock, space, got, src, sent, ret>>

(* Mutant: a mask one bit too narrow, under which an empty FIFO shows 0. *)
WritePollNarrow ==
  /\ pc = "w_poll"
  /\ wspace % Depth # 0
  /\ pc' = "w_put"
  /\ UNCHANGED <<device, op, nonblock, space, got, src, sent, ret>>

(* The loop on the control register is left when it shows space.  A poll   *)
(* that finds none changes nothing.                                        *)
WritePoll ==
  /\ pc = "w_poll"
  /\ wspace # 0
  /\ pc' = "w_put"
  /\ UNCHANGED <<device, op, nonblock, space, got, src, sent, ret>>

WritePut ==
  /\ pc = "w_put"
  /\ WriteData(Head(src))
  /\ src' = Tail(src)
  /\ sent' = sent + 1
  /\ pc' = IF Len(src) > 1 THEN "w_poll" ELSE "return"
  /\ UNCHANGED <<op, nonblock, space, got, ret>>

-----------------------------------------------------------------------------

(* Both calls end here; a write has sent all it was given. *)
Return ==
  /\ pc = "return"
  /\ pc' = "idle"
  /\ ret' = IF op = "read" THEN Result(Len(got), nonblock) ELSE sent
  /\ nonblock' = FALSE /\ space' = 0 /\ got' = <<>> /\ src' = <<>> /\ sent' = 0
  /\ UNCHANGED <<device, op>>

BytesUpTo(m) == UNION {[1 .. l -> Byte] : l \in 0 .. m}

StartCall ==
  \/ \E count \in 0 .. MaxCount, nb \in BOOLEAN : ReadCall(count, nb)
  \/ \E bytes \in BytesUpTo(MaxCount) : WriteCall(bytes)

DriverStep == ReadStore \/ ReadNothing \/ WritePoll \/ WritePut \/ Return

HostStep == Host /\ UNCHANGED call

SmallNext == StartCall \/ DriverStep \/ HostStep

(* The program runs; a host that is there takes what it is sent. *)
SmallSpec ==
  /\ SmallInit
  /\ [][SmallNext]_smallvars
  /\ WF_smallvars(DriverStep)
  /\ WF_smallvars(r_ena /\ UNCHANGED call)

-----------------------------------------------------------------------------

(* Type correctness, and what the program knows at each place: it is owed  *)
(* characters while it polls for them, and has space while it puts one.    *)
SmallTypeOK ==
  /\ DeviceTypeOK
  /\ pc \in {"idle", "r_poll", "w_poll", "w_put", "return"}
  /\ op \in {"none", "read", "write"}
  /\ pc \in {"w_poll", "w_put"} => op = "write" /\ src # <<>>
  /\ pc = "r_poll" => op = "read" /\ space > 0
  /\ pc = "w_put" => wspace > 0
  /\ nonblock \in BOOLEAN
  /\ space \in Nat /\ sent \in Nat /\ ret \in Int
  /\ got \in Seq(Byte) /\ src \in Seq(Byte)

(* No character is written into a full FIFO and dropped by the device,     *)
(* although the space is read in one access and used in the next           *)
(* (write.c:70-72).                                                        *)
NoOverflow == ~woverflow

(* The writes implement WriteChannel: all of each write reaches the host,  *)
(* in order, and the result counts it (write.c:70-74).                     *)
Writes == INSTANCE WriteChannel WITH
  Capacity <- Depth,
  Refusals <- {0},
  offered  <- src,
  taken    <- sent,
  chan     <- wfifo,
  result   <- IF op = "write" THEN ret ELSE 0
WriteInOrder == Writes!Spec

(* The reads implement ReadChannel: what the host sends is stored in order *)
(* and once, and the result counts it (read.c:71-91).                      *)
Reads == INSTANCE ReadChannel WITH
  Capacity <- Depth,
  Refusals <- {-EIO, -EWOULDBLOCK},
  chan     <- rfifo,
  stored   <- got,
  result   <- IF op = "read" THEN ret ELSE 0
ReadInOrder == Reads!Spec

(* A read waits for its first character only, and with O_NONBLOCK not even *)
(* for that, however fast or slowly the host sends (read.c:77-80).         *)
ReadsDoNotLinger == (pc = "r_poll" /\ (nonblock \/ got # <<>>)) ~> pc = "idle"

(* Every write returns as long as the host takes what it is sent.          *)
WritesReturn == pc = "w_poll" ~> pc = "idle"

=============================================================================
