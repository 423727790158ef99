---------------------------- MODULE LibraryProofs ----------------------------
(***************************************************************************)
(* The parts of the library keep their promises for every value of their   *)
(* constants.  Each part has an inductive invariant of its own; as the     *)
(* part that runs never changes, it is one of the whole library too.       *)
(***************************************************************************)
EXTENDS MCLibrary, HeapProofs

-----------------------------------------------------------------------------
(* Exceptions.  *)

(* Instructions before this one are through, the others are to come.       *)
Mark == IF stage = "exit" THEN saved ELSE pc

ExceptionTypeOK ==
  /\ program \in Seq(Instruction)
  /\ done \in [DOMAIN program -> Nat]
  /\ skipped \subseteq DOMAIN program
  /\ pc \in Nat
  /\ stage \in {"none", "irqtest", "irq", "muldiv", "trap", "unknown", "exit", "hang"}

(* What the entry code has learnt at each stage: the instruction has not   *)
(* been issued, the handlers it has passed do not handle it, and it comes  *)
(* again just when nothing has been done for it.                           *)
StageInv ==
  /\ stage # "none" => pc \in DOMAIN program
  /\ stage \notin {"none", "exit"} => ea = pc + 1
  /\ stage \in {"irqtest", "irq"} => saved = pc
  /\ stage \in {"muldiv", "trap", "unknown", "hang"} => saved = pc + 1
  /\ stage = "exit" => saved \in {pc, pc + 1}
  /\ stage \in {"trap", "unknown", "hang"} => ~(Kind = "mul" /\ "muldiv" \in linked)
  /\ stage \in {"unknown", "hang"} => ~(Kind = "trap" /\ "trap" \in linked)
  /\ stage = "hang" => ~alt_instruction_exception_handler

MarkInv ==
  \A i \in DOMAIN program :
    IF i < Mark THEN done[i] = 1 <=> i \notin skipped
    ELSE done[i] = 0 /\ i \notin skipped

(* The outermost critical section has found interrupts enabled, the others *)
(* masked; an exception leaves and restores what the program had.          *)
MaskInv ==
  /\ contexts \in Seq(BOOLEAN)
  /\ \A i \in 1 .. Len(contexts) : contexts[i] <=> i = 1
  /\ PIE \in BOOLEAN /\ savedStatus \in BOOLEAN
  /\ stage = "none" => (PIE <=> contexts = <<>>)
  /\ stage # "none" => (savedStatus <=> contexts = <<>>)
  /\ stage = "irqtest" => estatus = savedStatus
  /\ stage = "irq" => contexts = <<>>

LEMMA InitMaskInv == ExceptionInit => MaskInv
BY DEF ExceptionInit, MaskInv

LEMMA NextMaskInv == MaskInv /\ [ExceptionNext]_exceptionvars => MaskInv'
<1> SUFFICES ASSUME MaskInv, [ExceptionNext]_exceptionvars PROVE MaskInv'
  OBVIOUS
<1> DEFINE n == Len(contexts)
<1>0. /\ n \in Nat /\ contexts \in Seq(BOOLEAN) /\ (contexts = <<>> <=> n = 0)
      /\ \A i \in 1 .. n : contexts[i] <=> i = 1
  BY DEF MaskInv
<1>1. CASE /\ UNCHANGED maskvars
           /\ stage' = stage \/ (stage # "none" /\ stage' \notin {"none", "irqtest", "irq"})
  BY <1>1 DEF MaskInv, maskvars
<1>2. CASE alt_irq_disable_all
  <2>1. /\ stage = "none" /\ stage' = "none" /\ PIE' = FALSE
        /\ contexts' = Append(contexts, PIE) /\ savedStatus' = savedStatus
        /\ PIE \in BOOLEAN /\ savedStatus \in BOOLEAN /\ (PIE <=> contexts = <<>>)
    BY <1>2 DEF alt_irq_disable_all, MaskInv
  <2>2. /\ contexts' \in Seq(BOOLEAN) /\ contexts' # <<>> /\ Len(contexts') = n + 1
        /\ \A i \in 1 .. n : contexts'[i] = contexts[i]
        /\ contexts'[n + 1] = PIE
    BY <1>0, <2>1, AppendProperties
  <2>3. ASSUME NEW i \in 1 .. Len(contexts') PROVE contexts'[i] <=> i = 1
    <3>1. CASE i \in 1 .. n
      BY <1>0, <2>2, <3>1
    <3>2. CASE i = n + 1
      <4>1. contexts'[i] <=> n = 0
        BY <1>0, <2>1, <2>2, <3>2
      <4> QED BY <1>0, <3>2, <4>1
    <3> QED BY <1>0, <2>2, <3>1, <3>2
  <2> QED BY <2>1, <2>2, <2>3 DEF MaskInv
<1>3. CASE alt_irq_enable_all
  <2>1. /\ stage = "none" /\ stage' = "none" /\ contexts # <<>>
        /\ PIE' = contexts[n] /\ contexts' = SubSeq(contexts, 1, n - 1)
        /\ savedStatus' = savedStatus /\ savedStatus \in BOOLEAN
    BY <1>3 DEF alt_irq_enable_all, MaskInv
  <2>2. /\ contexts' \in Seq(BOOLEAN) /\ Len(contexts') = n - 1 /\ n \in 1 .. n
        /\ \A i \in 1 .. n - 1 : contexts'[i] = contexts[i]
        /\ contexts' = <<>> <=> n = 1
    <3>1. n \in Nat \ {0} /\ \A i \in 1 .. n - 1 : contexts[i] \in BOOLEAN
      BY <1>0, <2>1
    <3>2. /\ contexts' \in Seq(BOOLEAN) /\ Len(contexts') = n - 1
          /\ \A i \in 1 .. n - 1 : contexts'[i] = contexts[i]
      <4> DEFINE c == contexts
                 k == n - 1
      <4>1. k \in Nat /\ \A i \in 1 .. k : c[i] \in BOOLEAN
        BY <3>1
      <4> HIDE DEF c, k
      <4>2. /\ SubSeq(c, 1, k) \in Seq(BOOLEAN)
            /\ Len(SubSeq(c, 1, k)) = IF 1 <= k THEN k - 1 + 1 ELSE 0
            /\ \A i \in 1 .. k - 1 + 1 : SubSeq(c, 1, k)[i] = c[1 + i - 1]
        BY <4>1, SubSeqProperties
      <4>3. Len(SubSeq(c, 1, k)) = k /\ \A i \in 1 .. k : SubSeq(c, 1, k)[i] = c[i]
        BY <4>1, <4>2
      <4> QED BY <2>1, <4>2, <4>3 DEF c, k
    <3>3. contexts' = <<>> <=> Len(contexts') = 0
      BY <3>2, EmptySeq
    <3> QED BY <3>1, <3>2, <3>3
  <2>3. PIE' \in BOOLEAN /\ (PIE' <=> n = 1)
    BY <1>0, <2>1, <2>2
  <2>4. \A i \in 1 .. Len(contexts') : contexts'[i] <=> i = 1
    BY <1>0, <2>2
  <2> QED BY <2>1, <2>2, <2>3, <2>4 DEF MaskInv
<1>4. CASE alt_exception
  BY <1>4 DEF alt_exception, MaskInv
<1>5. CASE IrqTest
  BY <1>5 DEF IrqTest, MaskInv, maskvars
<1>6. CASE alt_irq_handler
  BY <1>6 DEF alt_irq_handler, MaskInv
<1>7. CASE ExceptionExit
  BY <1>7 DEF ExceptionExit, MaskInv
<1>8. CASE Arrive \/ Withdraw \/ Execute \/ UNCHANGED exceptionvars
  <2>1. UNCHANGED <<maskvars, stage>>
    BY <1>8 DEF Arrive, Withdraw, Execute, exceptionvars
  <2> QED BY <1>1, <2>1
<1>9. CASE NotIrq \/ Emulate \/ Trap \/ alt_instruction_exception_entry
  <2>1. /\ UNCHANGED maskvars /\ stage # "none"
        /\ stage' \notin {"none", "irqtest", "irq"}
    BY <1>9 DEF NotIrq, Emulate, Trap, alt_instruction_exception_entry
  <2> QED BY <1>1, <2>1
<1>10. ASSUME NEW registered \in BOOLEAN, alt_instruction_exception_register(registered)
       PROVE  MaskInv'
  <2>1. UNCHANGED <<maskvars, stage>>
    BY <1>10 DEF alt_instruction_exception_register
  <2> QED BY <1>1, <2>1
<1> QED BY <1>2, <1>3, <1>4, <1>5, <1>6, <1>7, <1>8, <1>9, <1>10 DEF ExceptionNext

EInv == ExceptionTypeOK /\ StageInv /\ MarkInv

LEMMA InitEInv == ExceptionInit => EInv
<1> SUFFICES ASSUME ExceptionInit PROVE EInv
  OBVIOUS
<1>1. program \in Seq(Instruction)
  BY ExceptionAssumption DEF ExceptionInit
<1>2. DOMAIN program = 1 .. Len(program) /\ Len(program) \in Nat
  BY <1>1
<1>3. ExceptionTypeOK /\ StageInv
  BY <1>1 DEF ExceptionInit, ExceptionTypeOK, StageInv
<1>4. MarkInv
  BY <1>2 DEF ExceptionInit, MarkInv, Mark
<1> QED BY <1>3, <1>4 DEF EInv

LEMMA NextEInv == EInv /\ [ExceptionNext]_exceptionvars => EInv'
<1> SUFFICES ASSUME EInv, [ExceptionNext]_exceptionvars PROVE EInv'
  OBVIOUS
<1>0. /\ DOMAIN program = 1 .. Len(program) /\ Len(program) \in Nat
      /\ ExceptionTypeOK /\ StageInv /\ MarkInv
  BY DEF EInv, ExceptionTypeOK
<1> USE DEF EInv, ExceptionTypeOK, StageInv, MarkInv, Mark, Kind
<1>1. CASE Arrive \/ Withdraw \/ UNCHANGED exceptionvars
  BY <1>0, <1>1 DEF Arrive, Withdraw, exceptionvars
<1>2. CASE Execute
  <2>1. pc \in DOMAIN program /\ stage = "none" /\ done[pc] = 0
    BY <1>0, <1>2 DEF Execute
  <2>2. done' = [done EXCEPT ![pc] = 1] /\ pc' = pc + 1
    BY <1>2, <2>1 DEF Execute
  <2> QED BY <1>0, <1>2, <2>1, <2>2 DEF Execute
<1>3. CASE alt_exception
  BY <1>0, <1>3 DEF alt_exception
<1>4. CASE IrqTest \/ alt_irq_handler \/ alt_irq_disable_all \/ alt_irq_enable_all
  BY <1>0, <1>4 DEF IrqTest, alt_irq_handler, alt_irq_disable_all, alt_irq_enable_all
<1>5. CASE NotIrq
  BY <1>0, <1>5 DEF NotIrq
<1>6. CASE Emulate
  BY <1>0, <1>6 DEF Emulate
<1>7. CASE Trap
  BY <1>0, <1>7, SMTT(30) DEF Trap
<1>8. CASE alt_instruction_exception_entry
  <2>1. /\ stage = "unknown" /\ pc \in DOMAIN program /\ ea = pc + 1 /\ ea - 1 = pc
        /\ saved = pc + 1 /\ done[pc] = 0
        /\ UNCHANGED <<linked, pc, done, alt_instruction_exception_handler, ea>>
    BY <1>0, <1>8 DEF alt_instruction_exception_entry
  <2>2. CASE UNCHANGED program
    BY <1>0, <1>8, <2>1, <2>2 DEF alt_instruction_exception_entry
  <2>3. CASE program' = [program EXCEPT ![pc] = "plain"] /\ saved' = pc /\ stage' = "exit"
             /\ skipped' = skipped
    <3>1. program' \in Seq(Instruction) /\ DOMAIN program' = DOMAIN program
      BY <1>0, <2>1, <2>3 DEF Instruction
    <3> QED BY <1>0, <2>1, <2>3, <3>1
  <2> QED BY <1>8, <2>1, <2>2, <2>3 DEF alt_instruction_exception_entry
<1>9. CASE ExceptionExit
  BY <1>0, <1>9 DEF ExceptionExit
<1>10. ASSUME NEW registered \in BOOLEAN, alt_instruction_exception_register(registered)
       PROVE  EInv'
  BY <1>0, <1>10 DEF alt_instruction_exception_register
<1> QED BY <1>1, <1>2, <1>3, <1>4, <1>5, <1>6, <1>7, <1>8, <1>9, <1>10 DEF ExceptionNext

(* However interrupts arrive and are withdrawn between the entry to the    *)
(* vector and the test for them, masked in the program's critical sections *)
(* or not, every instruction of every program is executed or emulated once *)
(* or skipped by the registered handler, no critical section is            *)
(* interrupted, and the processor hangs only where nothing handles it      *)
(* (alt_exception_entry.S, alt_irq_entry.S:79-82,                          *)
(* alt_instruction_exception_entry.c:67-160).                              *)
THEOREM InstructionsExecutedOnce == LibrarySpec => []ExceptionsKept
<1> DEFINE Inv == part = "exceptions" => EInv /\ MaskInv
<1>1. LibraryInit => Inv
  BY InitEInv, InitMaskInv DEF LibraryInit
<1>2. Inv /\ [LibraryNext]_vars => Inv'
  <2> SUFFICES ASSUME Inv, [LibraryNext]_vars, part' = "exceptions" PROVE EInv' /\ MaskInv'
    OBVIOUS
  <2>1. part = "exceptions" /\ [ExceptionNext]_exceptionvars
    BY DEF LibraryNext, vars
  <2> QED BY <2>1, NextEInv, NextMaskInv
<1>3. Inv => ExceptionsKept
  <2> SUFFICES ASSUME EInv, MaskInv PROVE ExecutedOnce /\ HangIsUnhandled /\ CriticalUninterrupted
    BY DEF ExceptionsKept
  <2>1. ExecutedOnce /\ HangIsUnhandled
    BY DEF EInv, ExceptionTypeOK, StageInv, MarkInv, Mark, ExecutedOnce, HangIsUnhandled
  <2>2. CriticalUninterrupted
    BY DEF MaskInv, CriticalUninterrupted
  <2> QED BY <2>1, <2>2
<1> QED BY <1>1, <1>2, <1>3, PTL DEF LibrarySpec

-----------------------------------------------------------------------------
(* The profiler. *)

(* For any number of functions, arcs and calls, wherever interrupts come:  *)
(* each arc's counters together account for every call that the program    *)
(* has made, and lose calls of interrupt handlers only between the load    *)
(* and the store of a counter; an arc has two records only where an        *)
(* interrupt has come during the walk; the sampler is tried until it has   *)
(* started, and starts twice, never more, only where an interrupt has come *)
(* between the test of pcsample_need_init and its clearing; and no block   *)
(* that sbrk() returns overlaps another (alt_mcount.S:69-123,              *)
(* alt_gmon.c:164-267, alt_sbrk.c:68-136).                                 *)
THEOREM ProfileIsRight == LibrarySpec => []ProfileKept
<1> DEFINE Inv == part = "profiler" => ProfilerInv
<1>1. LibraryInit => Inv
  BY InitProfilerInv DEF LibraryInit
<1>2. Inv /\ [LibraryNext]_vars => Inv'
  <2> SUFFICES ASSUME Inv, [LibraryNext]_vars, part' = "profiler" PROVE ProfilerInv'
    OBVIOUS
  <2>1. part = "profiler" /\ [ProfilerNext]_profilervars
    BY DEF LibraryNext, vars
  <2> QED BY <2>1, NextProfilerInv
<1>3. Inv => ProfileKept
  BY ProfilerInvHolds DEF ProfileKept
<1> QED BY <1>1, <1>2, <1>3, PTL DEF LibrarySpec

-----------------------------------------------------------------------------
(* Names of devices and file systems. *)

Letters == UNION {{n[i] : i \in 1 .. Len(n)} : n \in DevName \cup Path}
String == Seq(Letters)

(* What one more character makes of the components of a path.              *)
Taking(c, x) == IF x = Slash THEN Append(c, <<>>) ELSE [c EXCEPT ![Len(c)] = Append(@, x)]

LEMMA TakingIs ==
  ASSUME NEW c \in Seq(String), c # <<>>, NEW x \in Letters
  PROVE  /\ Taking(c, x) \in Seq(String) /\ Taking(c, x) # <<>>
         /\ Len(c) \in Nat \ {0} /\ c[Len(c)] \in String
         /\ x = Slash => /\ Len(Taking(c, x)) = Len(c) + 1
                         /\ \A i \in 1 .. Len(c) : Taking(c, x)[i] = c[i]
                         /\ Taking(c, x)[Len(c) + 1] = <<>>
         /\ x # Slash => /\ Len(Taking(c, x)) = Len(c)
                         /\ \A i \in 1 .. Len(c) - 1 : Taking(c, x)[i] = c[i]
                         /\ Taking(c, x)[Len(c)] = Append(c[Len(c)], x)
<1>1. Len(c) \in Nat \ {0}
  BY EmptySeq
<1>2. \A i \in 1 .. Len(c) : c[i] \in String
  BY ElementOfSeq
<1>3. c[Len(c)] \in String
  BY <1>1, <1>2
<1>4. <<>> \in String
  BY DEF String
<1>5. CASE x = Slash
  <2> DEFINE e == <<>>
  <2>1. Taking(c, x) = Append(c, e)
    BY <1>5 DEF Taking
  <2>2. e \in String
    BY <1>4
  <2> HIDE DEF e
  <2>3. /\ Append(c, e) \in Seq(String) /\ Append(c, e) # <<>>
        /\ Len(Append(c, e)) = Len(c) + 1
        /\ \A i \in 1 .. Len(c) : Append(c, e)[i] = c[i]
        /\ Append(c, e)[Len(c) + 1] = e
    BY <2>2, AppendProperties
  <2> QED BY <1>1, <1>3, <1>5, <2>1, <2>3 DEF e
<1>6. CASE x # Slash
  <2> DEFINE k == Len(c)
             e == Append(c[k], x)
  <2>1. Taking(c, x) = [c EXCEPT ![k] = e]
    BY <1>6 DEF Taking
  <2>2. e \in String
    BY <1>3, AppendProperties DEF String
  <2>3. k \in 1 .. Len(c)
    BY <1>1
  <2> HIDE DEF e
  <2>4. /\ [c EXCEPT ![k] = e] \in Seq(String)
        /\ Len([c EXCEPT ![k] = e]) = Len(c)
        /\ \A i \in 1 .. Len(c) : [c EXCEPT ![k] = e][i] = IF i = k THEN e ELSE c[i]
    BY <2>2, <2>3, ExceptSeq
  <2>5. [c EXCEPT ![k] = e] # <<>>
    BY <1>1, <2>4, EmptySeq
  <2>6. /\ Len(Taking(c, x)) = k /\ Taking(c, x)[k] = e
        /\ \A i \in 1 .. k - 1 : Taking(c, x)[i] = c[i]
    <3> DEFINE t == Taking(c, x)
    <3>1. Len(t) = k /\ \A i \in 1 .. k : t[i] = IF i = k THEN e ELSE c[i]
      BY <2>1, <2>4
    <3> HIDE DEF t, k
    <3>2. \A i \in 1 .. k - 1 : i \in 1 .. k /\ i # k
      BY <2>3
    <3>3. Len(t) = k /\ t[k] = e /\ \A i \in 1 .. k - 1 : t[i] = c[i]
      <4>1. k \in 1 .. k
        BY <1>1 DEF k
      <4> QED BY <3>1, <3>2, <4>1
    <3> QED BY <3>3 DEF t, k
  <2>7. Taking(c, x) \in Seq(String) /\ Taking(c, x) # <<>>
    BY <2>1, <2>4, <2>5
  <2> QED BY <1>1, <1>3, <1>6, <2>6, <2>7 DEF e
<1> QED BY <1>5, <1>6

(* Components and character can be told from the result.                   *)
LEMMA TakingTells ==
  ASSUME NEW c \in Seq(String), c # <<>>, NEW x \in Letters,
         NEW d \in Seq(String), d # <<>>, NEW y \in Letters,
         Taking(c, x) = Taking(d, y)
  PROVE  c = d /\ x = y
<1>1. /\ Len(c) \in Nat \ {0} /\ c[Len(c)] \in String
      /\ x = Slash => /\ Len(Taking(c, x)) = Len(c) + 1
                      /\ \A i \in 1 .. Len(c) : Taking(c, x)[i] = c[i]
                      /\ Taking(c, x)[Len(c) + 1] = <<>>
      /\ x # Slash => /\ Len(Taking(c, x)) = Len(c)
                      /\ \A i \in 1 .. Len(c) - 1 : Taking(c, x)[i] = c[i]
                      /\ Taking(c, x)[Len(c)] = Append(c[Len(c)], x)
  BY TakingIs
<1>2. /\ Len(d) \in Nat \ {0} /\ d[Len(d)] \in String
      /\ y = Slash => /\ Len(Taking(d, y)) = Len(d) + 1
                      /\ \A i \in 1 .. Len(d) : Taking(d, y)[i] = d[i]
                      /\ Taking(d, y)[Len(d) + 1] = <<>>
      /\ y # Slash => /\ Len(Taking(d, y)) = Len(d)
                      /\ \A i \in 1 .. Len(d) - 1 : Taking(d, y)[i] = d[i]
                      /\ Taking(d, y)[Len(d)] = Append(d[Len(d)], y)
  BY TakingIs
<1>3. \A z \in Letters : \A e \in String : Append(e, z) # <<>>
  BY AppendProperties DEF String
<1>4. CASE x = Slash /\ y = Slash
  <2>1. Len(c) = Len(d)
    BY <1>1, <1>2, <1>4
  <2>2. \A i \in 1 .. Len(c) : c[i] = d[i]
    BY <1>1, <1>2, <1>4, <2>1
  <2> QED BY <1>4, <2>1, <2>2, SeqEqual
<1>5. CASE x = Slash /\ y # Slash
  <2>1. Len(c) + 1 = Len(d)
    BY <1>1, <1>2, <1>5
  <2> QED BY <1>1, <1>2, <1>3, <1>5, <2>1
<1>6. CASE x # Slash /\ y = Slash
  <2>1. Len(d) + 1 = Len(c)
    BY <1>1, <1>2, <1>6
  <2> QED BY <1>1, <1>2, <1>3, <1>6, <2>1
<1>7. CASE x # Slash /\ y # Slash
  <2> DEFINE k == Len(c)
  <2>1. k = Len(d)
    BY <1>1, <1>2, <1>7
  <2>2. Append(c[k], x) = Append(d[k], y) /\ c[k] \in String /\ d[k] \in String
    BY <1>1, <1>2, <1>7, <2>1
  <2>3. c[k] = d[k] /\ x = y
    <3> DEFINE a == c[k]
               b == d[k]
    <3>1. Append(a, x) = Append(b, y) /\ a \in Seq(Letters) /\ b \in Seq(Letters)
      BY <2>2 DEF String
    <3> HIDE DEF a, b
    <3>2. a = b /\ x = y
      BY <3>1, AppendInjective
    <3> QED BY <3>2 DEF a, b
  <2>4. \A i \in 1 .. k - 1 : c[i] = d[i]
    BY <1>1, <1>2, <1>7, <2>1
  <2>5. \A i \in 1 .. k : c[i] = d[i]
    <3>1. \A i \in 1 .. k : i \in 1 .. k - 1 \/ i = k
      BY <1>1
    <3> QED BY <2>3, <2>4, <3>1
  <2> QED BY <2>1, <2>3, <2>5, SeqEqual
<1> QED BY <1>4, <1>5, <1>6, <1>7

(* The components of each beginning of a path.                             *)
Splits(s, p) ==
  /\ s \in [0 .. Len(p) -> Seq(String)]
  /\ s[0] = << <<>> >>
  /\ \A i \in 0 .. Len(p) : s[i] # <<>>
  /\ \A i \in 0 .. Len(p) - 1 : s[i + 1] = Taking(s[i], p[i + 1])

IsSplit(s, p, n) ==
  s = [i \in 0 .. n |-> IF i = 0 THEN << <<>> >>
                        ELSE IF p[i] = Slash THEN Append(s[i - 1], <<>>)
                        ELSE [s[i - 1] EXCEPT ![Len(s[i - 1])] = Append(@, p[i])]]

LEMMA SplitTo ==
  ASSUME NEW p, NEW n \in Nat
  PROVE  \A k \in 0 .. n : \E s : IsSplit(s, p, k)
<1> DEFINE S == {k \in 0 .. n : \E s : IsSplit(s, p, k)}
<1>1. 0 \in S
  <2> DEFINE s == [i \in 0 .. 0 |-> << <<>> >>]
  <2>1. IsSplit(s, p, 0)
    BY DEF IsSplit
  <2> QED BY <2>1
<1>2. ASSUME NEW k \in 0 .. n - 1, k \in S PROVE k + 1 \in S
  <2>1. PICK s : IsSplit(s, p, k)
    BY <1>2
  <2> DEFINE t == [i \in 0 .. k + 1 |-> IF i = k + 1 THEN Taking(s[k], p[k + 1]) ELSE s[i]]
  <2>2. ASSUME NEW i \in 0 .. k + 1
        PROVE  t[i] = IF i = 0 THEN << <<>> >>
                      ELSE IF p[i] = Slash THEN Append(t[i - 1], <<>>)
                      ELSE [t[i - 1] EXCEPT ![Len(t[i - 1])] = Append(@, p[i])]
    <3>1. CASE i = k + 1
      <4>1. i - 1 = k /\ k \in 0 .. k + 1 /\ k # k + 1 /\ i # 0
        BY <3>1
      <4>2. t[i] = Taking(s[k], p[i]) /\ t[i - 1] = s[k]
        BY <3>1, <4>1
      <4> HIDE DEF t
      <4> QED BY <4>1, <4>2 DEF Taking
    <3>2. CASE i = 0
      <4>1. t[i] = s[i] /\ i \in 0 .. k
        BY <3>2
      <4> HIDE DEF t
      <4> QED BY <2>1, <3>2, <4>1 DEF IsSplit
    <3>3. CASE i # k + 1 /\ i # 0
      <4>1. i \in 0 .. k /\ i - 1 \in 0 .. k + 1 /\ i - 1 # k + 1
        BY <3>3
      <4>2. t[i] = s[i] /\ t[i - 1] = s[i - 1]
        BY <3>3, <4>1
      <4> HIDE DEF t
      <4> QED BY <2>1, <3>3, <4>1, <4>2 DEF IsSplit
    <3> QED BY <3>1, <3>2, <3>3
  <2>3. t = [i \in 0 .. k + 1 |-> t[i]]
    OBVIOUS
  <2> HIDE DEF t
  <2>4. IsSplit(t, p, k + 1)
    BY <2>2, <2>3 DEF IsSplit
  <2>5. k + 1 \in 0 .. n
    OBVIOUS
  <2> QED BY <2>4, <2>5
<1> HIDE DEF S
<1>3. \A k \in 0 .. n : k \in S
  BY <1>1, <1>2, UpTo
<1> QED BY <1>3 DEF S

LEMMA SplitExists ==
  ASSUME NEW p \in String
  PROVE  \E s : Splits(s, p) /\ Components(p) = s[Len(p)]
<1> DEFINE n == Len(p)
           s == CHOOSE s : IsSplit(s, p, n)
<1>0. n \in Nat /\ \A i \in 1 .. n : p[i] \in Letters
  BY ElementOfSeq DEF String
<1>1. IsSplit(s, p, n)
  <2>1. \E t : IsSplit(t, p, n)
    <3>1. n \in 0 .. n
      BY <1>0
    <3> QED BY <1>0, <3>1, SplitTo
  <2> QED BY <2>1
<1>2. Components(p) = s[n]
  BY DEF Components, IsSplit
<1> HIDE DEF s, n
<1>3. /\ s[0] = << <<>> >> /\ DOMAIN s = 0 .. n /\ s = [i \in 0 .. n |-> s[i]]
      /\ \A i \in 0 .. n - 1 : s[i + 1] = Taking(s[i], p[i + 1])
  <2>1. s[0] = << <<>> >> /\ DOMAIN s = 0 .. n
    BY <1>0, <1>1 DEF IsSplit
  <2>2. ASSUME NEW i \in 0 .. n - 1 PROVE s[i + 1] = Taking(s[i], p[i + 1])
    <3> DEFINE j == i + 1
    <3>1. j \in 0 .. n /\ j # 0 /\ j - 1 = i
      BY <1>0
    <3> HIDE DEF j
    <3>2. s[j] = IF p[j] = Slash THEN Append(s[i], <<>>)
                 ELSE [s[i] EXCEPT ![Len(s[i])] = Append(@, p[j])]
      BY <1>1, <3>1 DEF IsSplit
    <3> QED BY <3>2 DEF Taking, j
  <2>3. s = [i \in 0 .. n |-> s[i]]
    BY <1>1 DEF IsSplit
  <2> QED BY <2>1, <2>2, <2>3
<1> DEFINE S == {i \in 0 .. n : s[i] \in Seq(String) /\ s[i] # <<>>}
<1>4. 0 \in S
  <2> DEFINE e == <<>>
  <2>1. e \in String
    BY DEF String
  <2> HIDE DEF e
  <2>2. <<e>> \in Seq(String) /\ <<e>> # <<>>
    BY <2>1
  <2>3. s[0] \in Seq(String) /\ s[0] # <<>>
    BY <1>3, <2>2 DEF e
  <2>4. 0 \in 0 .. n
    BY <1>0
  <2> QED BY <2>3, <2>4
<1>5. ASSUME NEW i \in 0 .. n - 1, i \in S PROVE i + 1 \in S
  <2>1. s[i] \in Seq(String) /\ s[i] # <<>> /\ p[i + 1] \in Letters /\ i + 1 \in 0 .. n
    BY <1>0, <1>5
  <2>2. s[i + 1] \in Seq(String) /\ s[i + 1] # <<>>
    <3> DEFINE c == s[i]
               x == p[i + 1]
    <3>1. c \in Seq(String) /\ c # <<>> /\ x \in Letters /\ s[i + 1] = Taking(c, x)
      BY <1>3, <2>1
    <3> HIDE DEF c, x
    <3> QED BY <3>1, TakingIs
  <2> QED BY <2>1, <2>2
<1> HIDE DEF S
<1>6. \A i \in 0 .. n : i \in S
  BY <1>0, <1>4, <1>5, UpTo
<1>7. \A i \in 0 .. n : s[i] \in Seq(String) /\ s[i] # <<>>
  BY <1>6 DEF S
<1>8. s \in [0 .. n -> Seq(String)]
  BY <1>3, <1>7
<1>9. Splits(s, p)
  BY <1>3, <1>7, <1>8 DEF Splits, n
<1> QED BY <1>2, <1>9 DEF n

(* Each character adds to the last component or begins another one.        *)
LEMMA SplitStep ==
  ASSUME NEW p \in String, NEW s, Splits(s, p), NEW i \in 0 .. Len(p) - 1
  PROVE  /\ s[i] \in Seq(String) /\ s[i] # <<>> /\ Len(s[i]) \in Nat \ {0}
         /\ p[i + 1] \in Letters /\ s[i + 1] = Taking(s[i], p[i + 1])
         /\ p[i + 1] = Slash => /\ Len(s[i + 1]) = Len(s[i]) + 1
                                /\ \A j \in 1 .. Len(s[i]) : s[i + 1][j] = s[i][j]
         /\ p[i + 1] # Slash => /\ Len(s[i + 1]) = Len(s[i])
                                /\ \A j \in 1 .. Len(s[i]) - 1 : s[i + 1][j] = s[i][j]
<1> DEFINE c == s[i]
           x == p[i + 1]
           d == s[i + 1]
<1>0. Len(p) \in Nat /\ \A j \in 1 .. Len(p) : p[j] \in Letters
  BY ElementOfSeq DEF String
<1>1. c \in Seq(String) /\ c # <<>> /\ x \in Letters /\ d = Taking(c, x)
  BY <1>0 DEF Splits
<1> HIDE DEF c, x, d
<1>2. /\ Len(c) \in Nat \ {0}
      /\ x = Slash => /\ Len(d) = Len(c) + 1
                      /\ \A j \in 1 .. Len(c) : d[j] = c[j]
      /\ x # Slash => /\ Len(d) = Len(c)
                      /\ \A j \in 1 .. Len(c) - 1 : d[j] = c[j]
  BY <1>1, TakingIs
<1> QED BY <1>1, <1>2 DEF c, x, d

(* Components that are followed by a slash stay.                           *)
LEMMA ComponentsStay ==
  ASSUME NEW p \in String, NEW s, Splits(s, p), NEW k \in 0 .. Len(p),
         k = Len(p) \/ p[k + 1] = Slash
  PROVE  /\ Len(s[k]) \in Nat /\ Len(s[Len(p)]) \in Nat /\ Len(s[k]) <= Len(s[Len(p)])
         /\ \A j \in 1 .. Len(s[k]) : s[Len(p)][j] = s[k][j]
<1> DEFINE n == Len(p)
           c == s[k]
           L == Len(c)
<1>0. n \in Nat /\ c \in Seq(String) /\ L \in Nat
  BY DEF String, Splits
<1>1. CASE k = n
  BY <1>0, <1>1
<1>2. CASE k # n
  <2> DEFINE S == {i \in 0 .. n - (k + 1) :
                     /\ Len(s[k + 1 + i]) \in Nat /\ Len(s[k + 1 + i]) > L
                     /\ \A j \in 1 .. L : s[k + 1 + i][j] = c[j]}
  <2>1. n - (k + 1) \in Nat /\ k \in 0 .. n - 1
    BY <1>0, <1>2
  <2>2. 0 \in S
    <3>1. Len(s[k + 1]) = L + 1 /\ \A j \in 1 .. L : s[k + 1][j] = c[j]
      BY <1>2, <2>1, SplitStep
    <3>2. k + 1 + 0 = k + 1 /\ 0 \in 0 .. n - (k + 1)
      BY <2>1
    <3> HIDE DEF L, c, n
    <3>3. L + 1 \in Nat /\ L + 1 > L
      BY <1>0
    <3> QED BY <3>1, <3>2, <3>3
  <2>3. ASSUME NEW i \in 0 .. (n - (k + 1)) - 1, i \in S PROVE i + 1 \in S
    <3> DEFINE h == k + 1 + i
    <3>1. h \in 0 .. n - 1 /\ k + 1 + (i + 1) = h + 1 /\ i + 1 \in 0 .. n - (k + 1)
      BY <1>0, <2>1
    <3>2. Len(s[h]) \in Nat /\ Len(s[h]) > L /\ \A j \in 1 .. L : s[h][j] = c[j]
      BY <2>3
    <3> HIDE DEF h, L, c, n
    <3>3. Len(s[h + 1]) \in {Len(s[h]), Len(s[h]) + 1}
          /\ \A j \in 1 .. Len(s[h]) - 1 : s[h + 1][j] = s[h][j]
      <4>1. h \in 0 .. Len(p) - 1
        BY <3>1 DEF n
      <4>2. \A j \in 1 .. Len(s[h]) - 1 : j \in 1 .. Len(s[h])
        BY <3>2
      <4>3. CASE p[h + 1] = Slash
        <5>1. Len(s[h + 1]) = Len(s[h]) + 1 /\ \A j \in 1 .. Len(s[h]) : s[h + 1][j] = s[h][j]
          BY <4>1, <4>3, SplitStep
        <5> QED BY <4>2, <5>1
      <4>4. CASE p[h + 1] # Slash
        <5>1. Len(s[h + 1]) = Len(s[h]) /\ \A j \in 1 .. Len(s[h]) - 1 : s[h + 1][j] = s[h][j]
          BY <4>1, <4>4, SplitStep
        <5> QED BY <5>1
      <4> QED BY <4>3, <4>4
    <3>4. \A j \in 1 .. L : j \in 1 .. Len(s[h]) - 1
      BY <1>0, <3>2
    <3>5. Len(s[h + 1]) \in Nat /\ Len(s[h + 1]) > L
      BY <1>0, <3>2, <3>3
    <3> QED BY <3>1, <3>2, <3>3, <3>4, <3>5
  <2> HIDE DEF S, n
  <2>4. \A i \in 0 .. n - (k + 1) : i \in S
    BY <2>1, <2>2, <2>3, UpTo
  <2>5. n - (k + 1) \in 0 .. n - (k + 1) /\ k + 1 + (n - (k + 1)) = n
    BY <1>0, <2>1
  <2>6. /\ Len(s[n]) \in Nat /\ Len(s[n]) > L
        /\ \A j \in 1 .. L : s[n][j] = c[j]
    BY <2>4, <2>5 DEF S
  <2> QED BY <1>0, <2>6 DEF n
<1> QED BY <1>1, <1>2

(* Where a path has enough components, some beginning of it has as many.   *)
LEMMA BeginningExists ==
  ASSUME NEW p \in String, NEW s, Splits(s, p), NEW n \in Nat \ {0}, n <= Len(s[Len(p)])
  PROVE  \E k \in 0 .. Len(p) : Len(s[k]) = n /\ (k = Len(p) \/ p[k + 1] = Slash)
<1> DEFINE N == Len(p)
           S == {i \in 0 .. N : Len(s[i]) <= n}
<1>0. N \in Nat /\ \A i \in 0 .. N : Len(s[i]) \in Nat
  BY DEF String, Splits
<1> SUFFICES ASSUME \A k \in 0 .. N : Len(s[k]) = n => k # N /\ p[k + 1] # Slash
             PROVE  FALSE
  OBVIOUS
<1>1. 0 \in S
  <2>1. Len(s[0]) = 1
    <3> DEFINE e == <<>>
    <3>1. s[0] = <<e>>
      BY DEF Splits
    <3> HIDE DEF e
    <3> QED BY <3>1
  <2>2. Len(s[0]) <= n /\ 0 \in 0 .. N
    BY <1>0, <2>1
  <2> QED BY <2>2
<1>2. ASSUME NEW i \in 0 .. N - 1, i \in S PROVE i + 1 \in S
  <2>1. i \in 0 .. Len(p) - 1 /\ i + 1 \in 0 .. N /\ i \in 0 .. N
    BY <1>0
  <2>2. /\ p[i + 1] = Slash => Len(s[i + 1]) = Len(s[i]) + 1
        /\ p[i + 1] # Slash => Len(s[i + 1]) = Len(s[i])
    BY <2>1, SplitStep
  <2>3. Len(s[i]) = n => p[i + 1] # Slash
    BY <2>1
  <2>4. Len(s[i]) <= n /\ Len(s[i]) \in Nat
    BY <1>0, <1>2, <2>1
  <2>5. Len(s[i + 1]) <= n
    BY <2>2, <2>3, <2>4
  <2> QED BY <2>1, <2>5
<1> HIDE DEF S
<1>3. \A i \in 0 .. N : i \in S
  BY <1>0, <1>1, <1>2, UpTo
<1>4. Len(s[N]) <= n /\ N \in 0 .. N /\ Len(s[N]) \in Nat
  BY <1>0, <1>3 DEF S
<1>5. Len(s[N]) = n
  BY <1>4
<1> QED BY <1>4, <1>5

(* Equal characters have equal components, and the other way round.        *)
LEMMA SameBeginning ==
  ASSUME NEW p \in String, NEW s, Splits(s, p), NEW q \in String, NEW t, Splits(t, q),
         NEW k \in 0 .. Len(p), k <= Len(q), \A i \in 1 .. k : p[i] = q[i]
  PROVE  s[k] = t[k]
<1> DEFINE S == {i \in 0 .. k : s[i] = t[i]}
<1>0. Len(p) \in Nat /\ Len(q) \in Nat /\ k \in Nat
  BY DEF String
<1>1. 0 \in S
  BY <1>0 DEF Splits
<1>2. ASSUME NEW i \in 0 .. k - 1, i \in S PROVE i + 1 \in S
  <2>1. i \in 0 .. Len(p) - 1 /\ i \in 0 .. Len(q) - 1 /\ i + 1 \in 1 .. k /\ i + 1 \in 0 .. k
    BY <1>0
  <2>2. s[i + 1] = Taking(s[i], p[i + 1]) /\ t[i + 1] = Taking(t[i], q[i + 1])
    BY <2>1, SplitStep
  <2>3. s[i] = t[i] /\ p[i + 1] = q[i + 1]
    BY <1>2, <2>1
  <2> QED BY <2>1, <2>2, <2>3
<1> HIDE DEF S
<1>3. \A i \in 0 .. k : i \in S
  BY <1>0, <1>1, <1>2, UpTo
<1> QED BY <1>0, <1>3 DEF S

(* A character leaves something behind.                                    *)
LEMMA NotEmptyAgain ==
  ASSUME NEW r \in String, NEW u, Splits(u, r), NEW i \in 0 .. Len(r) - 1
  PROVE  u[i + 1] # << <<>> >>
<1> DEFINE c == u[i]
           d == u[i + 1]
           x == r[i + 1]
<1>1. c \in Seq(String) /\ c # <<>> /\ x \in Letters /\ d = Taking(c, x)
  BY SplitStep
<1> HIDE DEF c, d, x
<1>2. /\ Len(c) \in Nat \ {0} /\ c[Len(c)] \in String
      /\ x = Slash => Len(d) = Len(c) + 1
      /\ x # Slash => Len(d) = Len(c) /\ d[Len(c)] = Append(c[Len(c)], x)
  BY <1>1, TakingIs
<1> DEFINE e == <<>>
<1>3. Append(c[Len(c)], x) # e
  BY <1>1, <1>2, AppendProperties DEF String
<1> HIDE DEF e
<1>4. Len(<<e>>) = 1 /\ <<e>>[1] = e
  OBVIOUS
<1>5. ASSUME d = <<e>> PROVE FALSE
  <2>1. x # Slash
    <3>1. SUFFICES ASSUME x = Slash PROVE FALSE
      OBVIOUS
    <3>2. Len(d) = Len(c) + 1
      BY <1>2, <3>1
    <3>3. Len(d) = 1
      BY <1>4, <1>5
    <3> DEFINE k == Len(c)
               h == Len(d)
    <3>4. k \in Nat /\ k # 0 /\ h = k + 1 /\ h = 1
      BY <1>2, <3>2, <3>3
    <3> HIDE DEF k, h
    <3> QED BY <3>4
  <2>2. Len(d) = Len(c) /\ d[Len(c)] = Append(c[Len(c)], x)
    BY <1>2, <2>1
  <2>3. Len(c) = 1
    BY <1>4, <1>5, <2>2
  <2>4. d[1] = e
    BY <1>4, <1>5
  <2> QED BY <1>3, <2>2, <2>3, <2>4
<1> QED BY <1>5 DEF d, e

LEMMA ComponentsTell ==
  ASSUME NEW p \in String, NEW s, Splits(s, p), NEW q \in String, NEW t, Splits(t, q)
  PROVE  \A i \in 0 .. Len(p) : \A j \in 0 .. Len(q) :
           s[i] = t[j] => i = j /\ \A h \in 1 .. i : p[h] = q[h]
<1> DEFINE N == Len(p)
           M == Len(q)
           S == {i \in 0 .. N : \A j \in 0 .. M :
                   s[i] = t[j] => i = j /\ \A h \in 1 .. i : p[h] = q[h]}
<1>0. N \in Nat /\ M \in Nat
  BY DEF String
<1>2. 0 \in S
  <2>1. s[0] = << <<>> >> /\ 0 \in 0 .. N
    BY <1>0 DEF Splits
  <2>2. ASSUME NEW j \in 0 .. M, s[0] = t[j] PROVE 0 = j
    <3>1. SUFFICES ASSUME j # 0 PROVE FALSE
      OBVIOUS
    <3> DEFINE i == j - 1
    <3>2. i \in 0 .. Len(q) - 1 /\ i + 1 = j
      BY <1>0, <3>1
    <3> HIDE DEF i
    <3>3. t[i + 1] # << <<>> >>
      BY <3>2, NotEmptyAgain
    <3> QED BY <2>1, <2>2, <3>2, <3>3
  <2>3. \A h : h \notin 1 .. 0
    OBVIOUS
  <2> QED BY <2>1, <2>2, <2>3
<1>3. ASSUME NEW i \in 0 .. N - 1, i \in S PROVE i + 1 \in S
  <2>1. i \in 0 .. Len(p) - 1 /\ i + 1 \in 0 .. N /\ i \in 0 .. N
    BY <1>0
  <2>2. ASSUME NEW j \in 0 .. M, s[i + 1] = t[j]
        PROVE  i + 1 = j /\ \A h \in 1 .. i + 1 : p[h] = q[h]
    <3>1. j # 0
      <4>1. s[i + 1] # << <<>> >> /\ t[0] = << <<>> >>
        BY <2>1, NotEmptyAgain DEF Splits
      <4> QED BY <2>2, <4>1
    <3> DEFINE k == j - 1
    <3>2. k \in 0 .. Len(q) - 1 /\ k + 1 = j /\ k \in 0 .. M
      BY <1>0, <3>1
    <3> HIDE DEF k
    <3>3. /\ s[i] \in Seq(String) /\ s[i] # <<>> /\ p[i + 1] \in Letters
          /\ s[i + 1] = Taking(s[i], p[i + 1])
      BY <2>1, SplitStep
    <3>4. /\ t[k] \in Seq(String) /\ t[k] # <<>> /\ q[k + 1] \in Letters
          /\ t[k + 1] = Taking(t[k], q[k + 1])
      BY <3>2, SplitStep
    <3>5. s[i] = t[k] /\ p[i + 1] = q[k + 1]
      <4> DEFINE c == s[i]
                 x == p[i + 1]
                 d == t[k]
                 y == q[k + 1]
      <4>1. /\ c \in Seq(String) /\ c # <<>> /\ x \in Letters
            /\ d \in Seq(String) /\ d # <<>> /\ y \in Letters
            /\ Taking(c, x) = Taking(d, y)
        BY <2>2, <3>2, <3>3, <3>4
      <4> HIDE DEF c, d, x, y
      <4>2. c = d /\ x = y
        BY <4>1, TakingTells
      <4> QED BY <4>2 DEF c, d, x, y
    <3>6. i = k /\ \A h \in 1 .. i : p[h] = q[h]
      BY <1>3, <3>2, <3>5
    <3>7. \A h \in 1 .. i + 1 : h \in 1 .. i \/ h = i + 1
      BY <2>1
    <3> QED BY <3>2, <3>5, <3>6, <3>7
  <2> QED BY <2>1, <2>2
<1> HIDE DEF S
<1>4. \A i \in 0 .. N : i \in S
  BY <1>0, <1>2, <1>3, UpTo
<1> QED BY <1>4 DEF S

(* The mount point is the path or is followed by a slash in it.            *)
On(q, p) ==
  /\ Len(q) <= Len(p)
  /\ \A h \in 1 .. Len(q) : q[h] = p[h]
  /\ Len(q) = Len(p) \/ p[Len(q) + 1] = Slash

LEMMA WithinIs ==
  ASSUME NEW q \in String, NEW p \in String
  PROVE  Within(q, p) <=> On(q, p)
<1>1. PICK t : Splits(t, q) /\ Components(q) = t[Len(q)]
  BY SplitExists
<1>2. PICK s : Splits(s, p) /\ Components(p) = s[Len(p)]
  BY SplitExists
<1> DEFINE a == t[Len(q)]
           c == s[Len(p)]
<1>3. Len(q) \in Nat /\ Len(p) \in Nat /\ a \in Seq(String) /\ a # <<>> /\ c \in Seq(String)
  <2>1. Len(q) \in Nat /\ Len(p) \in Nat
    BY DEF String
  <2> QED BY <1>1, <1>2, <2>1 DEF Splits
<1>4. Len(a) \in Nat \ {0} /\ Len(c) \in Nat
  <2> HIDE DEF a, c
  <2> QED BY <1>3, EmptySeq
<1>5. ASSUME Len(a) <= Len(c)
      PROVE  SubSeq(c, 1, Len(a)) = a <=> \A j \in 1 .. Len(a) : c[j] = a[j]
  <2> HIDE DEF a, c
  <2> DEFINE n == Len(a)
             b == SubSeq(c, 1, n)
  <2>1. \A j \in 1 .. n : c[j] \in String
    <3>1. \A j \in 1 .. n : j \in 1 .. Len(c)
      BY <1>4, <1>5
    <3> QED BY <1>3, <3>1, ElementOfSeq
  <2>2. b \in Seq(String) /\ Len(b) = n /\ \A j \in 1 .. n : b[j] = c[j]
    <3>1. n \in Int /\ 1 \in Int /\ 1 <= n /\ n - 1 + 1 = n
      BY <1>4
    <3>2. b \in Seq(String) /\ Len(b) = n /\ \A j \in 1 .. n : b[j] = c[1 + j - 1]
      <4> HIDE DEF n
      <4> QED BY <2>1, <3>1, SubSeqProperties
    <3> QED BY <1>4, <3>2
  <2> HIDE DEF b
  <2>3. CASE b = a
    BY <2>2, <2>3 DEF b
  <2>4. CASE \A j \in 1 .. n : c[j] = a[j]
    <3>1. b = a
      BY <1>3, <2>2, <2>4, SeqEqual
    <3> QED BY <2>4, <3>1 DEF b
  <2> QED BY <2>3, <2>4 DEF b
<1>6. Within(q, p) <=> Len(a) <= Len(c) /\ \A j \in 1 .. Len(a) : c[j] = a[j]
  BY <1>1, <1>2, <1>5 DEF Within
<1>7. ASSUME On(q, p) PROVE Within(q, p)
  <2> DEFINE k == Len(q)
  <2>1. /\ k \in 0 .. Len(q) /\ k \in 0 .. Len(p) /\ k <= Len(p)
        /\ k = Len(p) \/ p[k + 1] = Slash
        /\ \A i \in 1 .. k : q[i] = p[i]
    BY <1>3, <1>7 DEF On
  <2>2. t[k] = s[k]
    BY <1>1, <1>2, <2>1, SameBeginning
  <2>3. Len(s[k]) <= Len(c) /\ \A j \in 1 .. Len(s[k]) : c[j] = s[k][j]
    BY <1>2, <2>1, ComponentsStay
  <2> QED BY <1>6, <2>2, <2>3
<1>8. ASSUME Within(q, p) PROVE On(q, p)
  <2>1. Len(a) <= Len(c) /\ \A j \in 1 .. Len(a) : c[j] = a[j]
    BY <1>6, <1>8
  <2> DEFINE n == Len(a)
  <2>2. PICK k \in 0 .. Len(p) : Len(s[k]) = n /\ (k = Len(p) \/ p[k + 1] = Slash)
    <3>1. n \in Nat \ {0} /\ n <= Len(s[Len(p)])
      BY <1>4, <2>1
    <3> HIDE DEF n
    <3> QED BY <1>2, <3>1, BeginningExists, SMTT(30)
  <2>3. \A j \in 1 .. Len(s[k]) : c[j] = s[k][j]
    BY <1>2, <2>2, ComponentsStay
  <2>4. s[k] = a
    <3>1. s[k] \in Seq(String)
      BY <1>2 DEF Splits
    <3> DEFINE d == s[k]
    <3>2. d \in Seq(String) /\ Len(d) = Len(a) /\ \A j \in 1 .. Len(d) : d[j] = a[j]
      BY <2>1, <2>2, <2>3, <3>1
    <3> HIDE DEF d, a
    <3>3. d = a
      BY <1>3, <3>2, SeqEqual
    <3> QED BY <3>3 DEF d
  <2>5. Len(q) \in 0 .. Len(q)
    BY <1>3
  <2>6. k = Len(q) /\ \A h \in 1 .. k : p[h] = q[h]
    BY <1>1, <1>2, <2>4, <2>5, ComponentsTell
  <2> QED BY <1>3, <2>2, <2>6 DEF On
<1> QED BY <1>7, <1>8

(* What is looked up and what is registered: no character of it is NUL.    *)
CString == {n \in String : \A i \in 1 .. Len(n) : n[i] # NUL}

LEMMA NamesAreStrings == DevName \cup Path \subseteq CString
<1> SUFFICES ASSUME NEW n \in DevName \cup Path PROVE n \in CString
  OBVIOUS
<1> DEFINE C == {n[i] : i \in 1 .. Len(n)}
<1>1. n \in Seq(C) /\ \A i \in 1 .. Len(n) : n[i] # NUL
  BY RegistryAssumption
<1>2. C \subseteq Letters
  BY DEF Letters
<1> HIDE DEF C
<1>3. n \in Seq(Letters)
  <2>1. \A i \in 1 .. Len(n) : n[i] \in Letters
    BY <1>1, <1>2, ElementOfSeq
  <2> QED BY <1>1, <2>1
<1> QED BY <1>1, <1>3 DEF CString, String

LEMMA MountIsString ==
  ASSUME NEW n \in DevName
  PROVE  Mount(n) \in CString
<1>1. n \in CString /\ n # <<>> /\ n \in String /\ n \in Seq(Letters)
  BY NamesAreStrings, RegistryAssumption DEF CString, String
<1>2. Len(n) \in Nat \ {0} /\ \A i \in 1 .. Len(n) : n[i] \in Letters /\ n[i] # NUL
  BY <1>1, EmptySeq, ElementOfSeq DEF CString
<1>3. CASE n[Len(n)] = Slash
  <2> DEFINE k == Len(n) - 1
             q == SubSeq(n, 1, k)
  <2>1. k \in Nat /\ \A i \in 1 .. k : i \in 1 .. Len(n) /\ n[i] \in Letters
    BY <1>2
  <2>2. q \in Seq(Letters) /\ Len(q) = k /\ \A i \in 1 .. k : q[i] = n[i]
    <3>0. k \in Nat
      BY <2>1
    <3> HIDE DEF k
    <3>1. k \in Int /\ 1 \in Int /\ k - 1 + 1 = k /\ (IF 1 <= k THEN k - 1 + 1 ELSE 0) = k
      BY <3>0
    <3>2. /\ q \in Seq(Letters) /\ Len(q) = (IF 1 <= k THEN k - 1 + 1 ELSE 0)
          /\ \A i \in 1 .. k - 1 + 1 : q[i] = n[1 + i - 1]
      <4>1. \A i \in 1 .. k : n[i] \in Letters
        BY <2>1
      <4> QED BY <3>1, <4>1, SubSeqProperties
    <3>3. \A i \in 1 .. k : q[i] = n[i]
      BY <2>1, <3>2
    <3> QED BY <3>1, <3>2, <3>3
  <2>3. Mount(n) = q
    BY <1>3 DEF Mount
  <2> HIDE DEF q, k
  <2>4. q \in CString
    BY <1>2, <2>1, <2>2 DEF CString, String
  <2> QED BY <2>3, <2>4
<1>4. CASE n[Len(n)] # Slash
  BY <1>1, <1>4 DEF Mount
<1> QED BY <1>3, <1>4

(* Comparing memory, NUL included, is comparing names.                     *)
LEMMA MemoryTells ==
  ASSUME NEW n \in CString, NEW q \in CString, NEW b
  PROVE  Memory(n, Len(q) + 1, b) = Memory(q, Len(q) + 1, b) <=> n = q
<1>1. /\ n \in Seq(Letters) /\ q \in Seq(Letters) /\ Len(n) \in Nat /\ Len(q) \in Nat
      /\ \A i \in 1 .. Len(n) : n[i] # NUL
      /\ \A i \in 1 .. Len(q) : q[i] # NUL
  BY DEF CString, String
<1>2. ASSUME Memory(n, Len(q) + 1, b) = Memory(q, Len(q) + 1, b) PROVE n = q
  <2>1. \A i \in 1 .. Len(q) + 1 : Memory(n, Len(q) + 1, b)[i] = Memory(q, Len(q) + 1, b)[i]
    BY <1>2
  <2>2. \A i \in 1 .. Len(q) + 1 :
          (IF i <= Len(n) THEN n[i] ELSE IF i = Len(n) + 1 THEN NUL ELSE b)
            = IF i <= Len(q) THEN q[i] ELSE NUL
    BY <1>1, <2>1 DEF Memory
  <2>3. ~ Len(n) < Len(q)
    <3>1. SUFFICES ASSUME Len(n) < Len(q) PROVE FALSE
      OBVIOUS
    <3> DEFINE i == Len(n) + 1
    <3>2. i \in 1 .. Len(q) + 1 /\ i \in 1 .. Len(q) /\ ~(i <= Len(n)) /\ i <= Len(q)
      BY <1>1, <3>1
    <3> HIDE DEF i
    <3>3. q[i] = NUL
      BY <2>2, <3>2 DEF i
    <3> QED BY <1>1, <3>2, <3>3
  <2>4. ~ Len(n) > Len(q)
    <3>1. SUFFICES ASSUME Len(n) > Len(q) PROVE FALSE
      OBVIOUS
    <3> DEFINE i == Len(q) + 1
    <3>2. i \in 1 .. Len(q) + 1 /\ i \in 1 .. Len(n) /\ i <= Len(n) /\ ~(i <= Len(q))
      BY <1>1, <3>1
    <3> HIDE DEF i
    <3>3. n[i] = NUL
      BY <2>2, <3>2
    <3> QED BY <1>1, <3>2, <3>3
  <2>5. Len(n) = Len(q)
    BY <1>1, <2>3, <2>4
  <2>6. \A i \in 1 .. Len(n) : n[i] = q[i]
    <3>1. \A i \in 1 .. Len(n) : i \in 1 .. Len(q) + 1 /\ i <= Len(n) /\ i <= Len(q)
      BY <1>1, <2>5
    <3> QED BY <2>2, <3>1
  <2> QED BY <1>1, <2>5, <2>6, SeqEqual
<1> QED BY <1>2

(* What alt_find_file compares says where the mount point is.              *)
LEMMA FoundIsOn ==
  ASSUME NEW q \in CString, NEW p \in CString, NEW b
  PROVE  (/\ Memory(p, Len(q) + 1, b)[Len(q) + 1] \in {Slash, NUL}
          /\ q = Memory(p, Len(q), b))
         <=> On(q, p)
<1> DEFINE k == Len(q)
           y == Memory(p, k + 1, b)[k + 1]
<1>1. /\ q \in Seq(Letters) /\ p \in Seq(Letters) /\ k \in Nat /\ Len(p) \in Nat
      /\ \A i \in 1 .. k : q[i] # NUL
      /\ \A i \in 1 .. Len(p) : p[i] # NUL
  BY DEF CString, String
<1>2. y = IF k + 1 <= Len(p) THEN p[k + 1] ELSE IF k = Len(p) THEN NUL ELSE b
  <2>1. k + 1 \in 1 .. k + 1 /\ (k + 1 = Len(p) + 1 <=> k = Len(p))
    BY <1>1
  <2> HIDE DEF k
  <2> QED BY <2>1 DEF Memory
<1> HIDE DEF y
<1>3. ASSUME y \in {Slash, NUL}, q = Memory(p, k, b) PROVE On(q, p)
  <2>1. \A i \in 1 .. k : q[i] = IF i <= Len(p) THEN p[i] ELSE IF i = Len(p) + 1 THEN NUL ELSE b
    <3> HIDE DEF k
    <3> QED BY <1>3 DEF Memory
  <2>2. k <= Len(p)
    <3>1. SUFFICES ASSUME k > Len(p) PROVE FALSE
      BY <1>1
    <3> DEFINE i == Len(p) + 1
    <3>2. i \in 1 .. k /\ ~(i <= Len(p))
      BY <1>1, <3>1
    <3>3. q[i] = NUL
      BY <2>1, <3>2
    <3> QED BY <1>1, <3>2, <3>3
  <2>3. \A h \in 1 .. k : q[h] = p[h]
    <3>1. \A h \in 1 .. k : h <= Len(p)
      BY <1>1, <2>2
    <3> QED BY <2>1, <3>1
  <2>4. k = Len(p) \/ p[k + 1] = Slash
    <3>1. SUFFICES ASSUME k # Len(p) PROVE p[k + 1] = Slash
      OBVIOUS
    <3>2. k + 1 <= Len(p) /\ k + 1 \in 1 .. Len(p)
      BY <1>1, <2>2, <3>1
    <3>3. y = p[k + 1] /\ p[k + 1] # NUL
      BY <1>1, <1>2, <3>2
    <3> QED BY <1>3, <3>3
  <2> QED BY <2>2, <2>3, <2>4 DEF On
<1>4. ASSUME On(q, p) PROVE y \in {Slash, NUL} /\ q = Memory(p, k, b)
  <2>1. k <= Len(p) /\ (\A h \in 1 .. k : q[h] = p[h]) /\ (k = Len(p) \/ p[k + 1] = Slash)
    BY <1>4 DEF On
  <2>2. \A i \in 1 .. k : i <= Len(p)
    BY <1>1, <2>1
  <2>3. q = [i \in 1 .. k |-> q[i]]
    BY <1>1
  <2>4. Memory(p, k, b) = [i \in 1 .. k |-> q[i]]
    <3> HIDE DEF k
    <3> QED BY <2>1, <2>2 DEF Memory
  <2>5. CASE k = Len(p)
    <3>1. ~(k + 1 <= Len(p))
      BY <1>1, <2>5
    <3>2. y = NUL
      BY <1>2, <2>5, <3>1
    <3> QED BY <2>3, <2>4, <3>2
  <2>6. CASE k # Len(p)
    <3>1. k + 1 <= Len(p)
      BY <1>1, <2>1, <2>6
    <3>2. y = Slash
      BY <1>2, <2>1, <2>6, <3>1
    <3> QED BY <2>3, <2>4, <3>2
  <2> QED BY <2>5, <2>6
<1> QED BY <1>3, <1>4 DEF y

(* The first hit has the least index.                                      *)
LEMMA LeastHit ==
  ASSUME NEW n \in Nat, NEW hits \in SUBSET (1 .. n), hits # {}
  PROVE  \E i \in hits : i = (CHOOSE k \in hits : \A j \in hits : k <= j)
                         /\ \A j \in hits : i <= j
<1>1. PICK x \in hits : \A y \in hits : ~(<<y, x>> \in OpToRel(<, Nat))
  <2>1. IsWellFoundedOn(OpToRel(<, Nat), Nat)
    BY NatLessThanWellFounded
  <2>2. hits \subseteq Nat
    OBVIOUS
  <2> QED BY <2>1, <2>2, WFMin
<1>2. \A y \in hits : x <= y
  <2> SUFFICES ASSUME NEW y \in hits, y < x PROVE FALSE
    OBVIOUS
  <2>1. x \in Nat /\ y \in Nat
    OBVIOUS
  <2>2. <<y, x>> \in OpToRel(<, Nat)
    BY <2>1 DEF OpToRel
  <2> QED BY <1>1, <2>2
<1> QED BY <1>2

(* Whatever is in a list is a structure with a registered name.            *)
RegistryInv == lists \in [List -> Seq([dev : Dev, name : DevName])]

LEMMA InitRegistry == RegistryInit => RegistryInv
<1> DEFINE E == [dev : Dev, name : DevName]
<1> HIDE DEF E
<1>1. RegistryInit => lists \in [List -> Seq(E)]
  <2> DEFINE e == <<>>
  <2>1. e \in Seq(E)
    OBVIOUS
  <2>2. RegistryInit => lists = [l \in List |-> e]
    BY DEF RegistryInit
  <2> HIDE DEF e
  <2> QED BY <2>1, <2>2
<1> QED BY <1>1 DEF RegistryInv, E

LEMMA NextRegistry == RegistryInv /\ [RegistryNext]_registryvars => RegistryInv'
<1> SUFFICES ASSUME RegistryInv, [RegistryNext]_registryvars PROVE RegistryInv'
  OBVIOUS
<1>1. CASE UNCHANGED lists
  BY <1>1 DEF RegistryInv
<1>2. ASSUME NEW l \in List, NEW d \in Dev, NEW name \in DevName \cup {NULL}, Insert(l, d, name)
      PROVE  RegistryInv'
  <2>1. CASE name = NULL
    BY <1>1, <1>2, <2>1 DEF Insert
  <2>2. CASE name # NULL
    <3> DEFINE E == [dev : Dev, name : DevName]
               e == [dev |-> d, name |-> name]
    <3>1. e \in E /\ lists[l] \in Seq(E) /\ lists' = [lists EXCEPT ![l] = <<e>> \o lists[l]]
      BY <1>2, <2>2 DEF Insert, RegistryInv
    <3>2. lists \in [List -> Seq(E)]
      BY DEF RegistryInv
    <3> HIDE DEF E, e
    <3>3. <<e>> \o lists[l] \in Seq(E)
      <4>1. <<e>> \in Seq(E)
        BY <3>1
      <4> QED BY <3>1, <4>1, ConcatProperties
    <3>4. lists' \in [List -> Seq(E)]
      BY <3>1, <3>2, <3>3
    <3> QED BY <3>4 DEF RegistryInv, E
  <2> QED BY <2>1, <2>2
<1>3. ASSUME NEW name \in Path, OpenChannel(name, NUL) PROVE RegistryInv'
  BY <1>1, <1>3 DEF OpenChannel
<1> QED BY <1>1, <1>2, <1>3 DEF RegistryNext, registryvars

LEMMA FindsExactlyHolds == RegistryInv => FindsExactly
<1> SUFFICES ASSUME RegistryInv, NEW l \in List, NEW name \in Path, NEW b \in Beyond
             PROVE  IsNewest(alt_find_dev(name, l, b), l, LAMBDA n : n = name)
  BY DEF FindsExactly
<1> DEFINE L == lists[l]
           hits == {i \in 1 .. Len(L) :
                      Memory(L[i].name, Len(name) + 1, b) = Memory(name, Len(name) + 1, b)}
           named == {i \in 1 .. Len(L) : L[i].name = name}
<1>1. Len(L) \in Nat /\ \A i \in 1 .. Len(L) : L[i].name \in DevName
  <2>1. L \in Seq([dev : Dev, name : DevName])
    BY DEF RegistryInv
  <2> HIDE DEF L
  <2>2. \A i \in 1 .. Len(L) : L[i] \in [dev : Dev, name : DevName]
    BY <2>1, ElementOfSeq
  <2> QED BY <2>1, <2>2
<1>2. hits = named
  <2>1. \A i \in 1 .. Len(L) : L[i].name \in CString
    BY <1>1, NamesAreStrings
  <2>2. name \in CString
    BY NamesAreStrings
  <2> HIDE DEF L
  <2> QED BY <2>1, <2>2, MemoryTells
<1> DEFINE first == CHOOSE i \in hits : \A j \in hits : i <= j
<1>3. alt_find_dev(name, l, b) = IF hits = {} THEN NULL ELSE L[first].dev
  BY DEF alt_find_dev, First
<1>4. IsNewest(alt_find_dev(name, l, b), l, LAMBDA n : n = name)
        <=> \/ named = {} /\ alt_find_dev(name, l, b) = NULL
            \/ \E i \in named : alt_find_dev(name, l, b) = L[i].dev /\ \A j \in named : i <= j
  BY DEF IsNewest
<1>5. hits # {} => \E i \in hits : i = first /\ \A j \in hits : i <= j
  <2>1. hits \in SUBSET (1 .. Len(L))
    OBVIOUS
  <2> HIDE DEF hits, L
  <2> QED BY <1>1, <2>1, LeastHit
<1> HIDE DEF L, hits, named, first
<1> QED BY <1>2, <1>3, <1>4, <1>5

LEMMA FindsMountHolds == RegistryInv => FindsMount
<1> SUFFICES ASSUME RegistryInv, NEW path \in Path, NEW b \in Beyond
             PROVE  IsNewest(alt_find_file(path, b), "fs", LAMBDA n : Within(Mount(n), path))
  BY DEF FindsMount
<1> DEFINE L == lists["fs"]
           hits == {i \in 1 .. Len(L) :
                      /\ Memory(path, Len(Mount(L[i].name)) + 1, b)
                           [Len(Mount(L[i].name)) + 1] \in {Slash, NUL}
                      /\ Mount(L[i].name) = Memory(path, Len(Mount(L[i].name)), b)}
           named == {i \in 1 .. Len(L) : Within(Mount(L[i].name), path)}
<1>1. Len(L) \in Nat /\ \A i \in 1 .. Len(L) : L[i].name \in DevName
  <2>1. L \in Seq([dev : Dev, name : DevName])
    BY DEF RegistryInv, List
  <2> HIDE DEF L
  <2>2. \A i \in 1 .. Len(L) : L[i] \in [dev : Dev, name : DevName]
    BY <2>1, ElementOfSeq
  <2> QED BY <2>1, <2>2
<1>2. hits = named
  <2>1. \A i \in 1 .. Len(L) : Mount(L[i].name) \in CString /\ Mount(L[i].name) \in String
    BY <1>1, MountIsString DEF CString
  <2>2. path \in CString /\ path \in String
    BY NamesAreStrings DEF CString
  <2>3. ASSUME NEW i \in 1 .. Len(L)
        PROVE  (/\ Memory(path, Len(Mount(L[i].name)) + 1, b)
                     [Len(Mount(L[i].name)) + 1] \in {Slash, NUL}
                /\ Mount(L[i].name) = Memory(path, Len(Mount(L[i].name)), b))
               <=> Within(Mount(L[i].name), path)
    <3> DEFINE q == Mount(L[i].name)
    <3>1. q \in CString /\ q \in String
      BY <2>1
    <3> HIDE DEF q
    <3>2. Within(q, path) <=> On(q, path)
      BY <2>2, <3>1, WithinIs
    <3>3. (/\ Memory(path, Len(q) + 1, b)[Len(q) + 1] \in {Slash, NUL}
           /\ q = Memory(path, Len(q), b))
          <=> On(q, path)
      BY <2>2, <3>1, FoundIsOn
    <3>4. (/\ Memory(path, Len(q) + 1, b)[Len(q) + 1] \in {Slash, NUL}
           /\ q = Memory(path, Len(q), b))
          <=> Within(q, path)
      BY <3>2, <3>3
    <3> QED BY <3>4 DEF q
  <2> QED BY <2>3
<1> DEFINE first == CHOOSE i \in hits : \A j \in hits : i <= j
<1>3. alt_find_file(path, b) = IF hits = {} THEN NULL ELSE L[first].dev
  BY DEF alt_find_file, First
<1>4. IsNewest(alt_find_file(path, b), "fs", LAMBDA n : Within(Mount(n), path))
        <=> \/ named = {} /\ alt_find_file(path, b) = NULL
            \/ \E i \in named : alt_find_file(path, b) = L[i].dev /\ \A j \in named : i <= j
  BY DEF IsNewest
<1>5. hits # {} => \E i \in hits : i = first /\ \A j \in hits : i <= j
  <2>1. hits \in SUBSET (1 .. Len(L))
    OBVIOUS
  <2> HIDE DEF hits, L
  <2> QED BY <1>1, <2>1, LeastHit
<1> HIDE DEF L, hits, named, first
<1> QED BY <1>2, <1>3, <1>4, <1>5

(* For any names and paths, in any order of registration and whatever      *)
(* follows a name in memory: a look-up finds the newest entry with just    *)
(* that name, and a path the newest file system whose mount point is the   *)
(* path or a directory on its way, or none where there is none             *)
(* (alt_find_dev.c:54-86, alt_find_file.c:54-87).                          *)
THEOREM NamesAreFound == LibrarySpec => []NamesFound
<1> DEFINE Inv == part = "registry" => RegistryInv
<1>1. LibraryInit => Inv
  BY InitRegistry DEF LibraryInit
<1>2. Inv /\ [LibraryNext]_vars => Inv'
  <2> SUFFICES ASSUME Inv, [LibraryNext]_vars, part' = "registry" PROVE RegistryInv'
    OBVIOUS
  <2>1. part = "registry" /\ [RegistryNext]_registryvars
    BY DEF LibraryNext, vars
  <2> QED BY <2>1, NextRegistry
<1>3. Inv => NamesFound
  BY FindsExactlyHolds, FindsMountHolds DEF NamesFound
<1> QED BY <1>1, <1>2, <1>3, PTL DEF LibrarySpec

-----------------------------------------------------------------------------
(* The time of day. *)

(* Whole seconds may be carried from one field to the other.               *)
LEMMA Carried ==
  ASSUME NEW b \in Nat \ {0}, NEW u \in Int, NEW j \in Int
  PROVE  (u + b * j) \div b = u \div b + j /\ (u + b * j) % b = u % b
<1> DEFINE q == u \div b
           r == u % b
           x == u + b * j
           p == q + j
<1>1. q \in Int /\ r \in 0 .. b - 1 /\ u = b * q + r
  BY Division
<1> HIDE DEF q, r
<1>2. x = b * p + r /\ p \in Int /\ x \in Int
  BY <1>1
<1> HIDE DEF x, p
<1>3. x \div b = p /\ x % b = r
  BY <1>1, <1>2, DivisionUnique
<1> QED BY <1>3 DEF x, p, q, r

(* The ticks of unfinished seconds, and those of whole ones.               *)
LEMMA TicksSplit ==
  ASSUME NEW n \in Nat, NEW R \in Nat \ {0}, NEW D \in Nat \ {0},
         NEW q \in Int, NEW r \in 0 .. R - 1, n = R * q + r
  PROVE  (n * D) % (R * D) = r * D /\ n * D = (R * D) * q + r * D
         /\ r * D \in 0 .. R * D - 1
<1> DEFINE s == r * D
           U == R * D
           x == n * D
<1>1. x = U * q + s
  BY SMTT(30)
<1>2. U \in Nat \ {0} /\ x \in Int /\ s \in Int
  BY SMTT(30)
<1>3. s \in 0 .. U - 1
  <2>1. r * D >= 0 /\ r * D <= (R - 1) * D
    BY SMTT(30)
  <2>2. (R - 1) * D = U - D
    BY SMTT(30)
  <2> QED BY <2>1, <2>2
<1> HIDE DEF s, U, x
<1>4. x % U = s
  BY <1>1, <1>2, <1>3, DivisionUnique
<1> QED BY <1>1, <1>3, <1>4 DEF x, s, U

LEMMA SameTime ==
  ASSUME NEW b \in Nat \ {0}, NEW s1 \in Int, NEW u1 \in Int, NEW s2 \in Int, NEW u2 \in Int,
         b * s1 + u1 = b * s2 + u2
  PROVE  s1 + (u1 \div b) = s2 + (u2 \div b) /\ u1 % b = u2 % b
<1> DEFINE j == s2 - s1
<1>1. j \in Int /\ u1 = u2 + b * j
  BY SMTT(30)
<1> HIDE DEF j
<1>2. u1 \div b = (u2 \div b) + j /\ u1 % b = u2 % b
  BY <1>1, Carried
<1> DEFINE v == u2 \div b
<1>3. v \in Int /\ u1 \div b = v + j
  BY <1>2, Division
<1> HIDE DEF v
<1>4. s1 + (v + j) = s2 + v
  BY <1>3 DEF j
<1> QED BY <1>2, <1>3, <1>4, Zenon DEF v

D == ALT_US \div Rate

(* What the offset stands for: the time given less the ticks before it.    *)
OffsetInv ==
  given # NoTime /\ given.at * D < ClockWord =>
    /\ alt_resettime.sec = given.time.sec - (given.at \div Rate)
    /\ alt_resettime.usec = given.time.usec - Fraction(given.at)

CInv ==
  /\ ClockTypeOK
  /\ tick_rate = 0 => nticks = 0
  /\ given # NoTime => given.time.sec \in Nat /\ given.time.usec \in 0 .. ALT_US - 1
  /\ OffsetInv

LEMMA TickLength == /\ Rate \in Nat \ {0} /\ D \in Nat \ {0} /\ ALT_US = Rate * D
                    /\ ALT_US \in Nat \ {0} /\ ClockWord \in Nat \ {0}
<1>1. Rate \in Nat \ {0} /\ ALT_US \in Nat \ {0} /\ ClockWord \in Nat \ {0}
      /\ ALT_US % Rate = 0
  BY TimeAssumption
<1>2. D \in Int /\ ALT_US = Rate * D + 0
  BY <1>1, Division DEF D
<1> HIDE DEF D
<1>3. ALT_US = Rate * D
  BY <1>1, <1>2
<1>4. D > 0
  <2>1. D <= 0 => Rate * D <= 0
    BY <1>1, <1>2, SMTT(30)
  <2> QED BY <1>1, <1>2, <1>3, <2>1
<1> QED BY <1>1, <1>2, <1>3, <1>4

(* Both ways to the microseconds agree while the product fits in a word.   *)
LEMMA SameFraction ==
  ASSUME NEW n \in Nat
  PROVE  /\ Fraction(n) = (n * D) % ALT_US
         /\ n * D < ClockWord => FractionSet(n) = Fraction(n)
         /\ Fraction(n) \in 0 .. ALT_US - 1 /\ FractionSet(n) \in 0 .. ALT_US - 1
<1> DEFINE u == n * D
<1>1. u \in Nat
  BY TickLength
<1>2. Fraction(n) = u % ALT_US /\ FractionSet(n) = (u % ClockWord) % ALT_US
  BY DEF Fraction, FractionSet, D
<1> HIDE DEF u
<1>3. u < ClockWord => u % ClockWord = u
  BY <1>1, TickLength
<1>4. u % ClockWord \in Int
  BY <1>1, TickLength, Division
<1> DEFINE k == u % ClockWord
<1> HIDE DEF k
<1>5. u % ALT_US \in 0 .. ALT_US - 1 /\ k % ALT_US \in 0 .. ALT_US - 1
  <2>1. u \in Int /\ k \in Int /\ ALT_US \in Nat \ {0}
    BY <1>1, <1>4, TickLength DEF k
  <2> QED BY <2>1, Division
<1> QED BY <1>2, <1>3, <1>5, Zenon DEF u, k

(* The two ways to the time: the offset, which borrows what the ticks had  *)
(* made up when the time was set, and the ticks since.                     *)
LEMMA Elapsed ==
  ASSUME NEW n \in Nat, NEW at \in 0 .. n, NEW gs \in Nat, NEW gu \in Nat
  PROVE  Normal(gs - (at \div Rate) + (n \div Rate), gu - Fraction(at) + Fraction(n))
           = Normal(gs, gu + (n - at) * D)
<1> DEFINE ad == at * D
           nd == n * D
           f == ad % ALT_US
           g == nd % ALT_US
           p == at \div Rate
           q == n \div Rate
           u1 == gu - f + g
           s1 == gs - p + q
           u2 == gu + (nd - ad)
<1>0. Rate \in Nat \ {0} /\ D \in Nat \ {0} /\ ALT_US = Rate * D /\ ALT_US \in Nat \ {0}
  BY TickLength
<1>1. at \in Nat /\ p \in Int /\ q \in Int
  BY <1>0, Division
<1>2. ad = ALT_US * p + f /\ f \in 0 .. ALT_US - 1
  <2> DEFINE r == at % Rate
  <2>1. r \in 0 .. Rate - 1 /\ at = Rate * p + r
    BY <1>0, <1>1, Division
  <2> HIDE DEF p, r
  <2>2. /\ (at * D) % (Rate * D) = r * D /\ at * D = (Rate * D) * p + r * D
        /\ r * D \in 0 .. Rate * D - 1
    BY <1>0, <1>1, <2>1, TicksSplit, ZenonT(60)
  <2> QED BY <1>0, <2>2, Zenon
<1>3. nd = ALT_US * q + g /\ g \in 0 .. ALT_US - 1
  <2> DEFINE r == n % Rate
  <2>1. r \in 0 .. Rate - 1 /\ n = Rate * q + r
    BY <1>0, Division
  <2> HIDE DEF q, r
  <2>2. /\ (n * D) % (Rate * D) = r * D /\ n * D = (Rate * D) * q + r * D
        /\ r * D \in 0 .. Rate * D - 1
    BY <1>0, <1>1, <2>1, TicksSplit
  <2> QED BY <1>0, <2>2, Zenon
<1>4. nd >= ad /\ u2 \in Nat
  BY <1>0, <1>1, SMTT(30)
<1> HIDE DEF f, g, p, q, u2
<1>5. ALT_US * s1 = ALT_US * gs - ALT_US * p + ALT_US * q
  BY <1>0, <1>1, SMTT(30)
<1>6. ALT_US * s1 + u1 = ALT_US * gs + u2
  <2>1. ALT_US * p \in Int /\ ALT_US * q \in Int /\ ALT_US * gs \in Int
    BY <1>0, <1>1
  <2> DEFINE up == ALT_US * p
             uq == ALT_US * q
             ug == ALT_US * gs
             us == ALT_US * s1
  <2>2. /\ up \in Int /\ uq \in Int /\ ug \in Int /\ ad \in Int /\ nd \in Int
        /\ us = ug - up + uq /\ ad = up + f /\ nd = uq + g /\ u2 = gu + (nd - ad)
        /\ f \in Int /\ g \in Int
    BY <1>0, <1>1, <1>2, <1>3, <1>4, <1>5, <2>1 DEF u2
  <2> HIDE DEF up, uq, ug, us
  <2>3. us + (gu - f + g) = ug + u2
    BY <2>2
  <2> QED BY <2>3 DEF us, ug
<1>7. s1 \in Int /\ u1 \in Int /\ u2 \in Int /\ gs \in Int
  BY <1>0, <1>1, <1>2, <1>3, <1>4
<1> HIDE DEF s1, u1
<1>8. s1 + (u1 \div ALT_US) = gs + (u2 \div ALT_US) /\ u1 % ALT_US = u2 % ALT_US
  BY <1>0, <1>1, <1>6, <1>7, SameTime, SMTT(30)
<1>9. gs + (u2 \div ALT_US) >= 0 /\ gs + (u2 \div ALT_US) \in Int
  <2>1. u2 \div ALT_US \in Int /\ u2 \div ALT_US >= 0
    BY <1>0, <1>1, <1>4
  <2> QED BY <2>1
<1>10. Normal(s1, u1) = Normal(gs, u2)
  <2> DEFINE w == gs + (u2 \div ALT_US)
  <2>1. ~(w < 0)
    BY <1>9
  <2>2. Normal(s1, u1) = Time(w, u2 % ALT_US) /\ Normal(gs, u2) = Time(w, u2 % ALT_US)
    BY <1>8, <2>1, Zenon DEF Normal
  <2> QED BY <2>2
<1>11. f = Fraction(at) /\ g = Fraction(n)
  BY <1>1, SameFraction DEF f, g
<1>12. u2 = gu + (n - at) * D
  BY <1>0, <1>1, SMTT(30) DEF u2
<1> QED BY <1>10, <1>11, <1>12, Zenon DEF u1, s1, p, q

LEMMA InitCInv == ClockInit => CInv
<1> SUFFICES ASSUME ClockInit PROVE CInv
  OBVIOUS
<1>1. given.at = 0 /\ given.time = Time(0, 0) /\ alt_resettime = Time(0, 0)
      /\ tick_rate = 0 /\ nticks = 0
  BY DEF ClockInit
<1>2. Fraction(0) = 0 /\ 0 \div Rate = 0
  <2>1. 0 * D = 0 /\ 0 % ALT_US = 0 /\ 0 \div Rate = 0
    BY TickLength
  <2> QED BY <2>1, SameFraction
<1>3. ClockTypeOK
  BY <1>1, TickLength DEF ClockTypeOK, Time
<1> QED BY <1>1, <1>2, <1>3, TickLength DEF CInv, OffsetInv, Time

LEMMA NextCInv == CInv /\ [ClockNext]_clockvars => CInv'
<1> SUFFICES ASSUME CInv, [ClockNext]_clockvars PROVE CInv'
  OBVIOUS
<1>0. ClockTypeOK /\ OffsetInv /\ nticks \in Nat
  BY DEF CInv, ClockTypeOK
<1>1. CASE UNCHANGED clockvars
  BY <1>1 DEF CInv, ClockTypeOK, OffsetInv, Fraction, clockvars
<1>2. CASE ClockRegisters
  BY <1>2, TickLength DEF CInv, ClockTypeOK, OffsetInv, Fraction, ClockRegisters
<1>3. CASE ClockTick
  <2>1. /\ nticks' \in 0 .. ClockWord - 1 /\ nticks' \in {0, nticks + 1}
        /\ tick_rate' = tick_rate /\ tick_rate # 0 /\ alt_resettime' = alt_resettime
        /\ nticks' = 0 => given' = NoTime
        /\ nticks' # 0 => given' = given
    BY <1>0, <1>3, TickLength DEF ClockTick, ClockTypeOK
  <2>2. CASE nticks' = 0
    BY <1>0, <2>1, <2>2 DEF CInv, ClockTypeOK, OffsetInv
  <2>3. CASE nticks' = nticks + 1
    BY <1>0, <2>1, <2>3 DEF CInv, ClockTypeOK, OffsetInv, Fraction
  <2> QED BY <2>1, <2>2, <2>3
<1>4. ASSUME NEW sec \in Seconds, NEW usec \in 0 .. ALT_US - 1, SetTimeOfDay(Time(sec, usec))
      PROVE  CInv'
  <2>1. sec \in Nat /\ tick_rate = Rate /\ nticks \in Nat /\ nticks \div Rate \in Int
    <3>1. tick_rate = Rate
      BY <1>0, <1>4 DEF SetTimeOfDay, ClockTypeOK
    <3> QED BY <1>0, <3>1, TimeAssumption, TickLength, Division
  <2>2. /\ tick_rate' = Rate /\ nticks' = nticks
        /\ alt_resettime' = Time(sec - (nticks \div Rate), usec - FractionSet(nticks))
        /\ given' = [time |-> Time(sec, usec), at |-> nticks]
    BY <1>4, <2>1 DEF SetTimeOfDay, Time
  <2>3. FractionSet(nticks) \in 0 .. ALT_US - 1
        /\ (nticks * D < ClockWord => FractionSet(nticks) = Fraction(nticks))
    BY <2>1, SameFraction
  <2>4. /\ given'.at = nticks /\ given'.time.sec = sec /\ given'.time.usec = usec
        /\ alt_resettime'.sec = sec - (nticks \div Rate)
        /\ alt_resettime'.usec = usec - FractionSet(nticks)
    BY <2>2 DEF Time
  <2>5. ClockTypeOK'
    BY <1>0, <2>1, <2>2, <2>3, <2>4, TickLength DEF ClockTypeOK
  <2>6. OffsetInv'
    BY <2>3, <2>4 DEF OffsetInv, Fraction
  <2> QED BY <2>1, <2>2, <2>4, <2>5, <2>6, TickLength DEF CInv
<1> QED BY <1>1, <1>2, <1>3, <1>4 DEF ClockNext

LEMMA CInvAgrees == CInv => TimeAgrees
<1> SUFFICES ASSUME CInv, tick_rate # 0, given # NoTime, given.at * D < ClockWord
             PROVE  GetTimeOfDay = Normal(given.time.sec, given.time.usec + (nticks - given.at) * D)
  BY DEF TimeAgrees, Times, D
<1>1. /\ nticks \in Nat /\ given.at \in 0 .. nticks /\ given.time.sec \in Nat
      /\ given.time.usec \in Nat /\ tick_rate = Rate /\ tick_rate # 0
  BY DEF CInv, ClockTypeOK
<1>2. /\ alt_resettime.sec = given.time.sec - (given.at \div Rate)
      /\ alt_resettime.usec = given.time.usec - Fraction(given.at)
  BY DEF CInv, OffsetInv
<1>3. GetTimeOfDay = Normal(given.time.sec - (given.at \div Rate) + (nticks \div Rate),
                            given.time.usec - Fraction(given.at) + Fraction(nticks))
  BY <1>1, <1>2, Zenon DEF GetTimeOfDay
<1> QED BY <1>1, <1>3, Elapsed, Zenon

(* gettimeofday() answers the time last set plus the time of the ticks     *)
(* since, for every tick rate that divides a second and every order of     *)
(* calls and ticks, while the product of settimeofday fits in a word and   *)
(* the counter has not rolled over (alt_gettod.c, alt_settod.c).           *)
THEOREM TimeOfDayKept == LibrarySpec => []TimeKept
<1> DEFINE Inv == part = "time" => CInv
<1>1. LibraryInit => Inv
  BY InitCInv DEF LibraryInit
<1>2. Inv /\ [LibraryNext]_vars => Inv'
  <2> SUFFICES ASSUME Inv, [LibraryNext]_vars, part' = "time" PROVE CInv'
    OBVIOUS
  <2>1. part = "time" /\ [ClockNext]_clockvars
    BY DEF LibraryNext, vars
  <2> QED BY <2>1, NextCInv
<1>3. Inv => TimeKept
  BY CInvAgrees DEF TimeKept, CInv
<1> QED BY <1>1, <1>2, <1>3, PTL DEF LibrarySpec

-----------------------------------------------------------------------------
(* The debug log. *)

LogTypeOK ==
  /\ space \in 0 .. Space
  /\ left \in [Writer -> Nat]
  /\ ready \in [Writer -> BOOLEAN]
  /\ logged \in Seq(Writer \X Nat)
  /\ lost \in [Writer -> Nat]
  /\ made \in [Writer -> Nat]
  /\ ticks \in Nat /\ alt_log_sys_clk_count \in 0 .. Interval
  /\ alt_system_clock_in_sec \in Nat

(* Whose characters they are; a full UART costs the program a character    *)
(* only if a handler came after the program's test.                        *)
LossInv ==
  /\ \A p \in Writer : ready[p] => left[p] > 0
  /\ ready["handler"] => space > 0
  /\ lost["handler"] = 0
  /\ lost["program"] <= made["handler"]
  /\ ready["program"] /\ (space = 0 \/ left["handler"] > 0) =>
       lost["program"] + 1 <= made["handler"]

Of(p) == {i \in DOMAIN logged : logged[i][1] = p}

CountInv == \A p \in Writer : Cardinality(Of(p)) + lost[p] + left[p] = made[p] * Length

(* Messages are numbered as they are made, and while the handler's is not  *)
(* at its end nothing else is put behind what there is of it.              *)
OrderInv ==
  /\ \A i \in DOMAIN logged : logged[i][2] <= made[logged[i][1]]
  /\ left["handler"] > 0 =>
       \A i \in DOMAIN logged : logged[i] = <<"handler", made["handler"]>> =>
         \A k \in i .. Len(logged) : logged[k] = logged[i]

LInv == LogTypeOK /\ LossInv /\ CountInv /\ OrderInv /\ HandlerMessagesWhole /\ HeartbeatPeriod

LEMMA InitLInv == LogInit => LInv
<1> SUFFICES ASSUME LogInit PROVE LInv
  OBVIOUS
<1>1. LogTypeOK /\ LossInv
  BY LogAssumption DEF LogInit, LogTypeOK, LossInv, Writer
<1>2. \A p \in Writer : Cardinality(Of(p)) = 0
  BY FS_EmptySet DEF LogInit, Of
<1>3. CountInv
  BY <1>2, LogAssumption DEF LogInit, CountInv
<1>4. OrderInv /\ HandlerMessagesWhole
  BY DEF LogInit, OrderInv, HandlerMessagesWhole
<1>5. HeartbeatPeriod
  BY LogAssumption DEF LogInit, HeartbeatPeriod
<1> QED BY <1>1, <1>3, <1>4, <1>5 DEF LInv

LEMMA OfFinite ==
  ASSUME LogTypeOK, NEW p
  PROVE  IsFiniteSet(Of(p)) /\ Cardinality(Of(p)) \in Nat
<1>1. DOMAIN logged = 1 .. Len(logged) /\ Len(logged) \in Nat
  BY DEF LogTypeOK
<1>2. IsFiniteSet(DOMAIN logged)
  BY <1>1, FS_Interval
<1>3. Of(p) \in SUBSET DOMAIN logged
  BY DEF Of
<1>4. IsFiniteSet(Of(p))
  BY <1>2, <1>3, FS_Subset
<1> QED BY <1>4, FS_CardinalityType

(* A message is begun: by the program only while no handler has one.       *)
LEMMA BeginLInv ==
  ASSUME LInv, NEW p \in Writer, left[p] = 0, p = "program" => left["handler"] = 0,
         Begin(p), UNCHANGED <<level, space, ready, logged, lost>>
  PROVE  (LossInv /\ CountInv /\ OrderInv /\ HandlerMessagesWhole)'
<1>1. Length \in Nat \ {0} /\ p \in {"program", "handler"} /\ LogTypeOK
  BY LogAssumption DEF LInv, Writer
<1>2. /\ left' = [left EXCEPT ![p] = Length] /\ made' = [made EXCEPT ![p] = made[p] + 1]
      /\ left' \in [Writer -> Nat] /\ made' \in [Writer -> Nat]
  BY <1>1 DEF Begin, LogTypeOK
<1>3. LossInv'
  BY <1>1, <1>2 DEF LInv, LossInv, LogTypeOK, Writer
<1>4. CountInv'
  <2> SUFFICES ASSUME NEW q \in Writer
               PROVE  Cardinality(Of(q)) + lost[q] + left'[q] = made'[q] * Length
    BY DEF CountInv, Of
  <2>1. Cardinality(Of(q)) + lost[q] + left[q] = made[q] * Length
    BY DEF LInv, CountInv
  <2>2. CASE q # p
    BY <1>1, <1>2, <2>1, <2>2 DEF LogTypeOK
  <2>3. CASE q = p
    <3>1. made'[q] = made[q] + 1 /\ left'[q] = Length /\ left[q] = 0
          /\ made[q] \in Nat /\ lost[q] \in Nat
      BY <1>1, <1>2, <2>3 DEF LogTypeOK
    <3>2. (made[q] + 1) * Length = made[q] * Length + Length /\ made[q] * Length \in Nat
      BY <1>1, <3>1
    <3>3. Cardinality(Of(q)) + lost[q] = made[q] * Length
      <4>1. Cardinality(Of(q)) \in Nat
        BY <1>1, OfFinite
      <4> QED BY <2>1, <3>1, <4>1
    <3> QED BY <3>1, <3>2, <3>3
  <2> QED BY <2>2, <2>3
<1>5. OrderInv' /\ HandlerMessagesWhole'
  <2>1. \A i \in DOMAIN logged : /\ logged[i] \in Writer \X Nat
                                /\ logged[i][1] \in Writer /\ logged[i][2] \in Nat
    BY <1>1 DEF LogTypeOK
  <2>2. \A i \in DOMAIN logged : logged[i][2] <= made[logged[i][1]]
    BY DEF LInv, OrderInv
  <2>3. \A i \in DOMAIN logged : logged[i][2] <= made'[logged[i][1]]
    BY <1>1, <1>2, <2>1, <2>2 DEF LogTypeOK
  <2>4. \A i \in DOMAIN logged : logged[i] # <<p, made'[p]>>
    <3> SUFFICES ASSUME NEW i \in DOMAIN logged, logged[i] = <<p, made'[p]>> PROVE FALSE
      OBVIOUS
    <3>1. made'[p] = made[p] + 1 /\ made[p] \in Nat
      BY <1>1, <1>2 DEF LogTypeOK
    <3>2. logged[i][2] = made'[p] /\ logged[i][1] = p
      OBVIOUS
    <3> QED BY <2>2, <3>1, <3>2
  <2>5. left'["handler"] > 0 =>
          \A i \in DOMAIN logged : logged[i] = <<"handler", made'["handler"]>> =>
            \A k \in i .. Len(logged) : logged[k] = logged[i]
    <3>1. CASE p = "handler"
      BY <2>4, <3>1
    <3>2. CASE p = "program"
      BY <1>1, <1>2, <3>2 DEF LogTypeOK
    <3> QED BY <1>1, <3>1, <3>2
  <2> QED BY <2>3, <2>5 DEF LInv, OrderInv, HandlerMessagesWhole
<1> QED BY <1>3, <1>4, <1>5
(* A character is put, or lost.                                            *)
LEMMA PutLInv ==
  ASSUME LInv, NEW p \in Writer, PutChar(p)
  PROVE  LInv'
<1>1. /\ Length \in Nat \ {0} /\ p \in {"program", "handler"} /\ LogTypeOK
      /\ LossInv /\ CountInv /\ OrderInv /\ Space \in Nat \ {0}
  BY LogAssumption DEF LInv, Writer
<1>2. /\ left[p] > 0 /\ ready[p] /\ (p = "program" => left["handler"] = 0)
      /\ ready' = [ready EXCEPT ![p] = FALSE] /\ left' = [left EXCEPT ![p] = left[p] - 1]
      /\ ready' \in [Writer -> BOOLEAN] /\ left' \in [Writer -> Nat]
      /\ made' = made /\ made[p] \in Nat /\ lost[p] \in Nat /\ left[p] \in Nat
      /\ ticks' = ticks /\ alt_log_sys_clk_count' = alt_log_sys_clk_count
      /\ alt_system_clock_in_sec' = alt_system_clock_in_sec /\ level' = level
  BY <1>1 DEF PutChar, LogTypeOK, clock
<1>3. HeartbeatPeriod'
  BY <1>2 DEF LInv, HeartbeatPeriod
<1> DEFINE n == Len(logged)
<1>4. n \in Nat /\ DOMAIN logged = 1 .. n
  BY <1>1 DEF LogTypeOK
<1>5. CASE space > 0
  <2>1. /\ space' = space - 1 /\ logged' = Append(logged, <<p, made[p]>>) /\ lost' = lost
        /\ space' \in 0 .. Space
    BY <1>1, <1>5 DEF PutChar, LogTypeOK
  <2>2. /\ logged' \in Seq(Writer \X Nat) /\ Len(logged') = n + 1 /\ DOMAIN logged' = 1 .. n + 1
        /\ \A i \in DOMAIN logged : logged'[i] = logged[i]
        /\ logged'[n + 1] = <<p, made[p]>>
    BY <1>1, <1>2, <2>1 DEF LogTypeOK
  <2>3. LogTypeOK'
    BY <1>1, <1>2, <2>1, <2>2 DEF LogTypeOK
  <2>4. LossInv'
    BY <1>1, <1>2, <2>1 DEF LossInv, LogTypeOK, Writer
  <2>5. CountInv'
    <3> SUFFICES ASSUME NEW q \in Writer
                 PROVE  Cardinality(Of(q)') + lost[q] + left'[q] = made[q] * Length
      BY <1>2, <2>1 DEF CountInv, Of
    <3>1. Cardinality(Of(q)) + lost[q] + left[q] = made[q] * Length
      BY <1>1 DEF CountInv
    <3>2. IsFiniteSet(Of(q)) /\ Cardinality(Of(q)) \in Nat
      BY <1>1, OfFinite
    <3>3. CASE q # p
      <4>1. Of(q)' = Of(q)
        BY <1>4, <2>2, <3>3 DEF Of
      <4> QED BY <1>1, <1>2, <3>1, <3>3, <4>1 DEF LogTypeOK
    <3>4. CASE q = p
      <4>1. Of(q)' = Of(q) \cup {n + 1} /\ n + 1 \notin Of(q)
        BY <1>4, <2>2, <3>4 DEF Of
      <4>2. Cardinality(Of(q)') = Cardinality(Of(q)) + 1
        BY <3>2, <4>1, FS_AddElement
      <4>3. left'[q] = left[q] - 1 /\ lost[q] \in Nat /\ left[q] \in Nat
        BY <1>1, <1>2, <3>4 DEF LogTypeOK
      <4> QED BY <3>1, <3>2, <4>2, <4>3
    <3> QED BY <3>3, <3>4
  <2>6. \A i \in DOMAIN logged : logged[i][2] <= made[logged[i][1]]
    BY <1>1 DEF OrderInv
  <2>7. p = "program" => left'["handler"] = 0
    BY <1>1, <1>2 DEF LogTypeOK
  <2>8. OrderInv'
    <3>1. \A i \in DOMAIN logged' : logged'[i][2] <= made'[logged'[i][1]]
      BY <1>2, <1>4, <2>2, <2>6, SMTT(30)
    <3>2. left["handler"] > 0 =>
            \A i \in DOMAIN logged : logged[i] = <<"handler", made["handler"]>> =>
              \A k \in i .. n : logged[k] = logged[i]
      BY <1>1 DEF OrderInv
    <3>3. ASSUME p = "handler", NEW i \in 1 .. n + 1, logged'[i] = <<"handler", made["handler"]>>,
                 NEW k \in i .. n + 1
          PROVE  logged'[k] = logged'[i]
      <4>1. CASE k = n + 1
        BY <2>2, <3>3, <4>1
      <4>2. CASE k \in 1 .. n
        <5>1. left["handler"] > 0
          BY <1>2, <3>3
        <5>2. i \in 1 .. n /\ k \in i .. n
          BY <1>4, <4>2
        <5>3. logged'[i] = logged[i] /\ logged'[k] = logged[k]
          BY <1>4, <2>2, <4>2, <5>2
        <5> QED BY <1>4, <3>2, <3>3, <5>1, <5>2, <5>3
      <4> QED BY <1>4, <4>1, <4>2
    <3>4. left'["handler"] > 0 => p = "handler"
      BY <1>1, <2>7
    <3> QED BY <1>2, <2>2, <3>1, <3>3, <3>4 DEF OrderInv
  <2>10. \A i \in 1 .. n : logged'[i] = logged[i]
    BY <1>4, <2>2
  <2>9. HandlerMessagesWhole'
    <3>1. ASSUME NEW i \in 1 .. n + 1, NEW j \in 1 .. n + 1, i < j, logged'[i] = logged'[j],
                 logged'[i][1] = "handler", NEW k \in i .. j
          PROVE  logged'[k] = logged'[i]
      <4>1. CASE j \in 1 .. n
        <5>1. i \in 1 .. n /\ k \in 1 .. n /\ logged'[i] = logged[i] /\ logged'[j] = logged[j]
              /\ logged'[k] = logged[k]
          <6>1. i \in 1 .. n /\ k \in 1 .. n
            BY <1>4, <3>1, <4>1
          <6> QED BY <2>10, <4>1, <6>1
        <5>2. logged[k] = logged[i]
          BY <1>4, <3>1, <4>1, <5>1 DEF LInv, HandlerMessagesWhole
        <5> QED BY <5>1, <5>2
      <4>2. CASE j = n + 1
        <5>1. p = "handler" /\ logged[i] = <<"handler", made["handler"]>> /\ i \in 1 .. n
          BY <1>4, <2>2, <3>1, <4>2
        <5>2. \A l \in i .. n : logged[l] = logged[i]
          BY <1>1, <1>2, <1>4, <5>1 DEF OrderInv
        <5>3. CASE k = n + 1
          BY <3>1, <4>2, <5>3
        <5>4. CASE k \in i .. n
          <6>1. logged'[k] = logged[k] /\ logged'[i] = logged[i]
            <7>1. k \in 1 .. n
              BY <1>4, <5>1, <5>4
            <7> QED BY <2>10, <5>1, <7>1
          <6> QED BY <5>2, <5>4, <6>1
        <5>5. k = n + 1 \/ k \in i .. n
          BY <1>4, <4>2, <5>1
        <5> QED BY <5>3, <5>4, <5>5
      <4> QED BY <1>4, <3>1, <4>1, <4>2
    <3>2. ASSUME NEW i \in 1 .. n + 1, NEW j \in 1 .. n + 1, i < j,
                 logged'[i][1] = logged'[j][1]
          PROVE  logged'[i][2] <= logged'[j][2]
      <4>1. i \in 1 .. n
        BY <1>4, <3>2
      <4>2. CASE j \in 1 .. n
        BY <1>4, <2>2, <3>2, <4>1, <4>2 DEF LInv, HandlerMessagesWhole
      <4>3. CASE j = n + 1
        <5>1. logged'[i] = logged[i] /\ logged'[j] = <<p, made[p]>>
          BY <1>4, <2>2, <4>1, <4>3
        <5>2. logged[i][1] = p /\ logged'[j][2] = made[p]
          BY <3>2, <5>1
        <5> QED BY <1>4, <2>6, <4>1, <5>1, <5>2
      <4> QED BY <1>4, <4>2, <4>3
    <3> QED BY <2>2, <3>1, <3>2 DEF HandlerMessagesWhole
  <2> QED BY <1>3, <2>3, <2>4, <2>5, <2>8, <2>9 DEF LInv
<1>6. CASE ~(space > 0)
  <2>1. /\ space' = space /\ space = 0 /\ logged' = logged
        /\ lost' = [lost EXCEPT ![p] = lost[p] + 1] /\ lost' \in [Writer -> Nat]
    BY <1>1, <1>6 DEF PutChar, LogTypeOK
  <2>2. p = "program"
    BY <1>1, <1>2, <2>1 DEF LossInv
  <2>3. LogTypeOK'
    BY <1>1, <1>2, <2>1 DEF LogTypeOK
  <2>4. LossInv'
    BY <1>1, <1>2, <2>1, <2>2 DEF LossInv, LogTypeOK, Writer
  <2>5. CountInv'
    <3> SUFFICES ASSUME NEW q \in Writer
                 PROVE  Cardinality(Of(q)) + lost'[q] + left'[q] = made[q] * Length
      BY <1>2, <2>1 DEF CountInv, Of
    <3>1. Cardinality(Of(q)) + lost[q] + left[q] = made[q] * Length
      BY <1>1 DEF CountInv
    <3>2. Cardinality(Of(q)) \in Nat
      BY <1>1, OfFinite
    <3>3. lost'[q] + left'[q] = lost[q] + left[q] /\ lost'[q] \in Nat /\ left'[q] \in Nat
          /\ lost[q] \in Nat /\ left[q] \in Nat
      BY <1>1, <1>2, <2>1 DEF LogTypeOK
    <3> QED BY <3>1, <3>2, <3>3
  <2>6. OrderInv' /\ HandlerMessagesWhole'
    BY <1>1, <1>2, <2>1, <2>2 DEF LInv, LogTypeOK, OrderInv, HandlerMessagesWhole, Writer
  <2> QED BY <1>3, <2>3, <2>4, <2>5, <2>6 DEF LInv
<1> QED BY <1>5, <1>6

LEMMA NextLInv == LInv /\ [LogNext]_logvars => LInv'
<1> SUFFICES ASSUME LInv, [LogNext]_logvars PROVE LInv'
  OBVIOUS
<1>0. /\ {Length, Interval, Space} \subseteq Nat \ {0} /\ LogTypeOK /\ LossInv /\ CountInv
      /\ OrderInv /\ HandlerMessagesWhole /\ HeartbeatPeriod
      /\ "handler" \in Writer /\ "program" \in Writer
  BY LogAssumption DEF LInv, Writer
<1>1. ASSUME NEW p \in Writer, Begin(p)
      PROVE  left' \in [Writer -> Nat] /\ made' \in [Writer -> Nat]
  BY <1>0, <1>1, SMTT(30) DEF Begin, LogTypeOK
<1>2. CASE UNCHANGED logvars
  BY <1>0, <1>2 DEF LInv, logvars, LogTypeOK, LossInv, CountInv, Of, OrderInv,
                    HandlerMessagesWhole, HeartbeatPeriod
<1>3. CASE ProgramLogs
  <2>1. /\ Begin("program") /\ left["program"] = 0 /\ left["handler"] = 0
        /\ UNCHANGED <<level, space, ready, logged, lost, clock>>
    BY <1>0, <1>3 DEF ProgramLogs
  <2>2. (LossInv /\ CountInv /\ OrderInv /\ HandlerMessagesWhole)'
    BY <1>0, <2>1, BeginLInv
  <2> QED BY <1>0, <1>1, <2>1, <2>2 DEF LInv, LogTypeOK, HeartbeatPeriod, clock
<1>4. CASE HandlerLogs
  <2>1. /\ Begin("handler") /\ left["handler"] = 0
        /\ UNCHANGED <<level, space, ready, logged, lost, clock>>
    BY <1>4 DEF HandlerLogs
  <2>2. (LossInv /\ CountInv /\ OrderInv /\ HandlerMessagesWhole)'
    BY <1>0, <2>1, BeginLInv
  <2> QED BY <1>0, <1>1, <2>1, <2>2 DEF LInv, LogTypeOK, HeartbeatPeriod, clock
<1>5. CASE alt_log_system_clock
  <2>1. /\ ticks' = ticks + 1 /\ UNCHANGED <<level, space, ready, logged, lost>>
        /\ left["handler"] = 0 /\ Interval \in Nat
        /\ ticks \in Nat /\ alt_log_sys_clk_count \in 0 .. Interval
        /\ alt_system_clock_in_sec \in Nat
    BY <1>0, <1>5 DEF alt_log_system_clock, LogTypeOK
  <2>2. CASE UNCHANGED <<left, made>> /\ ~SysClkOn(level)
             /\ UNCHANGED <<alt_log_sys_clk_count, alt_system_clock_in_sec>>
    BY <1>0, <2>1, <2>2 DEF LInv, LogTypeOK, LossInv, CountInv, Of, OrderInv,
                            HandlerMessagesWhole, HeartbeatPeriod
  <2>3. CASE /\ SysClkOn(level) /\ alt_log_sys_clk_count + 1 > Interval
             /\ alt_log_sys_clk_count' = 0
             /\ alt_system_clock_in_sec' = alt_system_clock_in_sec + 1
             /\ Begin("handler")
    <3>1. (LossInv /\ CountInv /\ OrderInv /\ HandlerMessagesWhole)'
      BY <1>0, <2>1, <2>3, BeginLInv
    <3>2. HeartbeatPeriod'
      <4> DEFINE sec == alt_system_clock_in_sec
                 I == Interval + 1
      <4>1. alt_log_sys_clk_count = Interval /\ sec \in Nat /\ I \in Nat
        BY <2>1, <2>3
      <4>2. (sec + 1) * I = sec * I + I /\ sec * I \in Nat
        BY <4>1
      <4>3. ticks = sec * I + Interval
        BY <1>0, <2>3, <4>1 DEF HeartbeatPeriod
      <4>4. ticks' = (sec + 1) * I + 0
        BY <2>1, <4>1, <4>2, <4>3
      <4> QED BY <2>3, <4>4 DEF HeartbeatPeriod
    <3> QED BY <1>0, <1>1, <2>1, <2>3, <3>1, <3>2 DEF LInv, LogTypeOK
  <2>4. CASE /\ SysClkOn(level) /\ ~(alt_log_sys_clk_count + 1 > Interval)
             /\ alt_log_sys_clk_count' = alt_log_sys_clk_count + 1
             /\ UNCHANGED <<alt_system_clock_in_sec, left, made>>
    <3>1. HeartbeatPeriod'
      <4>1. alt_system_clock_in_sec * (Interval + 1) \in Nat
        BY <2>1
      <4> QED BY <1>0, <2>1, <2>4, <4>1 DEF HeartbeatPeriod
    <3> QED BY <1>0, <2>1, <2>4, <3>1 DEF LInv, LogTypeOK, LossInv, CountInv, Of, OrderInv,
                            HandlerMessagesWhole
  <2> QED BY <1>5, <2>2, <2>3, <2>4 DEF alt_log_system_clock
<1>6. ASSUME NEW p \in Writer, TestSpace(p) PROVE LInv'
  <2>1. /\ ready' = [ready EXCEPT ![p] = TRUE] /\ ready' \in [Writer -> BOOLEAN]
        /\ left[p] > 0 /\ space > 0 /\ (p = "program" => left["handler"] = 0)
        /\ UNCHANGED <<level, space, left, logged, lost, made, clock>>
    BY <1>0, <1>6 DEF TestSpace, LogTypeOK
  <2>2. LossInv'
    BY <1>0, <2>1 DEF LossInv, LogTypeOK, Writer
  <2> QED BY <1>0, <2>1, <2>2, SMTT(30) DEF LInv, LogTypeOK, CountInv, Of, OrderInv,
                            HandlerMessagesWhole, HeartbeatPeriod, clock
<1>7. CASE Drain
  <2>1. /\ space' = space + 1 /\ space' \in 0 .. Space /\ space \in Nat
        /\ UNCHANGED <<level, left, ready, logged, lost, made, clock>>
    BY <1>0, <1>7 DEF Drain, LogTypeOK
  <2>2. LossInv'
    BY <1>0, <2>1 DEF LossInv
  <2> QED BY <1>0, <2>1, <2>2 DEF LInv, LogTypeOK, CountInv, Of, OrderInv,
                            HandlerMessagesWhole, HeartbeatPeriod, clock
<1> QED BY <1>2, <1>3, <1>4, <1>5, <1>6, <1>7, PutLInv DEF LogNext

(* Between the test for space and the store a handler may come: what the   *)
(* debug log loses is one character of the program for each that did and   *)
(* none of a handler; handlers' messages stay whole and in order, and the  *)
(* heartbeat keeps its period, at every level, for messages of any length  *)
(* and a UART of any size (alt_log_printf.c:95-102, 464-476).              *)
THEOREM LogLosesLittle == LibrarySpec => []LogKept
<1> DEFINE Inv == part = "log" => LInv
<1>1. LibraryInit => Inv
  BY InitLInv DEF LibraryInit
<1>2. Inv /\ [LibraryNext]_vars => Inv'
  <2> SUFFICES ASSUME Inv, [LibraryNext]_vars, part' = "log" PROVE LInv'
    OBVIOUS
  <2>1. part = "log" /\ [LogNext]_logvars
    BY DEF LibraryNext, vars
  <2> QED BY <2>1, NextLInv
<1>3. Inv => LogKept
  BY DEF LogKept, LInv, LossInv, CountInv, Of, LossOnlyByInterrupt
<1> QED BY <1>1, <1>2, <1>3, PTL DEF LibrarySpec

-----------------------------------------------------------------------------
(* Start-up. *)

(* The calls up to those for the devices, and the program's.               *)
Booting == {"_start", "bss", "alt_load", "alt_irq_init"}
Opening == Booting \cup {"device", "register", "alarm", "alt_dev_reg", "alt_io_redirect"}
Closing == {"_do_ctors", "atexit", "main", "close", "exit", "stopped"}

(* The calls before alt_main's end, by themselves.                         *)
OpeningOf(b) ==
  <<"_start", "bss", "alt_load", "alt_irq_init">> \o DriverInit(b)
  \o If(~b.direct, "alt_dev_reg") \o If(~b.direct, "alt_io_redirect")

FirstCall(b) == IF b.cpp THEN "_do_ctors" ELSE "main"

(* Which call follows another.                                             *)
Following(b, s) ==
  CASE s = "_start"          -> "bss"
    [] s = "bss"             -> "alt_load"
    [] s = "alt_load"        -> "alt_irq_init"
    [] s = "alt_irq_init"    -> IF ~b.small THEN "device"
                                ELSE IF ~b.direct THEN "alt_dev_reg" ELSE FirstCall(b)
    [] s = "device"          -> "register"
    [] s = "register"        -> "alarm"
    [] s = "alarm"           -> IF ~b.direct THEN "alt_dev_reg" ELSE FirstCall(b)
    [] s = "alt_dev_reg"     -> "alt_io_redirect"
    [] s = "alt_io_redirect" -> FirstCall(b)
    [] s = "_do_ctors"       -> IF b.exit = "clean" THEN "atexit" ELSE "main"
    [] s = "atexit"          -> "main"
    [] s = "main"            -> IF b.exit = "never" THEN "stopped" ELSE "close"
    [] s = "close"           -> "exit"
    [] s = "exit"            -> "stopped"

(* The calls that a build makes.                                           *)
Occurs(b, s) ==
  /\ s \in Opening \cup Closing
  /\ s \in {"device", "register", "alarm"} => ~b.small
  /\ s \in {"alt_dev_reg", "alt_io_redirect"} => ~b.direct
  /\ s = "_do_ctors" => b.cpp
  /\ s = "atexit" => b.cpp /\ b.exit = "clean"
  /\ s \in {"close", "exit"} => b.exit # "never"

(* Concatenation, element by element.                                      *)
LEMMA Joined ==
  ASSUME NEW S, NEW s \in Seq(S), NEW t \in Seq(S)
  PROVE  /\ s \o t \in Seq(S) /\ Len(s) \in Nat /\ Len(t) \in Nat
         /\ DOMAIN s = 1 .. Len(s) /\ DOMAIN t = 1 .. Len(t)
         /\ Len(s \o t) = Len(s) + Len(t) /\ DOMAIN (s \o t) = 1 .. Len(s) + Len(t)
         /\ \A i \in 1 .. Len(s) : (s \o t)[i] = s[i]
         /\ \A i \in 1 .. Len(t) : (s \o t)[Len(s) + i] = t[i]
OBVIOUS

LEMMA SameSequence ==
  ASSUME NEW S, NEW s \in Seq(S), NEW t \in Seq(S), Len(s) = Len(t),
         \A i \in 1 .. Len(s) : s[i] = t[i]
  PROVE  s = t
OBVIOUS

LEMMA OpeningCalls ==
  ASSUME NEW b \in Build
  PROVE  LET s == OpeningOf(b)
         IN  /\ s \in Seq(Opening) /\ Len(s) >= 4
             /\ \A i, j \in DOMAIN s : s[i] = s[j] => i = j
             /\ \A i \in 1 .. Len(s) - 1 : s[i + 1] = Following(b, s[i])
             /\ Following(b, s[Len(s)]) = FirstCall(b)
             /\ \A n \in Opening : Occurs(b, n) => \E i \in DOMAIN s : s[i] = n
<1> DEFINE s0 == <<"_start", "bss", "alt_load", "alt_irq_init">>
           d == DriverInit(b)
           r == If(~b.direct, "alt_dev_reg")
           o == If(~b.direct, "alt_io_redirect")
           s1 == s0 \o d
           s2 == s1 \o r
           s == s2 \o o
<1>1. b.small \in BOOLEAN /\ b.direct \in BOOLEAN /\ OpeningOf(b) = s
  BY DEF Build, OpeningOf
<1>2. /\ s0 \in Seq(Opening) /\ Len(s0) = 4
      /\ s0[1] = "_start" /\ s0[2] = "bss" /\ s0[3] = "alt_load" /\ s0[4] = "alt_irq_init"
  BY DEF Opening, Booting
<1>3. /\ d \in Seq(Opening)
      /\ b.small => Len(d) = 0
      /\ ~b.small => Len(d) = 3 /\ d[1] = "device" /\ d[2] = "register" /\ d[3] = "alarm"
  <2>1. <<>> \in Seq(Opening) /\ <<"device", "register", "alarm">> \in Seq(Opening)
    BY DEF Opening
  <2> QED BY <2>1 DEF DriverInit
<1>4. /\ r \in Seq(Opening) /\ o \in Seq(Opening)
      /\ b.direct => Len(r) = 0 /\ Len(o) = 0
      /\ ~b.direct => /\ Len(r) = 1 /\ r[1] = "alt_dev_reg"
                      /\ Len(o) = 1 /\ o[1] = "alt_io_redirect"
  <2>1. /\ <<>> \in Seq(Opening)
        /\ <<"alt_dev_reg">> \in Seq(Opening) /\ <<"alt_io_redirect">> \in Seq(Opening)
    BY DEF Opening
  <2> QED BY <2>1 DEF If
<1> HIDE DEF s0, d, r, o
<1>5. /\ s1 \in Seq(Opening) /\ Len(s1) = Len(s0) + Len(d)
      /\ \A i \in 1 .. Len(s0) : s1[i] = s0[i]
      /\ \A i \in 1 .. Len(d) : s1[Len(s0) + i] = d[i]
  <2>1. s0 \in Seq(Opening) /\ d \in Seq(Opening)
    BY <1>2, <1>3
  <2> QED BY <2>1, Joined
<1> HIDE DEF s1
<1>6. /\ s2 \in Seq(Opening) /\ Len(s2) = Len(s1) + Len(r)
      /\ \A i \in 1 .. Len(s1) : s2[i] = s1[i]
      /\ \A i \in 1 .. Len(r) : s2[Len(s1) + i] = r[i]
  BY <1>4, <1>5, Joined
<1> HIDE DEF s2
<1>7. /\ s \in Seq(Opening) /\ Len(s) = Len(s2) + Len(o) /\ DOMAIN s = 1 .. Len(s)
      /\ \A i \in 1 .. Len(s2) : s[i] = s2[i]
      /\ \A i \in 1 .. Len(o) : s[Len(s2) + i] = o[i]
  BY <1>4, <1>6, Joined
<1> HIDE DEF s
<1>8. /\ \A i \in 1 .. 4 : s[i] = s0[i]
      /\ \A i \in 1 .. Len(d) : s[4 + i] = d[i]
      /\ \A i \in 1 .. Len(r) : s[4 + Len(d) + i] = r[i]
      /\ \A i \in 1 .. Len(o) : s[4 + Len(d) + Len(r) + i] = o[i]
      /\ Len(s) = 4 + Len(d) + Len(r) + Len(o)
  <2>1. Len(d) \in Nat /\ Len(r) \in Nat /\ Len(o) \in Nat
    BY <1>3, <1>4
  <2>2. \A i \in 1 .. 4 + Len(d) : s[i] = s1[i]
    BY <1>2, <1>5, <1>6, <1>7, <2>1
  <2>3. \A i \in 1 .. 4 + Len(d) + Len(r) : s[i] = s2[i]
    BY <1>2, <1>5, <1>6, <1>7, <2>1
  <2>4. /\ Len(s0) = 4 /\ Len(s1) = 4 + Len(d) /\ Len(s2) = 4 + Len(d) + Len(r)
        /\ Len(s) = 4 + Len(d) + Len(r) + Len(o)
    BY <1>2, <1>5, <1>6, <1>7
  <2>5. \A i \in 1 .. 4 : s[i] = s0[i]
    <3>1. \A i \in 1 .. 4 : i \in 1 .. 4 + Len(d)
      BY <2>1
    <3> QED BY <1>5, <2>2, <2>4, <3>1
  <2>6. \A i \in 1 .. Len(d) : s[4 + i] = d[i]
    <3>1. \A i \in 1 .. Len(d) : 4 + i \in 1 .. 4 + Len(d)
      BY <2>1
    <3> QED BY <1>5, <2>2, <2>4, <3>1
  <2>7. \A i \in 1 .. Len(r) : s[4 + Len(d) + i] = r[i]
    <3>1. \A i \in 1 .. Len(r) : 4 + Len(d) + i \in 1 .. 4 + Len(d) + Len(r)
      BY <2>1
    <3> QED BY <1>6, <2>3, <2>4, <3>1
  <2>8. \A i \in 1 .. Len(o) : s[4 + Len(d) + Len(r) + i] = o[i]
    BY <1>7, <2>4
  <2> QED BY <2>4, <2>5, <2>6, <2>7, <2>8
<1>9. CASE b.small /\ b.direct
  <2>1. /\ Len(s) = 4
        /\ s[1] = "_start" /\ s[2] = "bss" /\ s[3] = "alt_load"
        /\ s[4] = "alt_irq_init"
    BY <1>2, <1>3, <1>4, <1>8, <1>9
  <2> DEFINE u == <<"_start", "bss", "alt_load", "alt_irq_init">>
  <2>2. u \in Seq(Opening) /\ Len(u) = 4
    BY DEF Opening, Booting
  <2>3. \A i \in 1 .. Len(s) : s[i] = u[i]
    BY <2>1
  <2> HIDE DEF u
  <2>4. s = u
    BY <1>7, <2>1, <2>2, <2>3, SameSequence
  <2> QED BY <1>1, <1>7, <1>9, <2>4 DEF u, Following, FirstCall, Occurs, Opening, Booting
<1>10. CASE b.small /\ ~b.direct
  <2>1. /\ Len(s) = 6
        /\ s[1] = "_start" /\ s[2] = "bss" /\ s[3] = "alt_load"
        /\ s[4] = "alt_irq_init" /\ s[5] = "alt_dev_reg" /\ s[6] = "alt_io_redirect"
    BY <1>2, <1>3, <1>4, <1>8, <1>10
  <2> DEFINE u == <<"_start", "bss", "alt_load", "alt_irq_init", "alt_dev_reg",
                "alt_io_redirect">>
  <2>2. u \in Seq(Opening) /\ Len(u) = 6
    BY DEF Opening, Booting
  <2>3. \A i \in 1 .. Len(s) : s[i] = u[i]
    BY <2>1
  <2> HIDE DEF u
  <2>4. s = u
    BY <1>7, <2>1, <2>2, <2>3, SameSequence
  <2> QED BY <1>1, <1>7, <1>10, <2>4, SMTT(30) DEF u, Following, FirstCall, Occurs, Opening, Booting
<1>11. CASE ~b.small /\ b.direct
  <2>1. /\ Len(s) = 7
        /\ s[1] = "_start" /\ s[2] = "bss" /\ s[3] = "alt_load"
        /\ s[4] = "alt_irq_init" /\ s[5] = "device" /\ s[6] = "register"
        /\ s[7] = "alarm"
    BY <1>2, <1>3, <1>4, <1>8, <1>11
  <2> DEFINE u == <<"_start", "bss", "alt_load", "alt_irq_init", "device", "register",
                "alarm">>
  <2>2. u \in Seq(Opening) /\ Len(u) = 7
    BY DEF Opening, Booting
  <2>3. \A i \in 1 .. Len(s) : s[i] = u[i]
    BY <2>1
  <2> HIDE DEF u
  <2>4. s = u
    BY <1>7, <2>1, <2>2, <2>3, SameSequence
  <2> QED BY <1>1, <1>7, <1>11, <2>4, SMTT(30) DEF u, Following, FirstCall, Occurs, Opening, Booting
<1>12. CASE ~b.small /\ ~b.direct
  <2>1. /\ Len(s) = 9
        /\ s[1] = "_start" /\ s[2] = "bss" /\ s[3] = "alt_load"
        /\ s[4] = "alt_irq_init" /\ s[5] = "device" /\ s[6] = "register"
        /\ s[7] = "alarm" /\ s[8] = "alt_dev_reg" /\ s[9] = "alt_io_redirect"
    <3>1. Len(d) = 3 /\ Len(r) = 1 /\ Len(o) = 1 /\ 1 \in 1 .. 1 /\ {1, 2, 3} \subseteq 1 .. 3
      BY <1>3, <1>4, <1>12
    <3>2. s[4 + 1] = d[1] /\ s[4 + 2] = d[2] /\ s[4 + 3] = d[3]
      BY <1>8, <3>1
    <3>3. s[4 + 3 + 1] = r[1] /\ s[4 + 3 + 1 + 1] = o[1]
      BY <1>8, <3>1
    <3>4. s[1] = s0[1] /\ s[2] = s0[2] /\ s[3] = s0[3] /\ s[4] = s0[4] /\ Len(s) = 9
      BY <1>8, <3>1
    <3> QED BY <1>2, <1>3, <1>4, <1>12, <3>2, <3>3, <3>4
  <2> DEFINE u == <<"_start", "bss", "alt_load", "alt_irq_init", "device", "register",
                "alarm", "alt_dev_reg", "alt_io_redirect">>
  <2>2. u \in Seq(Opening) /\ Len(u) = 9
    BY DEF Opening, Booting
  <2>3. \A i \in 1 .. Len(s) : s[i] = u[i]
    BY <2>1
  <2> HIDE DEF u
  <2>4. s = u
    BY <1>7, <2>1, <2>2, <2>3, SameSequence
  <2> QED BY <1>1, <1>7, <1>12, <2>4, SMTT(30) DEF u, Following, FirstCall, Occurs, Opening, Booting
<1> QED BY <1>1, <1>9, <1>10, <1>11, <1>12, Zenon

LEMMA ClosingCalls ==
  ASSUME NEW b \in Build
  PROVE  LET t == Ending(b)
         IN  /\ t \in Seq(Closing) /\ Len(t) >= 2 /\ t[1] = FirstCall(b) /\ t[Len(t)] = "stopped"
             /\ \A i, j \in DOMAIN t : t[i] = t[j] => i = j
             /\ \A i \in 1 .. Len(t) - 1 : t[i + 1] = Following(b, t[i])
             /\ \A n \in Closing : Occurs(b, n) => \E i \in DOMAIN t : t[i] = n
<1> DEFINE c == If(b.cpp, "_do_ctors")
           e == If(b.cpp /\ b.exit = "clean", "atexit")
           m0 == <<"main">>
           x == IF b.exit = "never" THEN <<>> ELSE <<"close", "exit">>
           s0 == <<"stopped">>
           t1 == c \o e
           t2 == t1 \o m0
           t3 == t2 \o x
           t == t3 \o s0
<1>1. b.cpp \in BOOLEAN /\ b.exit \in {"clean", "bare", "never"} /\ Ending(b) = t
  BY DEF Build, Ending
<1>2. /\ m0 \in Seq(Closing) /\ Len(m0) = 1 /\ m0[1] = "main"
      /\ s0 \in Seq(Closing) /\ Len(s0) = 1 /\ s0[1] = "stopped"
  BY DEF Closing
<1>3. /\ c \in Seq(Closing) /\ e \in Seq(Closing)
      /\ ~b.cpp => Len(c) = 0
      /\ b.cpp => Len(c) = 1 /\ c[1] = "_do_ctors"
      /\ ~(b.cpp /\ b.exit = "clean") => Len(e) = 0
      /\ b.cpp /\ b.exit = "clean" => Len(e) = 1 /\ e[1] = "atexit"
  <2>1. /\ <<>> \in Seq(Closing)
        /\ <<"_do_ctors">> \in Seq(Closing) /\ <<"atexit">> \in Seq(Closing)
    BY DEF Closing
  <2> QED BY <2>1 DEF If
<1>4. /\ x \in Seq(Closing)
      /\ b.exit = "never" => Len(x) = 0
      /\ b.exit # "never" => Len(x) = 2 /\ x[1] = "close" /\ x[2] = "exit"
  <2>1. <<>> \in Seq(Closing) /\ <<"close", "exit">> \in Seq(Closing)
    BY DEF Closing
  <2> QED BY <2>1
<1> HIDE DEF c, e, m0, x, s0
<1>5. /\ t1 \in Seq(Closing) /\ Len(t1) = Len(c) + Len(e)
      /\ \A i \in 1 .. Len(c) : t1[i] = c[i]
      /\ \A i \in 1 .. Len(e) : t1[Len(c) + i] = e[i]
  BY <1>3, Joined
<1> HIDE DEF t1
<1>6. /\ t2 \in Seq(Closing) /\ Len(t2) = Len(t1) + Len(m0)
      /\ \A i \in 1 .. Len(t1) : t2[i] = t1[i]
      /\ \A i \in 1 .. Len(m0) : t2[Len(t1) + i] = m0[i]
  BY <1>2, <1>5, Joined
<1> HIDE DEF t2
<1>7. /\ t3 \in Seq(Closing) /\ Len(t3) = Len(t2) + Len(x)
      /\ \A i \in 1 .. Len(t2) : t3[i] = t2[i]
      /\ \A i \in 1 .. Len(x) : t3[Len(t2) + i] = x[i]
  <2>1. t2 \in Seq(Closing) /\ x \in Seq(Closing)
    BY <1>4, <1>6
  <2> QED BY <2>1, Joined
<1> HIDE DEF t3
<1>8. /\ t \in Seq(Closing) /\ Len(t) = Len(t3) + Len(s0) /\ DOMAIN t = 1 .. Len(t)
      /\ \A i \in 1 .. Len(t3) : t[i] = t3[i]
      /\ \A i \in 1 .. Len(s0) : t[Len(t3) + i] = s0[i]
  BY <1>2, <1>7, Joined, SMTT(30)
<1> HIDE DEF t
<1>9. /\ \A i \in 1 .. Len(c) : t[i] = c[i]
      /\ \A i \in 1 .. Len(e) : t[Len(c) + i] = e[i]
      /\ t[Len(c) + Len(e) + 1] = "main"
      /\ \A i \in 1 .. Len(x) : t[Len(c) + Len(e) + 1 + i] = x[i]
      /\ t[Len(c) + Len(e) + 1 + Len(x) + 1] = "stopped"
      /\ Len(t) = Len(c) + Len(e) + 1 + Len(x) + 1
  <2>1. Len(c) \in Nat /\ Len(e) \in Nat /\ Len(x) \in Nat
    BY <1>3, <1>4
  <2>2. \A i \in 1 .. Len(c) + Len(e) + 1 + Len(x) : t[i] = t3[i]
    BY <1>2, <1>5, <1>6, <1>7, <1>8, <2>1
  <2>3. \A i \in 1 .. Len(c) + Len(e) + 1 : t[i] = t2[i]
    BY <1>2, <1>5, <1>6, <1>7, <2>1, <2>2
  <2>4. \A i \in 1 .. Len(c) + Len(e) : t[i] = t1[i]
    BY <1>2, <1>5, <1>6, <2>1, <2>3
  <2>5. \A i \in 1 .. Len(c) : t[i] = c[i]
    BY <1>5, <2>1, <2>4
  <2>6. \A i \in 1 .. Len(e) : t[Len(c) + i] = e[i]
    BY <1>5, <2>1, <2>4
  <2>7. t[Len(c) + Len(e) + 1] = "main"
    <3>1. t2[Len(t1) + 1] = m0[1]
      BY <1>2, <1>6
    <3> QED BY <1>2, <1>5, <2>1, <2>3, <3>1
  <2>8. \A i \in 1 .. Len(x) : t[Len(c) + Len(e) + 1 + i] = x[i]
    BY <1>2, <1>5, <1>6, <1>7, <2>1, <2>2
  <2>9. t[Len(c) + Len(e) + 1 + Len(x) + 1] = "stopped"
    <3>1. t[Len(t3) + 1] = s0[1]
      BY <1>2, <1>8
    <3> QED BY <1>2, <1>5, <1>6, <1>7, <2>1, <3>1
  <2> QED BY <1>2, <1>5, <1>6, <1>7, <1>8, <2>1, <2>5, <2>6, <2>7, <2>8, <2>9
<1>10. CASE b.cpp /\ b.exit = "clean"
  <2>1. /\ Len(t) = 6
        /\ t[1] = "_do_ctors" /\ t[2] = "atexit" /\ t[3] = "main" /\ t[4] = "close"
        /\ t[5] = "exit" /\ t[6] = "stopped"
    <3>1. Len(c) = 1 /\ Len(e) = 1 /\ Len(x) = 2
      BY <1>3, <1>4, <1>10
    <3>2. t[1] = c[1]
      BY <1>9, <3>1
    <3>3. t[2] = e[1]
      BY <1>9, <3>1
    <3>4. t[3] = "main"
      BY <1>9, <3>1
    <3>5. t[4] = x[1]
      BY <1>9, <3>1
    <3>6. t[5] = x[2]
      BY <1>9, <3>1
    <3>7. t[6] = "stopped"
      BY <1>9, <3>1
    <3> QED BY <1>3, <1>4, <1>9, <1>10, <3>1, <3>2, <3>3, <3>4, <3>5, <3>6, <3>7
  <2> DEFINE u == <<"_do_ctors", "atexit", "main", "close", "exit", "stopped">>
  <2>2. u \in Seq(Closing) /\ Len(u) = 6
    BY DEF Closing
  <2>3. \A i \in 1 .. Len(t) : t[i] = u[i]
    BY <2>1
  <2> HIDE DEF u
  <2>4. t = u
    BY <1>8, <2>1, <2>2, <2>3, SameSequence
  <2> QED BY <1>1, <1>8, <1>10, <2>4 DEF u, Following, FirstCall, Occurs, Closing
<1>11. CASE b.cpp /\ b.exit = "bare"
  <2>1. /\ Len(t) = 5
        /\ t[1] = "_do_ctors" /\ t[2] = "main" /\ t[3] = "close" /\ t[4] = "exit"
        /\ t[5] = "stopped"
    <3>1. Len(c) = 1 /\ Len(e) = 0 /\ Len(x) = 2
      BY <1>3, <1>4, <1>11
    <3>2. t[1] = c[1]
      BY <1>9, <3>1
    <3>3. t[2] = "main"
      BY <1>9, <3>1
    <3>4. t[3] = x[1]
      BY <1>9, <3>1
    <3>5. t[4] = x[2]
      BY <1>9, <3>1
    <3>6. t[5] = "stopped"
      BY <1>9, <3>1
    <3> QED BY <1>3, <1>4, <1>9, <1>11, <3>1, <3>2, <3>3, <3>4, <3>5, <3>6
  <2> DEFINE u == <<"_do_ctors", "main", "close", "exit", "stopped">>
  <2>2. u \in Seq(Closing) /\ Len(u) = 5
    BY DEF Closing
  <2>3. \A i \in 1 .. Len(t) : t[i] = u[i]
    BY <2>1
  <2> HIDE DEF u
  <2>4. t = u
    BY <1>8, <2>1, <2>2, <2>3, SameSequence
  <2> QED BY <1>1, <1>8, <1>11, <2>4 DEF u, Following, FirstCall, Occurs, Closing
<1>12. CASE b.cpp /\ b.exit = "never"
  <2>1. /\ Len(t) = 3
        /\ t[1] = "_do_ctors" /\ t[2] = "main" /\ t[3] = "stopped"
    <3>1. Len(c) = 1 /\ Len(e) = 0 /\ Len(x) = 0
      BY <1>3, <1>4, <1>12
    <3>2. t[1] = c[1]
      BY <1>9, <3>1
    <3>3. t[2] = "main"
      BY <1>9, <3>1
    <3>4. t[3] = "stopped"
      BY <1>9, <3>1
    <3> QED BY <1>3, <1>4, <1>9, <1>12, <3>1, <3>2, <3>3, <3>4
  <2> DEFINE u == <<"_do_ctors", "main", "stopped">>
  <2>2. u \in Seq(Closing) /\ Len(u) = 3
    BY DEF Closing
  <2>3. \A i \in 1 .. Len(t) : t[i] = u[i]
    BY <2>1
  <2> HIDE DEF u
  <2>4. t = u
    BY <1>8, <2>1, <2>2, <2>3, SameSequence
  <2> QED BY <1>1, <1>8, <1>12, <2>4 DEF u, Following, FirstCall, Occurs, Closing
<1>13. CASE ~b.cpp /\ b.exit # "never"
  <2>1. /\ Len(t) = 4
        /\ t[1] = "main" /\ t[2] = "close" /\ t[3] = "exit" /\ t[4] = "stopped"
    BY <1>2, <1>3, <1>4, <1>9, <1>13, SMTT(30)
  <2> DEFINE u == <<"main", "close", "exit", "stopped">>
  <2>2. u \in Seq(Closing) /\ Len(u) = 4
    BY DEF Closing
  <2>3. \A i \in 1 .. Len(t) : t[i] = u[i]
    BY <2>1
  <2> HIDE DEF u
  <2>4. t = u
    BY <1>8, <2>1, <2>2, <2>3, SameSequence
  <2> QED BY <1>1, <1>8, <1>13, <2>4 DEF u, Following, FirstCall, Occurs, Closing
<1>14. CASE ~b.cpp /\ b.exit = "never"
  <2>1. /\ Len(t) = 2
        /\ t[1] = "main" /\ t[2] = "stopped"
    BY <1>2, <1>3, <1>4, <1>9, <1>14
  <2> DEFINE u == <<"main", "stopped">>
  <2>2. u \in Seq(Closing) /\ Len(u) = 2
    BY DEF Closing
  <2>3. \A i \in 1 .. Len(t) : t[i] = u[i]
    BY <2>1
  <2> HIDE DEF u
  <2>4. t = u
    BY <1>8, <2>1, <2>2, <2>3, SameSequence
  <2> QED BY <1>1, <1>8, <1>14, <2>4 DEF u, Following, FirstCall, Occurs, Closing
<1> QED BY <1>1, <1>10, <1>11, <1>12, <1>13, <1>14, Zenon

(* A call is followed by the one that the order of its build says.         *)
LEMMA AtFollows ==
  ASSUME build \in Build, Occurs(build, phase), NEW c, At(c)
  PROVE  phase = c /\ c # "stopped" /\ phase' = Following(build, c)
<1> DEFINE s == OpeningOf(build)
           t == Ending(build)
           order == Order(build)
           i == CHOOSE k \in DOMAIN order : order[k] = phase
<1>1. phase = c /\ c # "stopped" /\ phase' = order[i + 1]
  BY DEF At
<1>2. order = s \o t
  BY DEF Order, OpeningOf
<1>3. /\ s \in Seq(Opening) /\ Len(s) >= 4
      /\ \A k, l \in DOMAIN s : s[k] = s[l] => k = l
      /\ \A k \in 1 .. Len(s) - 1 : s[k + 1] = Following(build, s[k])
      /\ Following(build, s[Len(s)]) = FirstCall(build)
      /\ \A n \in Opening : Occurs(build, n) => \E k \in DOMAIN s : s[k] = n
  BY OpeningCalls
<1>4. /\ t \in Seq(Closing) /\ Len(t) >= 2 /\ t[1] = FirstCall(build) /\ t[Len(t)] = "stopped"
      /\ \A k, l \in DOMAIN t : t[k] = t[l] => k = l
      /\ \A k \in 1 .. Len(t) - 1 : t[k + 1] = Following(build, t[k])
      /\ \A n \in Closing : Occurs(build, n) => \E k \in DOMAIN t : t[k] = n
  BY ClosingCalls
<1>5. s \in Seq(Opening \cup Closing) /\ t \in Seq(Opening \cup Closing)
  BY <1>3, <1>4
<1> HIDE DEF s, t
<1>6. /\ Len(s) \in Nat /\ Len(t) \in Nat /\ DOMAIN s = 1 .. Len(s) /\ DOMAIN t = 1 .. Len(t)
      /\ Len(s \o t) = Len(s) + Len(t) /\ DOMAIN (s \o t) = 1 .. Len(s) + Len(t)
      /\ \A k \in 1 .. Len(s) : (s \o t)[k] = s[k]
      /\ \A k \in 1 .. Len(t) : (s \o t)[Len(s) + k] = t[k]
  BY <1>5, Joined
<1> HIDE DEF order
<1>7. /\ DOMAIN order = 1 .. Len(s) + Len(t)
      /\ \A k \in 1 .. Len(s) : order[k] = s[k]
      /\ \A k \in 1 .. Len(t) : order[Len(s) + k] = t[k]
  BY <1>2, <1>6
<1>8. \E k \in DOMAIN order : order[k] = phase
  <2>1. CASE phase \in Opening
    <3>1. PICK k \in 1 .. Len(s) : s[k] = phase
      BY <1>3, <1>6, <2>1
    <3> QED BY <1>6, <1>7, <3>1
  <2>2. CASE phase \in Closing
    <3>1. PICK k \in 1 .. Len(t) : t[k] = phase
      BY <1>4, <1>6, <2>2
    <3>2. Len(s) + k \in 1 .. Len(s) + Len(t) /\ order[Len(s) + k] = phase
      BY <1>6, <1>7, <3>1
    <3> QED BY <1>7, <3>2
  <2> QED BY <2>1, <2>2 DEF Occurs
<1>9. i \in 1 .. Len(s) + Len(t) /\ order[i] = phase
  BY <1>7, <1>8
<1> HIDE DEF i
<1>10. CASE i \in 1 .. Len(s) - 1
  <2>1. order[i + 1] = s[i + 1] /\ order[i] = s[i]
    BY <1>6, <1>7, <1>10
  <2> QED BY <1>1, <1>3, <1>9, <1>10, <2>1
<1>11. CASE i = Len(s)
  <2>1. order[i + 1] = t[1] /\ order[i] = s[i]
    BY <1>3, <1>4, <1>6, <1>7, <1>11
  <2> QED BY <1>1, <1>3, <1>4, <1>9, <1>11, <2>1
<1>12. CASE i \in Len(s) + 1 .. Len(s) + Len(t) - 1
  <2> DEFINE k == i - Len(s)
  <2>1. k \in 1 .. Len(t) - 1 /\ k + 1 \in 1 .. Len(t) /\ k \in 1 .. Len(t) /\ i = Len(s) + k
        /\ i + 1 = Len(s) + (k + 1)
    BY <1>6, <1>12
  <2> HIDE DEF k
  <2>2. order[i] = t[k] /\ order[i + 1] = t[k + 1]
    BY <1>7, <2>1
  <2> QED BY <1>1, <1>4, <1>9, <2>1, <2>2
<1>13. CASE i = Len(s) + Len(t)
  <2>1. order[i] = t[Len(t)]
    BY <1>4, <1>6, <1>7, <1>13
  <2> QED BY <1>1, <1>4, <1>9, <2>1
<1>14. \/ i \in 1 .. Len(s) - 1 \/ i = Len(s)
       \/ i \in Len(s) + 1 .. Len(s) + Len(t) - 1 \/ i = Len(s) + Len(t)
  <2>1. Len(s) \in Nat /\ Len(t) \in Nat /\ i \in 1 .. Len(s) + Len(t)
    BY <1>6, <1>9
  <2> QED BY <2>1
<1> QED BY <1>10, <1>11, <1>12, <1>13, <1>14

(* What each part of the state is while a call is next, after any resets.  *)
SInv ==
  /\ build \in Build /\ resets \in Nat /\ Occurs(build, phase)
  /\ phase \notin {"_start", "bss"} => bss \in Bss
  /\ phase \notin {"_start", "bss", "alt_load"} =>
       rwdata \in RwData /\ exceptions = "loaded" /\ insync
  /\ pie = (phase \notin Booting)
  /\ ienable = (~build.small /\ phase \notin Booting \cup {"device", "register"})
  /\ ie = (~build.small /\ phase \notin Booting \cup {"device"})

(* The variables of the program and its driver.                            *)
VariablesInv ==
  LET rebuilt == IF build.cpp THEN Reversed(Ctors) ELSE <<>>
  IN  /\ phase \notin {"_start", "bss"} =>
           /\ bss.alt_irq = ienable
           /\ bss.atexit = (build.cpp /\ build.exit = "clean"
                              /\ phase \in {"main", "close", "exit", "stopped"})
           /\ bss.built = IF phase \in Closing \ {"_do_ctors"} THEN rebuilt ELSE <<>>
           /\ bss.destroyed = IF phase = "stopped" /\ build.cpp /\ build.exit = "clean"
                              THEN Reversed(Ctors) ELSE <<>>
      /\ phase \notin {"_start", "bss", "alt_load"} =>
           /\ rwdata.driver \in IF build.small \/ phase \in Booting \cup {"device", "register", "alarm"}
                                THEN {"initial"} ELSE {"running", "used"}
           /\ rwdata.alt_dev_list = IF build.direct \/ phase \in Opening \ {"alt_io_redirect"}
                                    THEN <<>> ELSE <<"uart">>
           /\ ~build.direct /\ phase \in Closing =>
                \A file \in 0 .. 2 : rwdata.alt_fd_list[file] = "uart"

LEMMA InitSInv == StartupInit => SInv /\ VariablesInv
<1> SUFFICES ASSUME StartupInit PROVE SInv /\ VariablesInv
  OBVIOUS
<1>1. build \in Build /\ phase = "_start" /\ resets = 0 /\ ~pie /\ ~ienable /\ ~ie
  BY DEF StartupInit
<1>2. Occurs(build, "_start")
  BY DEF Occurs, Opening, Booting
<1>3. SInv
  <2>1. pie = FALSE /\ ienable = FALSE /\ ie = FALSE /\ phase \in Booting
    BY <1>1 DEF StartupInit, Booting
  <2> QED BY <1>1, <1>2, <2>1 DEF SInv
<1>4. VariablesInv
  BY <1>1 DEF VariablesInv
<1> QED BY <1>3, <1>4

LEMMA ReversedCtors == LET list == Seq({Ctors[i] : i \in DOMAIN Ctors})
                       IN  /\ Reversed(Ctors) \in list /\ <<>> \in list
                           /\ <<>> \o Reversed(Ctors) = Reversed(Ctors)
<1> DEFINE S == {Ctors[i] : i \in DOMAIN Ctors}
<1>1. Ctors \in Seq(S) /\ DOMAIN Ctors = 1 .. Len(Ctors) /\ Len(Ctors) \in Nat
  BY StartupAssumption
<1>2. \A i \in 1 .. Len(Ctors) : Ctors[Len(Ctors) + 1 - i] \in S
  BY <1>1
<1> DEFINE r == [i \in 1 .. Len(Ctors) |-> Ctors[Len(Ctors) + 1 - i]]
<1> HIDE DEF S
<1>3. Reversed(Ctors) \in Seq(S)
  <2>1. Reversed(Ctors) = r
    BY <1>1 DEF Reversed
  <2>2. r \in Seq(S)
    BY <1>1, <1>2
  <2> QED BY <2>1, <2>2
<1>4. <<>> \o Reversed(Ctors) = Reversed(Ctors)
  BY <1>3
<1> QED BY <1>3, <1>4 DEF S

LEMMA FollowingOccurs ==
  ASSUME build \in Build, Occurs(build, phase), phase # "stopped"
  PROVE  Occurs(build, Following(build, phase))
<1> USE DEF Opening, Closing, Booting
<1>1. /\ build.small \in BOOLEAN /\ build.direct \in BOOLEAN /\ build.cpp \in BOOLEAN
      /\ phase \in Opening \cup Closing
  BY DEF Build, Occurs
<1>2. CASE phase \in Booting
  BY <1>1, <1>2, ZenonT(60) DEF Occurs, Following, FirstCall
<1>3. CASE phase \in {"device", "register", "alarm"}
  BY <1>1, <1>3 DEF Occurs, Following, FirstCall
<1>4. CASE phase \in {"alt_dev_reg", "alt_io_redirect"}
  BY <1>1, <1>4 DEF Occurs, Following, FirstCall
<1>5. CASE phase \in Closing
  BY <1>1, <1>5 DEF Occurs, Following
<1> QED BY <1>1, <1>2, <1>3, <1>4, <1>5

LEMMA NextSInv == SInv /\ VariablesInv /\ [StartupNext]_startupvars => (SInv /\ VariablesInv)'
<1> SUFFICES ASSUME SInv, VariablesInv, [StartupNext]_startupvars
             PROVE  SInv' /\ VariablesInv'
  OBVIOUS
<1> USE DEF Opening, Closing, Booting
<1>0. build \in Build /\ resets \in Nat /\ Occurs(build, phase)
      /\ build.small \in BOOLEAN /\ build.direct \in BOOLEAN /\ build.cpp \in BOOLEAN
  BY DEF SInv, Build
<1>1. ASSUME NEW c, At(c)
      PROVE  /\ phase = c /\ phase' = Following(build, c) /\ Occurs(build, phase')
             /\ phase' \in Opening \cup Closing
  <2>1. phase = c /\ c # "stopped" /\ phase' = Following(build, c)
    BY <1>0, <1>1, AtFollows
  <2> QED BY <1>0, <2>1, FollowingOccurs DEF Occurs
<1>2. CASE UNCHANGED startupvars
  BY <1>2 DEF startupvars, SInv, VariablesInv
<1>3. CASE Reset
  <2>1. /\ build' = build /\ phase' = "_start" /\ resets' \in Nat
        /\ pie' = FALSE /\ ienable' = FALSE /\ ie' = FALSE
    BY <1>0, <1>3 DEF Reset
  <2>2. Occurs(build, "_start")
    BY DEF Occurs
  <2> QED BY <1>0, <2>1, <2>2 DEF SInv, VariablesInv
<1>4. CASE Start
  <2>1. phase = "_start" /\ phase' = "bss" /\ Occurs(build, phase')
    BY <1>1, <1>4 DEF Start, Following
  <2> QED BY <1>0, <1>4, <2>1 DEF Start, SInv, VariablesInv
<1>5. CASE ClearBss
  <2>1. phase = "bss" /\ phase' = "alt_load" /\ Occurs(build, phase')
    BY <1>1, <1>5 DEF ClearBss, Following
  <2>2. Zero \in Bss /\ bss' = Zero
    BY <1>5, ReversedCtors DEF ClearBss, Zero, Bss
  <2>3. SInv'
    BY <1>0, <1>5, <2>1, <2>2 DEF ClearBss, SInv
  <2>4. VariablesInv'
    <3>1. ienable' = FALSE
      BY <1>5, <2>1 DEF ClearBss, SInv
    <3>2. bss'.alt_irq = FALSE /\ bss'.atexit = FALSE /\ bss'.built = <<>> /\ bss'.destroyed = <<>>
      BY <2>2 DEF Zero
    <3> QED BY <2>1, <3>1, <3>2 DEF VariablesInv
  <2> QED BY <2>3, <2>4
<1>6. CASE alt_load
  <2>1. phase = "alt_load" /\ phase' = "alt_irq_init" /\ Occurs(build, phase')
    BY <1>1, <1>6 DEF alt_load, Following
  <2>2. Image \in RwData /\ rwdata' = Image
    <3>1. <<>> \in Seq({"uart"})
      OBVIOUS
    <3> QED BY <1>6, <3>1 DEF alt_load, Image, RwData
  <2>3. SInv'
    BY <1>0, <1>6, <2>1, <2>2 DEF alt_load, SInv
  <2>4. VariablesInv'
    BY <1>0, <1>6, <2>1, <2>2 DEF alt_load, VariablesInv, Image
  <2> QED BY <2>3, <2>4
<1>7. CASE alt_irq_init
  <2>1. phase = "alt_irq_init" /\ phase' = Following(build, phase) /\ Occurs(build, phase')
        /\ phase' \in Opening \cup Closing
    BY <1>1, <1>7 DEF alt_irq_init
  <2>2. /\ ~build.small => phase' = "device"
        /\ build.small /\ ~build.direct => phase' = "alt_dev_reg"
        /\ build.small /\ build.direct => phase' \in {"_do_ctors", "main"}
        /\ build.small /\ build.direct /\ phase' = "main" => ~build.cpp
    BY <1>0, <2>1 DEF Following, FirstCall
  <2>3. SInv'
    BY <1>0, <1>7, <2>1, <2>2 DEF alt_irq_init, SInv
  <2>4. VariablesInv'
    BY <1>0, <1>7, <2>1, <2>2 DEF alt_irq_init, SInv, VariablesInv
  <2> QED BY <2>3, <2>4
<1>8. CASE InitDevice
  <2>1. phase = "device" /\ phase' = "register" /\ Occurs(build, phase') /\ ~build.small
    BY <1>0, <1>1, <1>8 DEF InitDevice, Following, Occurs
  <2> QED BY <1>0, <1>8, <2>1 DEF InitDevice, SInv, VariablesInv
<1>9. CASE InitRegister
  <2>1. phase = "register" /\ phase' = "alarm" /\ Occurs(build, phase') /\ ~build.small
    BY <1>0, <1>1, <1>9 DEF InitRegister, Following, Occurs
  <2>2. /\ bss \in Bss /\ bss' = [bss EXCEPT !.alt_irq = TRUE] /\ bss' \in Bss
        /\ bss'.alt_irq = TRUE /\ bss'.atexit = bss.atexit /\ bss'.built = bss.built
        /\ bss'.destroyed = bss.destroyed
    BY <1>9, <2>1 DEF InitRegister, SInv, Bss
  <2>3. SInv'
    BY <1>0, <1>9, <2>1, <2>2 DEF InitRegister, SInv
  <2>4. VariablesInv'
    BY <1>0, <1>9, <2>1, <2>2 DEF InitRegister, SInv, VariablesInv
  <2> QED BY <2>3, <2>4
<1>10. CASE InitAlarm
  <2>1. phase = "alarm" /\ phase' = Following(build, phase) /\ Occurs(build, phase')
        /\ phase' \in Opening \cup Closing /\ ~build.small
    BY <1>0, <1>1, <1>10 DEF InitAlarm, Occurs
  <2>2. /\ ~build.direct => phase' = "alt_dev_reg"
        /\ build.direct => phase' \in {"_do_ctors", "main"}
        /\ build.direct /\ phase' = "main" => ~build.cpp
    BY <1>0, <2>1 DEF Following, FirstCall
  <2>3. /\ rwdata \in RwData /\ rwdata' = [rwdata EXCEPT !.driver = "running"]
        /\ rwdata' \in RwData /\ rwdata'.driver = "running"
        /\ rwdata'.alt_dev_list = rwdata.alt_dev_list
    BY <1>10, <2>1 DEF InitAlarm, SInv, RwData
  <2>4. SInv'
    BY <1>0, <1>10, <2>1, <2>2, <2>3 DEF InitAlarm, SInv
  <2>5. VariablesInv'
    BY <1>0, <1>10, <2>1, <2>2, <2>3 DEF InitAlarm, SInv, VariablesInv
  <2> QED BY <2>4, <2>5
<1>11. CASE alt_dev_reg
  <2>1. phase = "alt_dev_reg" /\ phase' = "alt_io_redirect" /\ Occurs(build, phase')
        /\ ~build.direct
    BY <1>0, <1>1, <1>11 DEF alt_dev_reg, Following, Occurs
  <2>2. rwdata \in RwData /\ rwdata.alt_dev_list = <<>>
    BY <2>1 DEF SInv, VariablesInv
  <2>3. <<"uart">> \o rwdata.alt_dev_list = <<"uart">> /\ <<"uart">> \in Seq({"uart"})
    <3>1. <<"uart">> \in Seq({"uart"})
      OBVIOUS
    <3>2. <<"uart">> \o <<>> = <<"uart">>
      BY <3>1
    <3> QED BY <2>2, <3>1, <3>2
  <2>4. /\ rwdata' = [rwdata EXCEPT !.alt_dev_list = <<"uart">>] /\ rwdata' \in RwData
        /\ rwdata'.alt_dev_list = <<"uart">> /\ rwdata'.driver = rwdata.driver
    BY <1>11, <2>2, <2>3 DEF alt_dev_reg, RwData
  <2>5. SInv'
    BY <1>0, <1>11, <2>1, <2>4 DEF alt_dev_reg, SInv
  <2>6. VariablesInv'
    BY <1>0, <1>11, <2>1, <2>4 DEF alt_dev_reg, SInv, VariablesInv
  <2> QED BY <2>5, <2>6
<1>12. CASE alt_io_redirect
  <2>1. phase = "alt_io_redirect" /\ phase' = FirstCall(build) /\ Occurs(build, phase')
        /\ ~build.direct
    BY <1>0, <1>1, <1>12 DEF alt_io_redirect, Following, Occurs
  <2>2. rwdata \in RwData /\ rwdata.alt_dev_list = <<"uart">>
    BY <2>1 DEF SInv, VariablesInv
  <2>3. <<"uart">> # <<>> /\ Head(<<"uart">>) = "uart"
    OBVIOUS
  <2>4. rwdata' = [rwdata EXCEPT !.alt_fd_list = [file \in 0 .. 2 |-> "uart"]]
    BY <1>12, <2>2, <2>3 DEF alt_io_redirect
  <2>5. /\ rwdata' \in RwData /\ rwdata'.alt_dev_list = <<"uart">>
        /\ rwdata'.driver = rwdata.driver
        /\ \A file \in 0 .. 2 : rwdata'.alt_fd_list[file] = "uart"
    BY <2>2, <2>4 DEF RwData
  <2>6. phase' \in {"_do_ctors", "main"} /\ (phase' = "main" => ~build.cpp)
    BY <1>0, <2>1 DEF FirstCall
  <2>7. SInv'
    BY <1>0, <1>12, <2>1, <2>5, <2>6 DEF alt_io_redirect, SInv
  <2>8. VariablesInv'
    BY <1>0, <1>12, <2>1, <2>5, <2>6 DEF alt_io_redirect, SInv, VariablesInv
  <2> QED BY <2>7, <2>8
<1>13. CASE do_ctors
  <2>1. /\ phase = "_do_ctors" /\ Occurs(build, phase') /\ build.cpp
        /\ phase' = IF build.exit = "clean" THEN "atexit" ELSE "main"
    BY <1>0, <1>1, <1>13 DEF do_ctors, Following, Occurs
  <2>2. bss \in Bss /\ bss.built = <<>>
    BY <2>1 DEF SInv, VariablesInv
  <2>3. bss.built \o Reversed(Ctors) = Reversed(Ctors)
    BY <2>2, ReversedCtors
  <2>4. /\ bss' = [bss EXCEPT !.built = Reversed(Ctors)] /\ bss' \in Bss
        /\ bss'.alt_irq = bss.alt_irq /\ bss'.atexit = bss.atexit
        /\ bss'.built = Reversed(Ctors) /\ bss'.destroyed = bss.destroyed
    BY <1>13, <2>2, <2>3, ReversedCtors DEF do_ctors, Bss
  <2>5. SInv'
    BY <1>0, <1>13, <2>1, <2>4 DEF do_ctors, SInv
  <2>6. VariablesInv'
    BY <1>0, <1>13, <2>1, <2>4 DEF do_ctors, SInv, VariablesInv
  <2> QED BY <2>5, <2>6
<1>14. CASE atexit
  <2>1. /\ phase = "atexit" /\ phase' = "main" /\ Occurs(build, phase')
        /\ build.cpp /\ build.exit = "clean"
    BY <1>0, <1>1, <1>14 DEF atexit, Following, Occurs
  <2>2. /\ bss \in Bss /\ bss' = [bss EXCEPT !.atexit = TRUE] /\ bss' \in Bss
        /\ bss'.alt_irq = bss.alt_irq /\ bss'.atexit = TRUE
        /\ bss'.built = bss.built /\ bss'.destroyed = bss.destroyed
    BY <1>14, <2>1 DEF atexit, SInv, Bss
  <2>3. SInv'
    BY <1>0, <1>14, <2>1, <2>2 DEF atexit, SInv
  <2>4. VariablesInv'
    BY <1>0, <1>14, <2>1, <2>2 DEF atexit, SInv, VariablesInv
  <2> QED BY <2>3, <2>4
<1>15. CASE Return
  <2>1. /\ phase = "main" /\ Occurs(build, phase')
        /\ phase' = IF build.exit = "never" THEN "stopped" ELSE "close"
    BY <1>1, <1>15 DEF Return, Following
  <2>2. SInv'
    BY <1>0, <1>15, <2>1 DEF Return, SInv
  <2>3. VariablesInv'
    BY <1>0, <1>15, <2>1 DEF Return, SInv, VariablesInv
  <2> QED BY <2>2, <2>3
<1>16. CASE CallExit
  <2>1. phase = "main" /\ phase' = "exit" /\ Occurs(build, phase')
    BY <1>16 DEF CallExit, Occurs
  <2>2. SInv'
    BY <1>0, <1>16, <2>1 DEF CallExit, SInv
  <2>3. VariablesInv'
    BY <1>0, <1>16, <2>1 DEF CallExit, SInv, VariablesInv
  <2> QED BY <2>2, <2>3
<1>17. CASE Close
  <2>1. phase = "close" /\ phase' = "exit" /\ Occurs(build, phase')
    BY <1>1, <1>17 DEF Close, Following
  <2>2. SInv'
    BY <1>0, <1>17, <2>1 DEF Close, SInv
  <2>3. VariablesInv'
    BY <1>0, <1>17, <2>1 DEF Close, SInv, VariablesInv
  <2> QED BY <2>2, <2>3
<1>18. CASE alt_exit
  <2>1. phase = "exit" /\ phase' = "stopped" /\ Occurs(build, phase')
    BY <1>1, <1>18 DEF alt_exit, Following
  <2>2. /\ bss \in Bss /\ bss.destroyed = <<>>
        /\ bss.atexit = (build.cpp /\ build.exit = "clean")
    BY <2>1 DEF SInv, VariablesInv
  <2> DEFINE d == IF build.cpp /\ build.exit = "clean" THEN Reversed(Ctors) ELSE <<>>
  <2>3. bss.destroyed \o Destroyed(build) = d
    <3>1. <<>> \o <<>> = <<>>
      OBVIOUS
    <3> QED BY <2>2, <3>1, ReversedCtors DEF Destroyed
  <2>4. /\ bss' = [bss EXCEPT !.destroyed = d] /\ bss' \in Bss
        /\ bss'.alt_irq = bss.alt_irq /\ bss'.atexit = bss.atexit
        /\ bss'.built = bss.built /\ bss'.destroyed = d
    BY <1>18, <2>2, <2>3, ReversedCtors DEF alt_exit, Bss
  <2>5. SInv'
    BY <1>0, <1>18, <2>1, <2>4 DEF alt_exit, SInv
  <2>6. VariablesInv'
    BY <1>0, <1>18, <2>1, <2>4 DEF alt_exit, SInv, VariablesInv
  <2> QED BY <2>5, <2>6
<1>19. CASE Interrupt
  <2>1. phase \notin Booting /\ rwdata \in RwData
    BY <1>19 DEF Interrupt, SInv
  <2>2. /\ rwdata' \in RwData /\ rwdata'.alt_dev_list = rwdata.alt_dev_list
        /\ rwdata'.alt_fd_list = rwdata.alt_fd_list
        /\ rwdata'.driver = IF rwdata.driver = "initial" THEN "initial" ELSE "used"
    BY <1>19, <2>1 DEF Interrupt, RwData
  <2>3. SInv'
    BY <1>0, <1>19, <2>2 DEF Interrupt, SInv
  <2>4. VariablesInv'
    <3>1. UNCHANGED <<build, phase, bss, ienable>>
      BY <1>19 DEF Interrupt
    <3>2. phase \notin {"_start", "bss", "alt_load"}
      BY <2>1
    <3>3. rwdata'.driver \in IF build.small \/ phase \in Booting \cup {"device", "register", "alarm"}
                             THEN {"initial"} ELSE {"running", "used"}
      BY <2>2, <3>2 DEF VariablesInv
    <3> QED BY <2>2, <3>1, <3>2, <3>3, Zenon DEF VariablesInv
  <2> QED BY <2>3, <2>4
<1> QED BY <1>2, <1>3, <1>4, <1>5, <1>6, <1>7, <1>8, <1>9, <1>10, <1>11, <1>12, <1>13,
           <1>14, <1>15, <1>16, <1>17, <1>18, <1>19 DEF StartupNext

(* Whatever the processor is reset out of, and however the library is      *)
(* built, main() finds the device, the streams, the handler and the        *)
(* constructors' objects as the first time, no interrupt is taken before   *)
(* its code is there and none passed to a handler that is not, and the     *)
(* destructors run at a clean exit alone (alt_main.c:82-160,               *)
(* alt_load.c:56-88, alt_sys_init.c:79-93).                                *)
THEOREM StartsAnewEachTime == LibrarySpec => []StartupKept
<1> DEFINE Inv == part = "startup" => SInv /\ VariablesInv
<1>1. LibraryInit => Inv
  BY InitSInv DEF LibraryInit
<1>2. Inv /\ [LibraryNext]_vars => Inv'
  <2> SUFFICES ASSUME Inv, [LibraryNext]_vars, part' = "startup"
               PROVE  SInv' /\ VariablesInv'
    OBVIOUS
  <2>1. part = "startup" /\ [StartupNext]_startupvars
    BY DEF LibraryNext, vars
  <2> QED BY <2>1, NextSInv
<1>3. Inv => StartupKept
  <2> SUFFICES ASSUME SInv, VariablesInv
               PROVE  /\ MainFindsAll /\ StreamsBeforeConstructors /\ InterruptsFindHandler
                      /\ DestroyedAtCleanExit
    BY DEF StartupKept
  <2> USE DEF Opening, Closing, Booting
  <2>1. MainFindsAll
    BY DEF SInv, VariablesInv, MainFindsAll, Occurs
  <2>2. StreamsBeforeConstructors
    BY DEF SInv, VariablesInv, StreamsBeforeConstructors
  <2>3. InterruptsFindHandler
    BY StartupAssumption DEF SInv, VariablesInv, InterruptsFindHandler
  <2>4. DestroyedAtCleanExit
    BY DEF SInv, VariablesInv, DestroyedAtCleanExit
  <2> QED BY <2>1, <2>2, <2>3, <2>4
<1> QED BY <1>1, <1>2, <1>3, PTL DEF LibrarySpec

-----------------------------------------------------------------------------
(* The application and its address map. *)

(* A setting in a register is one the switches have had.                   *)
LightsInv ==
  /\ {switches, readdata, data_out, r3, begun, shown} \subseteq Nat
  /\ next \in {"load", "read", "store"}
  /\ readdata <= switches /\ begun <= switches /\ r3 <= switches /\ data_out <= switches
  /\ shown <= data_out
  /\ next = "read" => begun <= readdata
  /\ next = "store" => begun <= r3

LEMMA Routes == Route(Switches) = "Switches" /\ Route(LEDs) = "LEDs"
BY DEF Route, In, Switches, LEDs

LEMMA InitLightsInv == LightsInit => LightsInv
BY DEF LightsInit, LightsInv

LEMMA NextLightsInv == LightsInv /\ [LightsNext]_lightsvars => LightsInv'
<1> SUFFICES ASSUME LightsInv, [LightsNext]_lightsvars PROVE LightsInv'
  OBVIOUS
<1> USE DEF LightsInv
<1>1. CASE Change
  BY <1>1 DEF Change
<1>2. CASE Tick
  BY <1>2 DEF Tick
<1>3. CASE BeginRound
  BY <1>3 DEF BeginRound
<1>4. CASE Read
  BY <1>4, Routes DEF Read
<1>5. CASE Store
  BY <1>5, Routes DEF Store
<1>6. CASE UNCHANGED lightsvars
  BY <1>6 DEF lightsvars
<1> QED BY <1>1, <1>2, <1>3, <1>4, <1>5, <1>6 DEF LightsNext

(* Each address of a device, and of no other, is routed to it.             *)
LEMMA RoutesRight == \A address \in Nat : RoutedRight(address)
<1> SUFFICES ASSUME NEW address \in Nat PROVE RoutedRight(address)
  OBVIOUS
<1>1. /\ DOMAIN Spans = {"LEDs", "Switches", "memory", "uart"}
      /\ Spans.LEDs.base = 20512 /\ Spans.LEDs.span = 16
      /\ Spans.Switches.base = 20528 /\ Spans.Switches.span = 16
      /\ Spans.memory.base = 8192 /\ Spans.memory.span = 8192
      /\ Spans.uart.base = 20552 /\ Spans.uart.span = 8
  BY DEF Spans, Pios
<1>2. \A d \in DOMAIN Spans : Covers(Spans[d], address) => Route(address) = d
  <2>1. Covers(Spans["LEDs"], address) => Route(address) = "LEDs"
    BY <1>1 DEF Covers, Route, In
  <2>2. Covers(Spans["Switches"], address) => Route(address) = "Switches"
    BY <1>1 DEF Covers, Route, In
  <2>3. Covers(Spans["memory"], address) => Route(address) = "memory"
    BY <1>1 DEF Covers, Route, In
  <2>4. Covers(Spans["uart"], address) => Route(address) = "uart"
    BY <1>1 DEF Covers, Route, In
  <2> QED BY <1>1, <2>1, <2>2, <2>3, <2>4
<1>3. Covers(Reserved, address) => Route(address) = "debug"
  BY DEF Covers, Reserved, Route, In
<1>4. (\E r \in Regions : Covers(r, address)) => Covers(Spans.memory, address)
  BY <1>1 DEF Covers, Regions
<1> QED BY <1>2, <1>3, <1>4 DEF RoutedRight

-----------------------------------------------------------------------------
(* The masters of the bus. *)

N == NUM_INPUTS

(* How many masters come before m, counting round from the one with        *)
(* priority.                                                               *)
Distance(m0, top) == (m0 - top) % NUM_INPUTS

LEMMA DistanceIs ==
  ASSUME NEW k \in Master, NEW top \in Master
  PROVE  Distance(k, top) = (IF k >= top THEN k - top ELSE k - top + N)
         /\ Distance(k, top) \in 0 .. N - 1
<1>1. N \in Nat \ {0} /\ k \in 0 .. N - 1 /\ top \in 0 .. N - 1
  BY InterconnectAssumption DEF N, Master
<1>2. CASE k >= top
  <2> DEFINE x == k - top
  <2>1. x \in Int /\ x \in 0 .. N - 1 /\ x = N * 0 + x
    BY <1>1, <1>2
  <2> HIDE DEF x
  <2>2. x % N = x
    BY <1>1, <2>1, DivisionUnique
  <2> QED BY <1>1, <1>2, <2>1, <2>2 DEF x, Distance, N
<1>3. CASE ~(k >= top)
  <2> DEFINE x == k - top
             r == k - top + N
  <2>1. x \in Int /\ r \in 0 .. N - 1 /\ x = N * (-1) + r /\ -1 \in Int
    BY <1>1, <1>3
  <2> HIDE DEF x, r
  <2>2. x % N = r
    BY <1>1, <2>1, DivisionUnique
  <2> QED BY <1>1, <1>3, <2>1, <2>2 DEF x, r, Distance, N
<1> QED BY <1>2, <1>3

(* The next master has the priority of all but the one before it.          *)
LEMMA NextTop ==
  ASSUME NEW g \in Master
  PROVE  (g + 1) % NUM_INPUTS = (IF g = N - 1 THEN 0 ELSE g + 1)
         /\ (g + 1) % NUM_INPUTS \in Master
<1>1. N \in Nat \ {0} /\ g \in 0 .. N - 1
  BY InterconnectAssumption DEF N, Master
<1> DEFINE x == g + 1
<1>2. CASE g = N - 1
  <2>1. x \in Int /\ x = N * 1 + 0 /\ 0 \in 0 .. N - 1
    BY <1>1, <1>2
  <2> HIDE DEF x
  <2>2. x % N = 0
    BY <1>1, <2>1, DivisionUnique
  <2> QED BY <1>1, <1>2, <2>2 DEF x, N, Master
<1>3. CASE g # N - 1
  <2>1. x \in Int /\ x = N * 0 + x /\ x \in 0 .. N - 1
    BY <1>1, <1>3
  <2> HIDE DEF x
  <2>2. x % N = x
    BY <1>1, <2>1, DivisionUnique
  <2> QED BY <1>1, <1>3, <2>1, <2>2 DEF x, N, Master
<1> QED BY <1>2, <1>3

LEMMA AfterTop ==
  ASSUME NEW g \in Master, NEW k \in Master, NEW top \in Master, k # g
  PROVE  /\ Distance(k, (g + 1) % NUM_INPUTS) <= N - 2
         /\ Distance(g, top) <= Distance(k, top) =>
              Distance(k, (g + 1) % NUM_INPUTS) + 1 <= Distance(k, top)
<1> DEFINE up == (g + 1) % NUM_INPUTS
<1>1. /\ N \in Nat \ {0} /\ g \in 0 .. N - 1 /\ k \in 0 .. N - 1 /\ top \in 0 .. N - 1
      /\ up \in Master /\ up = IF g = N - 1 THEN 0 ELSE g + 1
  BY InterconnectAssumption, NextTop DEF N, Master
<1> HIDE DEF up
<1>2. /\ Distance(k, up) = IF k >= up THEN k - up ELSE k - up + N
      /\ Distance(k, top) = IF k >= top THEN k - top ELSE k - top + N
      /\ Distance(g, top) = IF g >= top THEN g - top ELSE g - top + N
  BY <1>1, DistanceIs
<1>3. Distance(k, up) <= N - 2
  BY <1>1, <1>2
<1>4. Distance(g, top) <= Distance(k, top) => Distance(k, up) + 1 <= Distance(k, top)
  BY <1>1, <1>2
<1> QED BY <1>3, <1>4 DEF up

(* Of the masters that ask there is a first one.                           *)
LEMMA FirstExists ==
  ASSUME NEW request \in SUBSET Master, request # {}, NEW top \in Master
  PROVE  \E g \in request :
           /\ CyclicFirst(request, top) = {g}
           /\ \A k \in request : Distance(g, top) <= Distance(k, top)
<1> DEFINE d == {Distance(k, top) : k \in request}
<1>1. d \subseteq Nat /\ d # {}
  BY DistanceIs
<1>2. PICK x \in d : \A y \in d : ~(<<y, x>> \in OpToRel(<, Nat))
  <2>1. IsWellFoundedOn(OpToRel(<, Nat), Nat)
    BY NatLessThanWellFounded
  <2> HIDE DEF d
  <2> QED BY <1>1, <2>1, WFMin
<1>3. \A y \in d : x <= y
  <2> HIDE DEF d
  <2>1. TAKE y \in d
  <2>2. x \in Nat /\ y \in Nat
    BY <1>1, <1>2
  <2>3. y < x => <<y, x>> \in OpToRel(<, Nat)
    BY <2>2 DEF OpToRel
  <2>4. ~(y < x)
    BY <1>2, <2>3
  <2> QED BY <2>2, <2>4
<1>4. PICK g \in request : x = Distance(g, top)
  OBVIOUS
<1>5. \A k \in request : Distance(g, top) <= Distance(k, top)
  BY <1>3, <1>4
<1>6. ASSUME NEW k \in request, Distance(k, top) <= Distance(g, top) PROVE k = g
  <2>1. Distance(k, top) = Distance(g, top)
    BY <1>5, <1>6, DistanceIs
  <2>2. N \in Nat /\ k \in 0 .. N - 1 /\ g \in 0 .. N - 1 /\ top \in 0 .. N - 1
    BY InterconnectAssumption DEF N, Master
  <2> QED BY <2>1, <2>2, DistanceIs
<1>7. CyclicFirst(request, top) = {g}
  BY <1>5, <1>6 DEF CyclicFirst, Distance
<1> QED BY <1>5, <1>7

(* The arbitrator's adder.  P are the powers of two, s the bits of a       *)
(* number that are set, v[i] what the lowest i of them make.               *)
PlaceValues(K, P) ==
  /\ P \in [0 .. K -> Nat \ {0}] /\ P[0] = 1
  /\ \A i \in 0 .. K - 1 : P[i + 1] = 2 * P[i]

BitsMake(K, P, s, v) ==
  /\ v \in [0 .. K -> Int] /\ v[0] = 0
  /\ \A i \in 0 .. K - 1 : v[i + 1] = v[i] + (IF i \in s THEN P[i] ELSE 0)

LEMMA NumberExists ==
  ASSUME NEW K \in Nat, NEW P, PlaceValues(K, P), NEW s
  PROVE  \E v : BitsMake(K, P, s, v)
<1> DEFINE c == [i \in 1 .. K |-> IF i - 1 \in s THEN P[i - 1] ELSE 0]
           v == [i \in 0 .. K |-> SumTo(c, i)]
<1>1. c \in [1 .. K -> Int]
  <2>1. \A i \in 1 .. K : i - 1 \in 0 .. K
    OBVIOUS
  <2>2. \A i \in 1 .. K : P[i - 1] \in Int
    BY <2>1 DEF PlaceValues
  <2> QED BY <2>2
<1>2. \A i \in 0 .. K - 1 : c[i + 1] = IF i \in s THEN P[i] ELSE 0
  <2> TAKE i \in 0 .. K - 1
  <2>1. i + 1 \in 1 .. K /\ i + 1 - 1 = i
    OBVIOUS
  <2> QED BY <2>1
<1> HIDE DEF c
<1>3. /\ SumTo(c, 0) = 0
      /\ \A i \in 0 .. K : SumTo(c, i) \in Int
      /\ \A i \in 0 .. K - 1 : SumTo(c, i + 1) = SumTo(c, i) + c[i + 1]
  BY <1>1, SumsAre
<1>4. v \in [0 .. K -> Int] /\ v[0] = 0
  BY <1>3
<1>5. \A i \in 0 .. K - 1 : v[i + 1] = v[i] + (IF i \in s THEN P[i] ELSE 0)
  <2> TAKE i \in 0 .. K - 1
  <2>1. i \in 0 .. K /\ i + 1 \in 0 .. K
    OBVIOUS
  <2> QED BY <1>2, <1>3, <2>1
<1> HIDE DEF v
<1> QED BY <1>4, <1>5 DEF BitsMake

(* The lowest i bits make less than the power that follows.                *)
LEMMA NumberBelow ==
  ASSUME NEW K \in Nat, NEW P, PlaceValues(K, P), NEW s, NEW v, BitsMake(K, P, s, v)
  PROVE  \A k \in 0 .. K : v[k] \in 0 .. P[k] - 1
<1> DEFINE S == {k \in 0 .. K : v[k] \in 0 .. P[k] - 1}
<1>1. 0 \in S
  BY DEF PlaceValues, BitsMake
<1>2. ASSUME NEW k \in 0 .. K - 1, k \in S PROVE k + 1 \in S
  <2>1. k \in 0 .. K /\ k + 1 \in 0 .. K
    OBVIOUS
  <2>2. v[k] \in 0 .. P[k] - 1 /\ P[k] \in Nat \ {0} /\ P[k + 1] = 2 * P[k]
        /\ v[k + 1] = v[k] + (IF k \in s THEN P[k] ELSE 0)
    BY <1>2, <2>1 DEF PlaceValues, BitsMake
  <2>3. v[k + 1] \in 0 .. P[k + 1] - 1
    BY <2>2
  <2> QED BY <2>1, <2>3
<1> HIDE DEF S
<1>3. \A k \in 0 .. K : k \in S
  BY <1>1, <1>2, UpTo
<1> QED BY <1>3 DEF S

(* The bits above j make a multiple of twice its power ...                 *)
LEMMA BitsAbove ==
  ASSUME NEW K \in Nat, NEW P, PlaceValues(K, P), NEW s, NEW v, BitsMake(K, P, s, v),
         NEW j \in 0 .. K - 1
  PROVE  \E q \in Int : v[K] = (2 * P[j]) * q + v[j + 1]
<1> DEFINE A == 2 * P[j]
           B == v[j + 1]
           n == K - (j + 1)
           S == {i \in 0 .. n : /\ \E p \in Int : P[j + 1 + i] = A * p
                                /\ \E q \in Int : v[j + 1 + i] = A * q + B}
<1>1. n \in Nat /\ A \in Int /\ B \in Int /\ P[j + 1] = A
  <2>1. j \in 0 .. K /\ j + 1 \in 0 .. K
    OBVIOUS
  <2> QED BY <2>1 DEF PlaceValues, BitsMake
<1>2. 0 \in S
  <2>1. j + 1 + 0 = j + 1 /\ 0 \in 0 .. n
    BY <1>1
  <2>2. P[j + 1 + 0] = A * 1 /\ v[j + 1 + 0] = A * 0 + B
    <3> HIDE DEF A, B
    <3>1. A * 1 = A /\ A * 0 + B = B
      BY <1>1
    <3> QED BY <1>1, <2>1, <3>1 DEF B
  <2> HIDE DEF A, B, n
  <2> QED BY <2>1, <2>2
<1>3. ASSUME NEW i \in 0 .. n - 1, i \in S PROVE i + 1 \in S
  <2> DEFINE h == j + 1 + i
  <2>1. h \in 0 .. K - 1 /\ h \in 0 .. K /\ j + 1 + (i + 1) = h + 1 /\ i + 1 \in 0 .. n
    BY <1>1
  <2>2. PICK p \in Int : P[h] = A * p
    BY <1>3
  <2>3. PICK q \in Int : v[h] = A * q + B
    BY <1>3
  <2>4. P[h + 1] = 2 * P[h] /\ P[h] \in Int /\ v[h + 1] = v[h] + (IF h \in s THEN P[h] ELSE 0)
    <3> HIDE DEF h
    <3> QED BY <2>1 DEF PlaceValues, BitsMake
  <2> HIDE DEF h, A, B, n
  <2>5. P[h + 1] = A * (2 * p)
    BY <1>1, <2>2, <2>4
  <2>6. v[h + 1] = A * (IF h \in s THEN q + p ELSE q) + B
    <3>1. CASE h \in s
      <4>1. v[h + 1] = A * q + B + A * p
        BY <2>2, <2>3, <2>4, <3>1
      <4>2. A * q + B + A * p = A * (q + p) + B
        BY <1>1
      <4> QED BY <3>1, <4>1, <4>2
    <3>2. CASE h \notin s
      <4>1. A * q \in Int
        BY <1>1
      <4> QED BY <1>1, <2>3, <2>4, <3>2, <4>1
    <3> QED BY <3>1, <3>2
  <2>7. 2 * p \in Int /\ (IF h \in s THEN q + p ELSE q) \in Int
    OBVIOUS
  <2>8. i + 1 \in 0 .. n /\ (\E x \in Int : P[j + 1 + (i + 1)] = A * x)
        /\ \E x \in Int : v[j + 1 + (i + 1)] = A * x + B
    BY <2>1, <2>5, <2>6, <2>7
  <2> QED BY <2>8
<1> HIDE DEF S
<1>4. \A i \in 0 .. n : i \in S
  <2> HIDE DEF n
  <2> QED BY <1>1, <1>2, <1>3, UpTo
<1>5. n \in 0 .. n /\ j + 1 + n = K
  BY <1>1
<1> QED BY <1>4, <1>5 DEF S

(* ... so that a bit can be read off as the arbitrator does.               *)
LEMMA BitIs ==
  ASSUME NEW K \in Nat, NEW P, PlaceValues(K, P), NEW s, NEW v, BitsMake(K, P, s, v),
         NEW j \in 0 .. K - 1
  PROVE  (v[K] \div P[j]) % 2 = 1 <=> j \in s
<1> DEFINE a == P[j]
           b == IF j \in s THEN 1 ELSE 0
           r == v[j]
           x == v[K]
<1>1. PICK q \in Int : v[K] = (2 * P[j]) * q + v[j + 1]
  BY BitsAbove
<1>2. a \in Nat \ {0} /\ r \in 0 .. a - 1 /\ x \in Int /\ b \in {0, 1}
  <2>1. j \in 0 .. K /\ K \in 0 .. K
    OBVIOUS
  <2> QED BY <2>1, NumberBelow DEF PlaceValues, BitsMake
<1>3. x = (2 * a) * q + (r + (IF b = 1 THEN a ELSE 0))
  BY <1>1 DEF BitsMake
<1> HIDE DEF a, b, r, x
<1> DEFINE y == 2 * q + b
<1>4. y \in Int /\ x = a * y + r
  <2>1. CASE b = 1
    <3>1. (2 * a) * q + (r + a) = a * (2 * q + 1) + r
      BY <1>2
    <3> QED BY <1>2, <1>3, <2>1, <3>1
  <2>2. CASE b = 0
    <3>1. (2 * a) * q + (r + 0) = a * (2 * q + 0) + r
      BY <1>2
    <3> QED BY <1>2, <1>3, <2>2, <3>1
  <2> QED BY <1>2, <2>1, <2>2
<1>5. y % 2 = b
  BY <1>2
<1> HIDE DEF y
<1>6. x \div a = y
  BY <1>2, <1>4, DivisionUnique
<1> QED BY <1>5, <1>6 DEF a, b, x

(* A power that is added carries over the bits that are set from its own   *)
(* on, to the first that is not.                                           *)
LEMMA Carries ==
  ASSUME NEW K \in Nat, NEW P, PlaceValues(K, P),
         NEW s, NEW v, BitsMake(K, P, s, v), NEW t, NEW w, BitsMake(K, P, t, w),
         NEW from \in 0 .. K - 1, NEW to \in from .. K - 1,
         \A i \in 0 .. K - 1 : (i < from \/ i > to) => (i \in t <=> i \in s),
         \A i \in from .. to - 1 : i \in s /\ i \notin t,
         to \notin s, to \in t
  PROVE  w[K] = v[K] + P[from]
<1> DEFINE Ahead1(k) == IF k <= from THEN 0 ELSE IF k <= to THEN P[from] - P[k] ELSE P[from]
           S == {k \in 0 .. K : w[k] = v[k] + Ahead1(k)}
<1>1. 0 \in S
  BY DEF BitsMake
<1>2. ASSUME NEW k \in 0 .. K - 1, k \in S PROVE k + 1 \in S
  <2>1. k \in 0 .. K /\ k + 1 \in 0 .. K /\ from \in 0 .. K
    OBVIOUS
  <2>2. /\ P[k] \in Int /\ P[k + 1] = 2 * P[k] /\ P[from] \in Int /\ v[k] \in Int /\ w[k] \in Int
        /\ v[k + 1] = v[k] + (IF k \in s THEN P[k] ELSE 0)
        /\ w[k + 1] = w[k] + (IF k \in t THEN P[k] ELSE 0)
    BY <2>1, SMTT(30) DEF PlaceValues, BitsMake
  <2>3. w[k] = v[k] + Ahead1(k)
    BY <1>2
  <2>4. CASE k < from
    <3>1. (k \in t <=> k \in s) /\ Ahead1(k) = 0 /\ Ahead1(k + 1) = 0
      BY <2>4
    <3> HIDE DEF Ahead1
    <3>2. w[k + 1] = v[k + 1] + Ahead1(k + 1)
      BY <2>2, <2>3, <3>1
    <3> QED BY <2>1, <3>2
  <2>5. CASE k >= from /\ k < to
    <3>1. k \in from .. to - 1
      BY <2>5
    <3>2. k \in s /\ k \notin t
      BY <3>1
    <3>3. w[k] = v[k] + P[from] - P[k]
      <4>1. CASE k = from
        BY <2>2, <2>3, <4>1
      <4>2. CASE k # from
        BY <2>2, <2>3, <2>5, <4>2
      <4> QED BY <4>1, <4>2
    <3>4. Ahead1(k + 1) = P[from] - P[k + 1]
      BY <2>5
    <3>5. w[k + 1] = v[k + 1] + (P[from] - P[k + 1])
      BY <2>2, <3>2, <3>3
    <3>6. w[k + 1] = v[k + 1] + Ahead1(k + 1)
      BY <3>4, <3>5
    <3> QED BY <2>1, <3>6
  <2>6. CASE k = to
    <3>1. w[k] = v[k] + P[from] - P[k]
      <4>1. CASE k = from
        BY <2>2, <2>3, <4>1
      <4>2. CASE k # from
        BY <2>2, <2>3, <2>6, <4>2
      <4> QED BY <4>1, <4>2
    <3>2. Ahead1(k + 1) = P[from]
      BY <2>6
    <3>3. w[k + 1] = v[k + 1] + P[from]
      BY <2>2, <2>6, <3>1
    <3>4. w[k + 1] = v[k + 1] + Ahead1(k + 1)
      BY <3>2, <3>3
    <3> QED BY <2>1, <3>4
  <2>7. CASE k > to
    <3>1. (k \in t <=> k \in s) /\ Ahead1(k) = P[from] /\ Ahead1(k + 1) = P[from]
      BY <2>7
    <3> HIDE DEF Ahead1
    <3>2. w[k + 1] = v[k + 1] + Ahead1(k + 1)
      BY <2>2, <2>3, <3>1
    <3> QED BY <2>1, <3>2
  <2> QED BY <2>4, <2>5, <2>6, <2>7
<1> HIDE DEF S
<1>3. \A k \in 0 .. K : k \in S
  BY <1>1, <1>2, UpTo
<1>4. K \in 0 .. K /\ ~(K <= from) /\ ~(K <= to)
  OBVIOUS
<1> QED BY <1>3, <1>4 DEF S

(* The same bits in both halves.                                           *)
LEMMA Doubled ==
  ASSUME NEW n \in Nat, NEW P, PlaceValues(2 * n, P), NEW s, NEW v, BitsMake(2 * n, P, s, v),
         \A j \in 0 .. n - 1 : j + n \in s <=> j \in s
  PROVE  v[2 * n] = v[n] * (P[n] + 1)
<1> DEFINE K == 2 * n
           S == {k \in 0 .. n : P[n + k] = P[n] * P[k] /\ v[n + k] = v[n] + P[n] * v[k]}
<1>1. K \in Nat /\ \A k \in 0 .. n : k \in 0 .. K /\ n + k \in 0 .. K
  OBVIOUS
<1>2. n \in 0 .. K /\ P[n] \in Int /\ v[n] \in Int
  BY <1>1 DEF PlaceValues, BitsMake
<1>3. 0 \in S
  <2>1. n + 0 = n /\ P[n] * 1 = P[n] /\ v[n] + P[n] * 0 = v[n]
    BY <1>2
  <2> QED BY <2>1 DEF PlaceValues, BitsMake
<1>4. ASSUME NEW k \in 0 .. n - 1, k \in S PROVE k + 1 \in S
  <2> DEFINE h == n + k
  <2>1. /\ h \in 0 .. K - 1 /\ h \in 0 .. K /\ k \in 0 .. K - 1 /\ k \in 0 .. K
        /\ n + (k + 1) = h + 1 /\ h = k + n /\ k + 1 \in 0 .. n
    BY <1>1
  <2>2. P[h] = P[n] * P[k] /\ v[h] = v[n] + P[n] * v[k]
    BY <1>4
  <2>3. /\ P[h + 1] = 2 * P[h] /\ P[k + 1] = 2 * P[k] /\ P[k] \in Int /\ P[h] \in Int
        /\ v[k] \in Int
        /\ v[h + 1] = v[h] + (IF h \in s THEN P[h] ELSE 0)
        /\ v[k + 1] = v[k] + (IF k \in s THEN P[k] ELSE 0)
    <3>1. PlaceValues(K, P) /\ BitsMake(K, P, s, v)
      OBVIOUS
    <3> HIDE DEF h, K
    <3>2. P[h + 1] = 2 * P[h] /\ v[h + 1] = v[h] + (IF h \in s THEN P[h] ELSE 0)
      BY <2>1, <3>1 DEF PlaceValues, BitsMake
    <3>3. P[k + 1] = 2 * P[k] /\ v[k + 1] = v[k] + (IF k \in s THEN P[k] ELSE 0)
      BY <2>1, <3>1 DEF PlaceValues, BitsMake
    <3>4. P[k] \in Int /\ P[h] \in Int /\ v[k] \in Int
      BY <2>1, <3>1 DEF PlaceValues, BitsMake
    <3> QED BY <3>2, <3>3, <3>4
  <2>4. h \in s <=> k \in s
    BY <2>1
  <2> HIDE DEF h, K
  <2> DEFINE a == P[n]
             b == P[k]
             c == v[k]
             d == v[n]
  <2>5. /\ a \in Int /\ b \in Int /\ c \in Int /\ d \in Int
        /\ P[h] = a * b /\ v[h] = d + a * c
    BY <1>2, <2>2, <2>3
  <2>6. /\ P[h + 1] = 2 * (a * b) /\ P[k + 1] = 2 * b
        /\ v[h + 1] = d + a * c + (IF k \in s THEN a * b ELSE 0)
        /\ v[k + 1] = c + (IF k \in s THEN b ELSE 0)
    BY <2>3, <2>4, <2>5
  <2> HIDE DEF a, b, c, d
  <2>7. 2 * (a * b) = a * (2 * b) /\ a * c + a * b = a * (c + b) /\ a * b \in Int /\ a * c \in Int
    BY <2>5
  <2>8. P[h + 1] = a * P[k + 1] /\ v[h + 1] = d + a * v[k + 1]
    <3>1. CASE k \in s
      BY <2>5, <2>6, <2>7, <3>1
    <3>2. CASE k \notin s
      BY <2>5, <2>6, <2>7, <3>2
    <3> QED BY <3>1, <3>2
  <2> QED BY <2>1, <2>8 DEF a, d
<1> HIDE DEF S
<1>5. \A k \in 0 .. n : k \in S
  BY <1>3, <1>4, UpTo
<1>6. v[n + n] = v[n] + P[n] * v[n]
  <2>1. n \in 0 .. n
    OBVIOUS
  <2> QED BY <1>5, <2>1 DEF S
<1>7. n + n = 2 * n
  OBVIOUS
<1> DEFINE a == P[n]
           d == v[n]
<1> HIDE DEF a, d
<1>8. d + a * d = d * (a + 1)
  BY <1>2 DEF a, d
<1> QED BY <1>6, <1>7, <1>8 DEF a, d

(* The vector of requests and its complement have all bits together.       *)
LEMMA VectorIs ==
  ASSUME NEW request, NEW P, PlaceValues(2 * N, P), \A i \in 0 .. N : P[i] = 2 ^ i,
         NEW s, NEW v, BitsMake(2 * N, P, s, v),
         \A i \in 0 .. N - 1 : i \in s <=> i \notin request
  PROVE  Vector(request) = P[N] - 1 - v[N]
<1> DEFINE Def(f) == f = [who \in 0 .. NUM_INPUTS |->
                            IF who = NUM_INPUTS THEN 0
                            ELSE (IF who \in request THEN 2 ^ who ELSE 0) + f[who + 1]]
           f == [who \in 0 .. NUM_INPUTS |-> P[N] - P[who] - v[N] + v[who]]
           Sum == CHOOSE x : Def(x)
<1>1. /\ N \in Nat /\ N = NUM_INPUTS /\ 0 \in 0 .. N
      /\ \A i \in 0 .. N : P[i] \in Int /\ v[i] \in Int
      /\ \A i \in 0 .. N - 1 : P[i + 1] = 2 * P[i] /\ v[i + 1] = v[i] + (IF i \in s THEN P[i] ELSE 0)
      /\ P[0] = 1 /\ v[0] = 0
  <2>1. N \in Nat
    BY InterconnectAssumption DEF N
  <2>2. \A i \in 0 .. N : i \in 0 .. 2 * N
    BY <2>1
  <2>3. \A i \in 0 .. N - 1 : i \in 0 .. 2 * N - 1
    BY <2>1
  <2>4. 0 \in 0 .. N
    BY <2>1
  <2> QED BY <2>1, <2>2, <2>3, <2>4 DEF PlaceValues, BitsMake, N
<1>2. Def(f)
  <2>1. ASSUME NEW who \in 0 .. N
        PROVE  f[who] = IF who = N THEN 0
                        ELSE (IF who \in request THEN 2 ^ who ELSE 0) + f[who + 1]
    <3>1. CASE who = N
      BY <1>1, <3>1
    <3>2. CASE who # N
      <4>1. who \in 0 .. N - 1 /\ who + 1 \in 0 .. N /\ N \in 0 .. N
        BY <1>1, <3>2
      <4>2. f[who] = P[N] - P[who] - v[N] + v[who]
            /\ f[who + 1] = P[N] - P[who + 1] - v[N] + v[who + 1]
        BY <1>1, <4>1
      <4>3. 2 ^ who = P[who] /\ (who \in s <=> who \notin request)
        BY <4>1
      <4> HIDE DEF f
      <4>4. f[who] = (IF who \in request THEN P[who] ELSE 0) + f[who + 1]
        BY <1>1, <4>1, <4>2, <4>3
      <4> QED BY <3>2, <4>3, <4>4
    <3> QED BY <3>1, <3>2
  <2> HIDE DEF f
  <2>2. f = [who \in 0 .. N |-> f[who]]
    BY <1>1 DEF f
  <2> QED BY <1>1, <2>1, <2>2
<1>3. Def(Sum)
  <2> HIDE DEF Def, f
  <2> QED BY <1>2
<1>4. Vector(request) = Sum[0]
  BY DEF Vector
<1> HIDE DEF Sum
<1> DEFINE S == {k \in 0 .. N : Sum[N - k] = f[N - k]}
<1>5. 0 \in S
  <2>1. N - 0 = N /\ N \in 0 .. N /\ 0 \in 0 .. N
    BY <1>1
  <2>2. Sum[N] = 0 /\ f[N] = 0
    <3> HIDE DEF f
    <3> QED BY <1>1, <1>2, <1>3, <2>1
  <2> HIDE DEF f
  <2> QED BY <2>1, <2>2
<1>6. ASSUME NEW k \in 0 .. N - 1, k \in S PROVE k + 1 \in S
  <2> DEFINE i == N - (k + 1)
  <2>1. i \in 0 .. N /\ i # N /\ i + 1 = N - k /\ k + 1 \in 0 .. N
    BY <1>1
  <2> HIDE DEF i, f
  <2>2. Sum[i + 1] = f[i + 1]
    BY <1>6, <2>1
  <2>3. Sum[i] = (IF i \in request THEN 2 ^ i ELSE 0) + Sum[i + 1]
        /\ f[i] = (IF i \in request THEN 2 ^ i ELSE 0) + f[i + 1]
    BY <1>1, <1>2, <1>3, <2>1
  <2>4. Sum[i] = f[i]
    BY <2>2, <2>3
  <2> QED BY <2>1, <2>4 DEF i
<1> HIDE DEF S
<1>7. \A k \in 0 .. N : k \in S
  BY <1>1, <1>5, <1>6, UpTo
<1>8. Sum[0] = f[0]
  <2>1. N \in 0 .. N /\ N - N = 0
    BY <1>1
  <2> HIDE DEF f
  <2> QED BY <1>7, <2>1 DEF S
<1>9. f[0] = P[N] - 1 - v[N]
  <2>1. N \in 0 .. N
    BY <1>1
  <2>2. f[0] = P[N] - P[0] - v[N] + v[0]
    BY <1>1
  <2> QED BY <1>1, <2>1, <2>2
<1> QED BY <1>4, <1>8, <1>9

LEMMA NobodyFirst == \A top \in Master : CyclicFirst({}, top) = {}
BY DEF CyclicFirst

(* The sum carries from the master with priority to the first that asks,   *)
(* in the one half or the other (altera_merlin_arbitrator.sv:145-185).     *)
LEMMA MastersInTurn == GrantsCyclicFirst
<1> SUFFICES ASSUME NEW request \in SUBSET Master, NEW top \in Master
             PROVE  next_grant(request, top) = CyclicFirst(request, top)
  BY DEF GrantsCyclicFirst
<1>1. CASE request = {}
  BY <1>1, NobodyFirst DEF next_grant
<1>2. CASE request # {}
  <2>0. N \in Nat \ {0} /\ N = NUM_INPUTS /\ top \in 0 .. N - 1 /\ request \subseteq 0 .. N - 1
    BY InterconnectAssumption DEF N, Master
  <2> DEFINE K == 2 * N
             P == [i \in 0 .. K |-> 2 ^ i]
             s == {j \in 0 .. K - 1 : j \notin request /\ j - N \notin request}
  <2>1. K \in Nat /\ PlaceValues(K, P) /\ \A i \in 0 .. K : P[i] = 2 ^ i
    <3>1. K \in Nat /\ 2 ^ 0 = 1
      BY <2>0
    <3>2. \A i \in 0 .. K : 2 ^ i \in Nat \ {0} /\ 2 ^ (i + 1) = 2 * 2 ^ i
      BY PlacesAssumption DEF N
    <3>3. \A i \in 0 .. K - 1 : i \in 0 .. K /\ i + 1 \in 0 .. K
      BY <3>1
    <3>4. \A i \in 0 .. K : P[i] = 2 ^ i
      OBVIOUS
    <3>5. 0 \in 0 .. K
      BY <3>1
    <3>6. P \in [0 .. K -> Nat \ {0}]
      BY <3>2
    <3> HIDE DEF P, K
    <3> QED BY <3>1, <3>2, <3>3, <3>4, <3>5, <3>6 DEF PlaceValues
  <2> HIDE DEF P
  <2>2. /\ \A j \in 0 .. N - 1 : (j \in s <=> j \notin request) /\ (j + N \in s <=> j \notin request)
        /\ \A j \in N .. K - 1 : j \in s <=> j - N \notin request
    <3>1. \A j \in 0 .. N - 1 : j \in 0 .. K - 1 /\ j - N \notin 0 .. N - 1
                                /\ j + N \in 0 .. K - 1 /\ j + N \notin 0 .. N - 1 /\ j + N - N = j
      BY <2>0
    <3>2. \A j \in N .. K - 1 : j \in 0 .. K - 1 /\ j \notin 0 .. N - 1
      BY <2>0
    <3> QED BY <2>0, <3>1, <3>2
  <2> HIDE DEF s
  <2>3. PICK v : BitsMake(K, P, s, v)
    <3> HIDE DEF K
    <3> QED BY <2>1, NumberExists
  <2> DEFINE none == Mask - Vector(request)
  <2>4. none = v[N] /\ v[N] \in Int /\ P[N] \in Int /\ v[K] \in Int
    <3>1. Vector(request) = P[N] - 1 - v[N]
      <4>1. \A i \in 0 .. N : i \in 0 .. K
        BY <2>0
      <4>2. \A i \in 0 .. N : P[i] = 2 ^ i
        BY <2>1, <4>1
      <4> QED BY <2>1, <2>2, <2>3, <4>2, VectorIs
    <3>2. N \in 0 .. K /\ K \in 0 .. K
      BY <2>0
    <3>3. P[N] \in Int /\ v[N] \in Int /\ v[K] \in Int
      BY <2>1, <2>3, <3>2 DEF PlaceValues, BitsMake
    <3>4. Mask = P[N] - 1
      BY <2>0, <2>1, <3>2 DEF Mask
    <3> QED BY <3>1, <3>3, <3>4
  <2>5. v[K] = none * (2 ^ NUM_INPUTS + 1)
    <3>1. v[K] = v[N] * (P[N] + 1)
      <4>1. \A j \in 0 .. N - 1 : j + N \in s <=> j \in s
        BY <2>2
      <4> QED BY <2>0, <2>1, <2>3, <4>1, Doubled
    <3>2. P[N] = 2 ^ NUM_INPUTS
      <4>1. N \in 0 .. K
        BY <2>0
      <4> QED BY <2>0, <2>1, <4>1
    <3> HIDE DEF none, K
    <3> QED BY <2>4, <3>1, <3>2
  <2>6. PICK g \in request : /\ CyclicFirst(request, top) = {g}
                             /\ \A k \in request : Distance(g, top) <= Distance(k, top)
    BY <1>2, FirstExists
  <2> DEFINE to == IF g >= top THEN g ELSE g + N
             t == {j \in 0 .. K - 1 : ((j < top \/ j > to) /\ j \in s) \/ j = to}
  <2>7. /\ g \in 0 .. N - 1 /\ to \in top .. K - 1 /\ top \in 0 .. K - 1
        /\ to - top = Distance(g, top) /\ to < top + N
    <3>1. g \in Master /\ g \in 0 .. N - 1
      BY <2>0
    <3>2. Distance(g, top) = IF g >= top THEN g - top ELSE g - top + N
      BY <3>1, DistanceIs
    <3> QED BY <2>0, <3>1, <3>2
  <2>8. to \notin s
    <3>1. CASE g >= top
      BY <2>2, <2>7, <3>1
    <3>2. CASE ~(g >= top)
      BY <2>2, <2>7, <3>2
    <3> QED BY <3>1, <3>2
  <2> HIDE DEF to
  <2>9. \A i \in top .. to - 1 : i \in s
    <3> SUFFICES ASSUME NEW i \in top .. to - 1, i \notin s PROVE FALSE
      OBVIOUS
    <3>1. CASE i < N
      <4>1. i \in 0 .. N - 1 /\ i >= top
        BY <2>0, <2>7, <3>1
      <4>2. i \in request /\ i \in Master
        BY <2>0, <2>2, <4>1
      <4>3. Distance(i, top) = i - top
        BY <4>1, <4>2, DistanceIs
      <4>4. Distance(g, top) <= Distance(i, top)
        BY <2>6, <4>2
      <4> QED BY <2>0, <2>7, <4>1, <4>3, <4>4
    <3>2. CASE ~(i < N)
      <4>1. i \in N .. K - 1 /\ i - N \in 0 .. N - 1 /\ ~(i - N >= top)
        BY <2>0, <2>7, <3>2
      <4>2. i - N \in request
        BY <2>2, <4>1
      <4> DEFINE k == i - N
      <4>3. k \in request /\ k \in Master /\ ~(k >= top)
        BY <2>0, <4>1, <4>2
      <4> HIDE DEF k
      <4>4. Distance(k, top) = k - top + N
        BY <4>3, DistanceIs
      <4>5. Distance(g, top) <= Distance(k, top)
        BY <2>6, <4>3
      <4> QED BY <2>0, <2>7, <4>1, <4>4, <4>5 DEF k
    <3> QED BY <3>1, <3>2
  <2>10. \A j \in 0 .. K - 1 : j \in t <=> ((j < top \/ j > to) /\ j \in s) \/ j = to
    OBVIOUS
  <2> HIDE DEF t
  <2>11. PICK w : BitsMake(K, P, t, w)
    <3> HIDE DEF K
    <3> QED BY <2>1, NumberExists
  <2>12. w[K] = v[K] + P[top]
    <3>1. \A i \in 0 .. K - 1 : (i < top \/ i > to) => (i \in t <=> i \in s)
      BY <2>0, <2>7, <2>10
    <3>2. \A i \in top .. to - 1 : i \in s /\ i \notin t
      <4>1. \A i \in top .. to - 1 : i \in 0 .. K - 1 /\ ~(i < top) /\ ~(i > to) /\ i # to
        BY <2>0, <2>7
      <4> QED BY <2>9, <2>10, <4>1
    <3>3. to \in t
      BY <2>0, <2>7, <2>10
    <3> HIDE DEF K
    <3> QED BY <2>1, <2>3, <2>7, <2>8, <2>11, <3>1, <3>2, <3>3, Carries
  <2> DEFINE sum == (none * (2 ^ NUM_INPUTS + 1) + 2 ^ top) % 2 ^ (2 * NUM_INPUTS)
  <2>13. sum = w[K]
    <3>1. top \in 0 .. K /\ K \in 0 .. K
      BY <2>0, <2>7
    <3>2. 2 ^ top = P[top] /\ 2 ^ (2 * NUM_INPUTS) = P[K] /\ P[K] \in Nat \ {0}
      BY <2>0, <2>1, <3>1 DEF PlaceValues
    <3>3. sum = w[K] % P[K]
      BY <2>5, <2>12, <3>2
    <3>4. w[K] \in 0 .. P[K] - 1
      <4> HIDE DEF K
      <4> QED BY <2>1, <2>11, <3>1, NumberBelow
    <3> HIDE DEF sum
    <3> DEFINE x == w[K]
               b == P[K]
               zero == 0
    <3>5. b \in Nat \ {0} /\ x \in 0 .. b - 1 /\ x \in Int /\ x = b * 0 + x
      BY <3>2, <3>4
    <3> HIDE DEF x, b
    <3>6. x % b = x
      BY <3>5, DivisionUnique
    <3> QED BY <3>3, <3>6 DEF x, b
  <2>14. ASSUME NEW j \in 0 .. K - 1 PROVE Bit(sum, j) <=> j \in t
    <3>1. 2 ^ j = P[j]
      <4>1. j \in 0 .. K
        BY <2>0
      <4> QED BY <2>1, <4>1
    <3>2. (w[K] \div P[j]) % 2 = 1 <=> j \in t
      <4> HIDE DEF K
      <4> QED BY <2>1, <2>11, BitIs
    <3> HIDE DEF sum
    <3> QED BY <2>13, <3>1, <3>2 DEF Bit
  <2>15. next_grant(request, top) = {who \in request : Bit(sum, who) \/ Bit(sum, who + NUM_INPUTS)}
    BY DEF next_grant
  <2> HIDE DEF sum
  <2>16. ASSUME NEW who \in request
         PROVE  Bit(sum, who) \/ Bit(sum, who + NUM_INPUTS) <=> who = g
    <3>1. who \in 0 .. N - 1 /\ who \in 0 .. K - 1 /\ who + N \in 0 .. K - 1
      BY <2>0
    <3>2. who \notin s /\ who + N \notin s
      BY <2>2, <3>1
    <3>3. Bit(sum, who) <=> who = to
      BY <2>10, <2>14, <3>1, <3>2
    <3>4. Bit(sum, who + NUM_INPUTS) <=> who + N = to
      BY <2>0, <2>10, <2>14, <3>1, <3>2
    <3>5. who = to \/ who + N = to <=> who = g
      <4>1. CASE g >= top
        BY <2>0, <2>7, <3>1, <4>1 DEF to
      <4>2. CASE ~(g >= top)
        BY <2>0, <2>7, <3>1, <4>2 DEF to
      <4> QED BY <4>1, <4>2
    <3> QED BY <3>3, <3>4, <3>5
  <2> QED BY <2>6, <2>15, <2>16
<1> QED BY <1>1, <1>2

(* Nobody or one is granted, and priority goes to the master after it; a   *)
(* command is begun only by who is granted, and kept up; and a master that *)
(* waits has still to let pass those before it, after the one granted.     *)
BusTypeOK ==
  /\ beats \in [Master -> Nat] /\ waited \in [Master -> Nat]
  /\ top_priority_reg \in Master
  /\ packet_in_progress \in BOOLEAN

GrantInv ==
  /\ saved_grant # {} =>
       \E g \in Master : saved_grant = {g} /\ top_priority_reg = (g + 1) % NUM_INPUTS
  /\ packet_in_progress => src_valid
  /\ partial # {} => partial = saved_grant /\ packet_in_progress

WaitInv ==
  /\ saved_grant = {} => \A who \in Master : waited[who] = 0
  /\ \A who \in Master : waited[who] <= N - 1
  /\ saved_grant # {} =>
       \A who \in Master \ saved_grant :
         beats[who] > 0 => waited[who] + 1 + Distance(who, top_priority_reg) <= N - 1

BusInv == BusTypeOK /\ GrantInv /\ WaitInv

LEMMA InitBusInv == BusInit => BusInv
<1> SUFFICES ASSUME BusInit PROVE BusInv
  OBVIOUS
<1>1. N \in Nat \ {0} /\ 0 \in Master
  BY InterconnectAssumption DEF N, Master
<1>2. BusTypeOK
  <2>1. packet_in_progress \in BOOLEAN
    BY Zenon DEF BusInit
  <2> QED BY <1>1, <2>1 DEF BusInit, BusTypeOK
<1>3. GrantInv /\ WaitInv
  BY <1>1 DEF BusInit, GrantInv, WaitInv
<1> QED BY <1>2, <1>3 DEF BusInv

LEMMA ClockBusInv ==
  ASSUME BusInv,
         NEW raised \in Beats, NEW src_ready \in BOOLEAN, Clock(raised, src_ready)
  PROVE  BusInv'
<1> DEFINE taken == IF src_valid /\ src_ready THEN saved_grant ELSE {}
           over == {who \in taken : beats[who] = 1}
           update == update_grant(taken # {}, over # {})
           grant == next_grant(valid, top_priority_reg)
<1>1. N \in Nat \ {0} /\ Master = 0 .. N - 1
  BY InterconnectAssumption DEF N, Master
<1>2. /\ beats \in [Master -> Nat] /\ waited \in [Master -> Nat]
      /\ top_priority_reg \in Master /\ packet_in_progress \in BOOLEAN
      /\ raised \in [Master -> Nat]
  BY InterconnectAssumption DEF BusInv, BusTypeOK, Beats
<1>3. /\ \A who \in Master : raised[who] > 0 => beats[who] = 0 \/ who \in over
      /\ beats' = [who \in Master |->
                    IF raised[who] > 0 THEN raised[who]
                    ELSE IF who \in taken THEN beats[who] - 1 ELSE beats[who]]
      /\ saved_grant' = IF update THEN grant ELSE saved_grant
      /\ top_priority_reg' =
           IF update /\ valid # {} THEN ((CHOOSE who \in grant : TRUE) + 1) % NUM_INPUTS
           ELSE top_priority_reg
      /\ packet_in_progress' = (over = {} /\ (packet_in_progress \/ src_valid))
      /\ partial' = IF over # {} THEN {} ELSE partial \cup taken
      /\ waited' = [who \in Master |->
                      IF who \in over \/ beats[who] = 0 THEN 0
                      ELSE waited[who] + Cardinality(over)]
  BY DEF Clock
<1>4. /\ valid \in SUBSET Master
      /\ \A who \in Master : who \in valid <=> beats[who] > 0
      /\ src_valid <=> \E who \in saved_grant : who \in Master /\ beats[who] > 0
  BY DEF valid, src_valid
<1>5. /\ taken \subseteq saved_grant
      /\ over = {} \/ \E g \in Master : saved_grant = {g} /\ over = {g} /\ taken = {g} /\ beats[g] = 1
      /\ \A who \in taken : who \in Master /\ beats[who] > 0
  BY <1>2, <1>4 DEF BusInv, GrantInv
<1>6. Cardinality(over) = (IF over = {} THEN 0 ELSE 1)
  <2>1. CASE over = {}
    BY <2>1, FS_EmptySet
  <2>2. CASE over # {}
    <3>1. PICK g \in Master : over = {g}
      BY <1>5, <2>2
    <3> QED BY <3>1, <2>2, FS_Singleton
  <2> QED BY <2>1, <2>2
<1>7. update <=> (~packet_in_progress /\ ~src_valid) \/ over # {}
  BY DEF update_grant
<1>8. grant = CyclicFirst(valid, top_priority_reg)
  BY <1>2, <1>4, MastersInTurn DEF GrantsCyclicFirst
<1> HIDE DEF taken, over, update, grant
<1>9. BusTypeOK'
  <2>1. beats' \in [Master -> Nat]
    <3>1. \A who \in Master :
            (IF raised[who] > 0 THEN raised[who]
             ELSE IF who \in taken THEN beats[who] - 1 ELSE beats[who]) \in Nat
      BY <1>2, <1>5
    <3> QED BY <1>3, <3>1
  <2>2. waited' \in [Master -> Nat]
    BY <1>2, <1>3, <1>6
  <2>3. top_priority_reg' \in Master
    <3>1. CASE update /\ valid # {}
      <4>1. PICK g \in valid : grant = {g}
        BY <1>2, <1>4, <1>8, <3>1, FirstExists
      <4>2. top_priority_reg' = (g + 1) % NUM_INPUTS
        BY <1>3, <3>1, <4>1
      <4> QED BY <1>4, <4>2, NextTop
    <3> QED BY <1>2, <1>3, <3>1
  <2>4. packet_in_progress' \in BOOLEAN
    BY <1>3, Zenon
  <2> QED BY <2>1, <2>2, <2>3, <2>4 DEF BusTypeOK
<1> DEFINE first == top_priority_reg'
(* Nothing is granted anew: the master that is goes on, or has nothing.    *)
<1>10. CASE ~update
  <2>1. /\ saved_grant' = saved_grant /\ top_priority_reg' = top_priority_reg
        /\ over = {} /\ src_valid
    BY <1>3, <1>4, <1>7, <1>10 DEF BusInv, GrantInv
  <2>2. PICK g \in Master : /\ saved_grant = {g} /\ beats[g] > 0
                            /\ top_priority_reg = (g + 1) % NUM_INPUTS
    BY <1>4, <2>1 DEF BusInv, GrantInv
  <2>3. beats'[g] > 0
    <3>1. g \in taken => beats[g] # 1
      BY <2>1 DEF over
    <3>2. ~(raised[g] > 0)
      BY <1>2, <1>3, <2>1, <2>2
    <3> QED BY <1>2, <1>3, <2>2, <3>1, <3>2
  <2>4. packet_in_progress' = TRUE /\ src_valid'
    <3>1. src_valid'
      BY <2>1, <2>2, <2>3 DEF src_valid, valid
    <3> QED BY <1>3, <2>1, <3>1, Zenon
  <2>5. partial' # {} => partial' = saved_grant'
    BY <1>3, <1>5, <2>1, <2>2 DEF BusInv, GrantInv
  <2>6. GrantInv'
    BY <2>1, <2>2, <2>4, <2>5 DEF GrantInv
  <2>7. ASSUME NEW who \in Master
        PROVE  /\ waited'[who] <= N - 1
               /\ who \notin saved_grant' /\ beats'[who] > 0 =>
                    waited'[who] + 1 + Distance(who, top_priority_reg') <= N - 1
    <3>2. waited[who] <= N - 1 /\ waited[who] \in Nat /\ beats[who] \in Nat
      BY <1>2 DEF BusInv, WaitInv
    <3>1. waited'[who] = IF beats[who] = 0 THEN 0 ELSE waited[who]
      <4>1. who \notin over /\ Cardinality(over) = 0
        BY <1>6, <2>1
      <4>2. waited'[who] = IF who \in over \/ beats[who] = 0 THEN 0 ELSE waited[who] + Cardinality(over)
        BY <1>3
      <4> QED BY <3>2, <4>1, <4>2
    <3>3. ASSUME who # g, beats'[who] > 0
          PROVE  waited'[who] + 1 + Distance(who, top_priority_reg) <= N - 1
      <4>1. CASE beats[who] = 0
        <5>1. Distance(who, (g + 1) % NUM_INPUTS) <= N - 2
          BY <3>3, AfterTop, <1>2
        <5>2. Distance(who, top_priority_reg) \in Nat
          <6>1. Distance(who, top_priority_reg) \in 0 .. N - 1
            BY <1>2, DistanceIs
          <6> QED BY <1>1, <6>1
        <5> QED BY <1>1, <2>2, <3>1, <4>1, <5>1, <5>2
      <4>2. CASE beats[who] # 0
        <5>1. beats[who] > 0 /\ who \notin saved_grant /\ saved_grant # {}
          <6>1. beats[who] > 0
            BY <3>2, <4>2
          <6> QED BY <2>2, <3>3, <6>1
        <5>2. waited[who] + 1 + Distance(who, top_priority_reg) <= N - 1
          BY <5>1 DEF BusInv, WaitInv
        <5> QED BY <3>1, <4>2, <5>2
      <4> QED BY <4>1, <4>2
    <3> QED BY <1>1, <2>1, <2>2, <3>1, <3>2, <3>3
  <2>8. WaitInv'
    BY <2>1, <2>2, <2>7 DEF WaitInv
  <2> QED BY <1>9, <2>6, <2>8 DEF BusInv
(* Nobody asks.                                                            *)
<1>11. CASE update /\ valid = {}
  <2>1. /\ saved_grant' = {} /\ \A who \in Master : beats[who] = 0
        /\ ~src_valid /\ taken = {} /\ over = {}
    BY <1>2, <1>3, <1>4, <1>8, <1>11, NobodyFirst DEF taken, over
  <2>2. \A who \in Master : waited'[who] = 0
    BY <1>3, <2>1
  <2>3. ~packet_in_progress' /\ partial' = {}
    BY <1>3, <2>1 DEF BusInv, GrantInv
  <2>4. GrantInv' /\ WaitInv'
    BY <1>1, <2>1, <2>2, <2>3 DEF GrantInv, WaitInv
  <2> QED BY <1>9, <2>4 DEF BusInv
(* The first that asks is granted: all others wait, one turn less.         *)
<1>12. CASE update /\ valid # {}
  <2>1. PICK h \in valid : /\ grant = {h}
                           /\ \A k \in valid : Distance(h, top_priority_reg) <= Distance(k, top_priority_reg)
    BY <1>2, <1>4, <1>8, <1>12, FirstExists
  <2>2. /\ h \in Master /\ saved_grant' = {h}
        /\ top_priority_reg' = (h + 1) % NUM_INPUTS
    BY <1>3, <1>4, <1>12, <2>1
  <2>3. packet_in_progress' = FALSE /\ partial' = {}
    <3>1. over # {} \/ (over = {} /\ ~packet_in_progress /\ ~src_valid)
      BY <1>7, <1>12, Zenon
    <3>2. CASE over # {}
      BY <1>3, <3>2, Zenon
    <3>3. CASE over = {} /\ ~packet_in_progress /\ ~src_valid
      <4>1. taken = {} /\ partial = {}
        BY <3>3 DEF taken, BusInv, GrantInv
      <4>2. packet_in_progress' = FALSE
        BY <1>3, <3>3, Zenon
      <4> QED BY <1>3, <3>3, <4>1, <4>2
    <3> QED BY <3>1, <3>2, <3>3
  <2>4. GrantInv'
    BY <2>2, <2>3 DEF GrantInv
  <2>5. ASSUME NEW who \in Master
        PROVE  /\ waited'[who] <= N - 1
               /\ who \notin saved_grant' /\ beats'[who] > 0 =>
                    waited'[who] + 1 + Distance(who, top_priority_reg') <= N - 1
    <3>1. /\ waited'[who] = IF who \in over \/ beats[who] = 0 THEN 0
                           ELSE IF over = {} THEN waited[who] ELSE waited[who] + 1
          /\ waited[who] <= N - 1 /\ waited[who] \in Nat /\ beats[who] \in Nat
      BY <1>2, <1>3, <1>6 DEF BusInv, WaitInv
    <3>2. Distance(who, top_priority_reg) \in Nat /\ Distance(who, top_priority_reg') \in Nat
      <4>1. /\ Distance(who, top_priority_reg) \in 0 .. N - 1
            /\ Distance(who, top_priority_reg') \in 0 .. N - 1
        BY <1>2, <1>9, DistanceIs DEF BusTypeOK
      <4> QED BY <1>1, <4>1
    <3>3. ASSUME who # h
          PROVE  /\ Distance(who, top_priority_reg') <= N - 2
                 /\ beats[who] > 0 => Distance(who, top_priority_reg') + 1 <= Distance(who, top_priority_reg)
      BY <1>2, <1>4, <2>1, <2>2, <3>3, AfterTop
    <3>4. CASE who \in over \/ beats[who] = 0
      BY <1>1, <2>2, <3>1, <3>2, <3>3, <3>4
    <3>5. CASE who \notin over /\ beats[who] # 0
      <4>1. beats[who] > 0
        BY <3>1, <3>5
      <4>2. CASE saved_grant = {}
        <5>1. over = {} /\ waited[who] = 0
          BY <1>5, <4>2 DEF BusInv, WaitInv
        <5> QED BY <1>1, <2>2, <3>1, <3>2, <3>3, <4>1, <5>1
      <4>3. CASE saved_grant # {} /\ who \notin saved_grant
        <5>1. waited[who] + 1 + Distance(who, top_priority_reg) <= N - 1
          BY <4>1, <4>3 DEF BusInv, WaitInv
        <5> QED BY <1>1, <2>2, <3>1, <3>2, <3>3, <4>1, <5>1, SMTT(30)
      <4>4. CASE who \in saved_grant
        <5>1. saved_grant = {who} /\ src_valid
          BY <1>4, <4>1, <4>4 DEF BusInv, GrantInv
        <5>2. over = {who}
          BY <1>5, <1>7, <1>12, <5>1
        <5> QED BY <3>5, <5>2
      <4> QED BY <4>2, <4>3, <4>4
    <3> QED BY <3>4, <3>5
  <2>6. WaitInv'
    BY <2>2, <2>5 DEF WaitInv
  <2> QED BY <1>9, <2>4, <2>6 DEF BusInv
<1> QED BY <1>10, <1>11, <1>12

LEMMA NextBusInv ==
  BusInv /\ [BusNext]_busvars => BusInv'
<1> SUFFICES ASSUME BusInv, [BusNext]_busvars PROVE BusInv'
  OBVIOUS
<1>1. CASE BusNext
  BY <1>1, ClockBusInv DEF BusNext
<1>2. CASE UNCHANGED busvars
  BY <1>2 DEF busvars, BusInv, BusTypeOK, GrantInv, WaitInv, src_valid, valid
<1> QED BY <1>1, <1>2

LEMMA BusInvServes == BusInv => CommandsWhole /\ FairShares
<1> SUFFICES ASSUME BusInv PROVE CommandsWhole /\ FairShares
  OBVIOUS
<1>1. Cardinality(partial) <= 1
  <2>1. CASE partial = {}
    BY <2>1, FS_EmptySet
  <2>2. CASE partial # {}
    <3>1. PICK g \in Master : partial = {g}
      BY <2>2 DEF BusInv, GrantInv
    <3> QED BY <3>1, FS_Singleton
  <2> QED BY <2>1, <2>2
<1> QED BY <1>1 DEF BusInv, GrantInv, WaitInv, CommandsWhole, FairShares, N

-----------------------------------------------------------------------------
(* The parts that SystemKept is about.                                     *)
AddressInv == call # NoCall /\ call[1] = "address" => call[2] \in Nat

LEMMA NextAddressInv == Cases => AddressInv'
<1> SUFFICES ASSUME Cases PROVE AddressInv'
  OBVIOUS
<1>1. CASE \E word \in 0 .. 2 ^ 13 - 1 : call' = <<"address", 4 * word>>
  <2>1. PICK word \in 0 .. 2 ^ 13 - 1 : call' = <<"address", 4 * word>>
    BY <1>1
  <2>2. 2 ^ 13 = 8192
    OBVIOUS
  <2>3. word \in Nat
    BY <2>1, <2>2
  <2> QED BY <2>1, <2>3 DEF AddressInv
<1>2. CASE ~\E word \in 0 .. 2 ^ 13 - 1 : call' = <<"address", 4 * word>>
  <2>1. call'[1] # "address"
    BY <1>2 DEF Cases
  <2> QED BY <2>1 DEF AddressInv
<1> QED BY <1>1, <1>2

(* Heap and stack meet only with a report, until a number of bytes is      *)
(* allocated that is not aligned, and nothing is stopped that had room;    *)
(* commands reach a slave whole and no master waits for more than one of   *)
(* each other, the LEDs show a setting of the switches no older than the   *)
(* last round, and every address leads to its device, in any number of     *)
(* steps and for any number of masters (alt_sbrk.c:97-131,                 *)
(* altera_merlin_arbitrator.sv:145-185, Nios_Qsys_cmd_xbar_mux.sv:110-240, *)
(* lights.c:8-13, Nios_Qsys_addr_router.sv:195-225).                       *)
THEOREM SystemHolds == LibrarySpec => []SystemKept
<1> DEFINE Inv == /\ part = "stack" => StackInv
                  /\ part = "bus" => BusInv
                  /\ part = "lights" => LightsInv
                  /\ part = "calls" => AddressInv
<1>1. LibraryInit => Inv
  <2> SUFFICES ASSUME LibraryInit PROVE Inv
    OBVIOUS
  <2>1. StackInv /\ BusInv /\ LightsInv
    BY InitStackInv, InitBusInv, InitLightsInv DEF LibraryInit
  <2>2. AddressInv
    BY DEF LibraryInit, AddressInv
  <2> QED BY <2>1, <2>2
<1>2. Inv /\ [LibraryNext]_vars => Inv'
  <2> SUFFICES ASSUME Inv, [LibraryNext]_vars PROVE Inv'
    OBVIOUS
  <2>1. part' = part
    BY DEF LibraryNext, vars
  <2>2. CASE part = "stack"
    <3>1. [StackNext]_stackvars
      BY <2>2 DEF LibraryNext, vars
    <3> QED BY <2>1, <2>2, <3>1, NextStackInv
  <2>3. CASE part = "bus"
    <3>1. [BusNext]_busvars
      BY <2>3 DEF LibraryNext, vars
    <3> QED BY <2>1, <2>3, <3>1, NextBusInv
  <2>4. CASE part = "lights"
    <3>1. [LightsNext]_lightsvars
      BY <2>4 DEF LibraryNext, vars
    <3> QED BY <2>1, <2>4, <3>1, NextLightsInv
  <2>5. CASE part = "calls"
    <3>1. Cases \/ UNCHANGED call
      BY <2>5 DEF LibraryNext, vars
    <3>2. UNCHANGED call => AddressInv'
      BY <2>5 DEF AddressInv
    <3> QED BY <2>1, <2>5, <3>1, <3>2, NextAddressInv
  <2> QED BY <2>1, <2>2, <2>3, <2>4, <2>5
<1>3. Inv => SystemKept
  <2> SUFFICES ASSUME Inv PROVE SystemKept
    OBVIOUS
  <2>1. part = "stack" => HeapMeetsNoStack /\ LimitInHeap
    <3>1. StackInv => LimitInHeap
      BY Zenon DEF StackInv
    <3>2. StackInv => HeapMeetsNoStack
      BY DEF StackInv, HeapMeetsNoStack
    <3> QED BY <3>1, <3>2
  <2>2. part = "bus" => GrantsCyclicFirst /\ CommandsWhole /\ FairShares
    BY BusInvServes, MastersInTurn
  <2>3. part = "lights" => LedsFollow
    BY DEF LightsInv, LedsFollow
  <2>4. part = "calls" /\ call # NoCall /\ call[1] = "address" => RoutedRight(call[2])
    BY RoutesRight DEF AddressInv
  <2> QED BY <2>1, <2>2, <2>3, <2>4 DEF SystemKept
<1> QED BY <1>1, <1>2, <1>3, PTL DEF LibrarySpec

-----------------------------------------------------------------------------
(* The caches. *)

L == LINE_SIZE
C == CacheLines

LEMMA LineBounds ==
  ASSUME NEW a \in Int
  PROVE  Line(a) \in Int /\ a % L \in 0 .. L - 1 /\ a = L * Line(a) + (a % L)
BY CacheAssumption, Division DEF Line, L

LEMMA LineIs ==
  ASSUME NEW l \in Int, NEW r \in 0 .. L - 1, NEW a \in Int, a = L * l + r
  PROVE  Line(a) = l
BY CacheAssumption, DivisionUnique DEF Line, L

LEMMA LineSteps ==
  ASSUME NEW a \in Int, NEW k \in Int PROVE Line(a + k * L) = Line(a) + k
<1>1. L \in Nat \ {0} /\ a + k * L = a + L * k
  BY CacheAssumption DEF L
<1>2. (a + L * k) \div L = a \div L + k
  BY <1>1, Carried
<1> QED BY <1>1, <1>2 DEF Line, L

LEMMA Smaller ==
  ASSUME NEW b \in Nat \ {0}, NEW p \in Int, NEW q \in Int, b * p < b * q
  PROVE  p < q
<1>1. p >= q => b * p >= b * q
  BY SMTT(30)
<1> QED BY <1>1

(* Enough line lengths for len bytes, and no more.                         *)
Lengths(len) == (len + LINE_SIZE - 1) \div LINE_SIZE

LEMMA LengthsAre ==
  ASSUME NEW len \in Nat
  PROVE  Lengths(len) \in Nat /\ len <= L * Lengths(len) /\ L * Lengths(len) <= len + L - 1
<1> DEFINE x == len + L - 1
           n == x \div L
           r == x % L
<1>1. L \in Nat \ {0} /\ x \in Int
  BY CacheAssumption DEF L
<1> HIDE DEF x
<1>2. n \in Int /\ r \in 0 .. L - 1 /\ x = L * n + r
  BY <1>1, Division
<1> HIDE DEF n, r
<1>3. len <= L * n /\ L * n <= len + L - 1
  BY <1>1, <1>2 DEF x
<1>4. n \in Nat
  <2>1. L * (-1) < L * n
    BY <1>1, <1>2, <1>3
  <2>2. -1 < n
    BY <1>1, <1>2, <2>1, Smaller
  <2> QED BY <1>2, <2>2
<1> QED BY <1>3, <1>4 DEF n, x, Lengths, L

(* A flush gets to the line of each address of its region: of an unaligned *)
(* one by the instruction that it executes besides.                        *)
LEMMA Reached ==
  ASSUME NEW start \in Nat, NEW len \in Nat, NEW a \in start .. start + len - 1
  PROVE  \E t \in Touched(start, len) : Line(t) = Line(a)
<1> DEFINE n == Lengths(len)
           q == Line(start)
           s == start % L
           l == Line(a)
           k == l - q
<1>1. /\ L \in Nat \ {0} /\ q \in Int /\ s \in 0 .. L - 1 /\ start = L * q + s
      /\ l \in Int /\ L * l <= a /\ a < L * l + L
      /\ n \in Nat /\ len <= L * n
  <2>1. L \in Nat \ {0}
    BY CacheAssumption DEF L
  <2>2. q \in Int /\ s \in 0 .. L - 1 /\ start = L * q + s
    BY LineBounds
  <2>3. n \in Nat /\ len <= L * n
    BY LengthsAre
  <2> DEFINE u == a % L
  <2>4. a \in Int /\ l \in Int /\ u \in 0 .. L - 1 /\ a = L * l + u
    BY LineBounds
  <2> HIDE DEF l, u
  <2>5. L * l <= a /\ a < L * l + L
    BY <2>1, <2>4
  <2> QED BY <2>1, <2>2, <2>3, <2>4, <2>5
<1>2. /\ Touched(start, len) = {start + j * L : j \in 0 .. n - 1} \cup
                                 (IF s = 0 THEN {} ELSE {start + n * L})
  BY DEF Touched, Steps, Lengths, L
<1>3. Line(start + k * L) = l
  <2>1. k \in Int
    BY <1>1
  <2> HIDE DEF k
  <2>2. Line(start + k * L) = q + k
    BY <2>1, LineSteps
  <2> QED BY <1>1, <2>2 DEF k
<1> HIDE DEF n, q, s, l
<1>4. k \in Nat
  <2>1. L * q < L * (l + 1) /\ l + 1 \in Int
    BY <1>1
  <2>2. q < l + 1
    BY <1>1, <2>1, Smaller
  <2> QED BY <1>1, <2>2
<1>5. L * k = L * l - L * q
  BY <1>1
<1> HIDE DEF k
<1>6. CASE s = 0
  <2>1. L * k < L * n
    BY <1>1, <1>4, <1>5, <1>6
  <2>2. k < n
    BY <1>1, <1>4, <2>1, Smaller
  <2>3. k \in 0 .. n - 1
    BY <1>1, <1>4, <2>2
  <2>4. start + k * L \in Touched(start, len)
    BY <1>2, <2>3
  <2> QED BY <1>3, <2>4 DEF l
<1>7. CASE s # 0
  <2>1. L * k < L * (n + 1) /\ n + 1 \in Int
    BY <1>1, <1>4, <1>5
  <2>2. k < n + 1
    BY <1>1, <1>4, <2>1, Smaller
  <2>3. k = n \/ k \in 0 .. n - 1
    BY <1>1, <1>4, <2>2
  <2>4. start + k * L \in Touched(start, len)
    BY <1>2, <1>7, <2>3
  <2> QED BY <1>3, <2>4 DEF l
<1> QED BY <1>6, <1>7

(* As many line lengths as the cache has lines get to each of its indices. *)
LEMMA EachIndexReached ==
  ASSUME NEW start \in Nat, NEW l \in Int
  PROVE  \E t \in Steps(start, C * L) : Index(Line(t)) = Index(l)
<1> DEFINE q == Line(start)
           d == l - q
           k == d % C
           turns == d \div C
           n == Lengths(C * L)
<1>1. L \in Nat \ {0} /\ C \in Nat \ {0}
  BY CacheAssumption DEF L, C
<1>2. n = C
  <2> DEFINE x == C * L + L - 1
             r == L - 1
  <2>1. x \in Int /\ r \in 0 .. L - 1 /\ x = L * C + r
    BY <1>1
  <2> HIDE DEF x, r
  <2>2. x \div L = C
    BY <1>1, <2>1, DivisionUnique
  <2> QED BY <2>2 DEF x, Lengths, L
<1>3. q \in Int /\ d \in Int
  BY LineBounds
<1> HIDE DEF d
<1>4. k \in 0 .. C - 1 /\ turns \in Int /\ d = C * turns + k
  BY <1>1, <1>3, Division
<1> HIDE DEF k, turns
<1>5. Index(q + k) = Index(l)
  <2> DEFINE y == q + k
  <2>1. y \in Int /\ l = y + C * turns
    BY <1>1, <1>3, <1>4 DEF d
  <2> HIDE DEF y
  <2>2. (y + C * turns) % C = y % C
    BY <1>1, <1>4, <2>1, Carried
  <2> QED BY <2>1, <2>2 DEF y, Index, C
<1>6. Line(start + k * L) = q + k
  BY <1>1, <1>4, LineSteps
<1>7. start + k * L \in Steps(start, C * L)
  BY <1>2, <1>4 DEF Steps, Lengths, L
<1> QED BY <1>5, <1>6, <1>7

LEMMA IndexReached ==
  ASSUME NEW start \in Nat, NEW len \in Nat, NEW a \in start .. start + len - 1
  PROVE  \E t \in Touched(start, Trimmed(len)) : Index(Line(t)) = Index(Line(a))
<1>1. CASE Trimmed(len) = len
  BY <1>1, Reached
<1>2. CASE Trimmed(len) # len
  <2>1. Trimmed(len) = C * L
    BY <1>2 DEF Trimmed, C, L
  <2>2. Line(a) \in Int
    BY LineBounds
  <2>3. PICK t \in Steps(start, C * L) : Index(Line(t)) = Index(Line(a))
    BY <2>2, EachIndexReached
  <2>4. t \in Touched(start, C * L)
    BY <2>3 DEF Touched
  <2> QED BY <2>1, <2>3, <2>4
<1> QED BY <1>1, <1>2

(* It gets to no line but those of the region and, if that is unaligned,   *)
(* the one behind it.                                                      *)
LEMMA NoneFurther ==
  ASSUME NEW start \in Nat, NEW len \in Nat, NEW t \in Touched(start, len)
  PROVE  \E a \in start .. start + len - 1 + (IF start % L = 0 THEN 0 ELSE L - 1) :
           Line(t) = Line(a)
<1> DEFINE n == Lengths(len)
           q == Line(start)
           s == start % L
<1>1. /\ L \in Nat \ {0} /\ q \in Int /\ s \in 0 .. L - 1 /\ start = L * q + s
      /\ n \in Nat /\ len <= L * n /\ L * n <= len + L - 1
  BY CacheAssumption, LineBounds, LengthsAre DEF L
<1>2. t \in {start + j * L : j \in 0 .. n - 1} \cup (IF s = 0 THEN {} ELSE {start + n * L})
  BY DEF Touched, Steps, Lengths, L
<1>3. (\E j \in 0 .. n - 1 : t = start + j * L) \/ (s # 0 /\ t = start + n * L)
  BY <1>2
<1> HIDE DEF n, s
<1>4. CASE \E j \in 0 .. n - 1 : t = start + j * L
  <2>1. PICK j \in 0 .. n - 1 : t = start + j * L
    BY <1>4
  <2>2. j * L <= (n - 1) * L
    <3>1. j <= n - 1 /\ j \in Nat /\ n - 1 \in Int
      BY <1>1, <2>1
    <3> QED BY <1>1, <3>1, SMTT(30)
  <2>3. j * L \in Nat /\ (n - 1) * L = L * n - L
    BY <1>1, <2>1
  <2>4. t \in start .. start + len - 1
    BY <1>1, <2>1, <2>2, <2>3
  <2> QED BY <1>1, <2>4 DEF s
<1>5. CASE s # 0 /\ t = start + n * L
  <2> HIDE DEF q
  <2>1. Line(t) = q + n
    BY <1>1, <1>5, LineSteps DEF q
  <2>2. CASE n = 0
    <3>1. Line(t) = Line(start) /\ start \in start .. start + len - 1 + (L - 1)
      BY <1>1, <1>5, <2>1, <2>2 DEF q
    <3> QED BY <1>5, <3>1 DEF s
  <2>3. CASE n # 0
    <3> DEFINE b == t - s
    <3>1. L * n = n * L /\ L * (q + n) = L * q + L * n /\ L * n \in Nat /\ L * q \in Int
      BY <1>1
    <3>2. b = L * (q + n) + 0 /\ b \in Int /\ q + n \in Int /\ 0 \in 0 .. L - 1
      BY <1>1, <1>5, <3>1
    <3>3. L * n >= L
      <4>1. n >= 1
        BY <1>1, <2>3
      <4> QED BY <1>1, <4>1, SMTT(30)
    <3>4. b \in start .. start + len - 1 + (L - 1)
      BY <1>1, <1>5, <3>1, <3>3
    <3> HIDE DEF b
    <3>5. Line(b) = q + n
      BY <3>2, LineIs
    <3> QED BY <1>5, <2>1, <3>4, <3>5 DEF s
  <2> QED BY <2>2, <2>3
<1> QED BY <1>3, <1>4, <1>5

(* A block of whole lines has every address of its lines.                  *)
LEMMA WholeLines ==
  ASSUME NEW start \in Nat, NEW len \in Nat, start % L = 0, len % L = 0,
         NEW a \in Int, NEW b \in start .. start + len - 1, Line(a) = Line(b)
  PROVE  a \in start .. start + len - 1
<1> DEFINE q == Line(start)
           l == Line(b)
           n == len \div L
           r == a % L
           u == b % L
<1>1. L \in Nat \ {0}
  BY CacheAssumption DEF L
<1>2. q \in Int /\ start = L * q
  <2>1. q \in Int /\ start = L * q + (start % L)
    BY LineBounds
  <2> QED BY <1>1, <2>1
<1>3. n \in Int /\ len = L * n
  BY <1>1, Division
<1>4. l \in Int /\ r \in 0 .. L - 1 /\ u \in 0 .. L - 1 /\ a = L * l + r /\ b = L * l + u
  <2>1. r \in 0 .. L - 1 /\ a = L * l + r
    BY LineBounds
  <2>2. l \in Int /\ u \in 0 .. L - 1 /\ b = L * l + u
    BY LineBounds
  <2> QED BY <2>1, <2>2
<1> HIDE DEF q, l, n, r, u
<1>5. q <= l
  <2>1. L * q < L * (l + 1) /\ l + 1 \in Int
    BY <1>1, <1>2, <1>4
  <2>2. q < l + 1
    BY <1>1, <1>2, <2>1, Smaller
  <2> QED BY <1>2, <1>4, <2>2
<1>6. l < q + n
  <2>1. L * l < L * (q + n) /\ q + n \in Int
    BY <1>1, <1>2, <1>3, <1>4
  <2> QED BY <1>1, <1>4, <2>1, Smaller
<1>7. L * q <= L * l /\ L * (l + 1) <= L * (q + n)
  <2>1. q <= l /\ l + 1 <= q + n
    BY <1>2, <1>3, <1>4, <1>5, <1>6
  <2> QED BY <1>1, <1>2, <1>3, <1>4, <2>1, SMTT(30)
<1>8. L * (l + 1) = L * l + L /\ L * (q + n) = L * q + L * n
  BY <1>1, <1>2, <1>3, <1>4
<1> QED BY <1>1, <1>2, <1>3, <1>4, <1>7, <1>8

LEMMA InRegion ==
  ASSUME NEW r \in Region
  PROVE  /\ r.start \in Nat /\ r.len \in Nat
         /\ \A a \in r.start .. r.start + r.len - 1 : a \in Int
BY DEF Region

LEMMA FlushedReaches ==
  ASSUME NEW r \in Region, dcache \subseteq Int PROVE LinesOf(r) \cap dcache \subseteq Flushed(r)
<1> SUFFICES ASSUME NEW l \in LinesOf(r), l \in dcache PROVE l \in Flushed(r)
  OBVIOUS
<1>1. PICK a \in r.start .. r.start + r.len - 1 : l = Line(a)
  BY DEF LinesOf
<1>2. r.start \in Nat /\ r.len \in Nat
  BY InRegion
<1>3. \E t \in Touched(r.start, r.len) : Line(t) = Line(a)
  BY <1>1, <1>2, Reached
<1>4. \E t \in Touched(r.start, Trimmed(r.len)) : Index(Line(t)) = Index(Line(a))
  BY <1>1, <1>2, IndexReached
<1> QED BY <1>1, <1>3, <1>4 DEF Flushed, ByAddress, ByIndex

LEMMA FlushedAll ==
  ASSUME NEW chosen, chosen \subseteq Int PROVE ByIndex(chosen, Steps(0, All.len)) = chosen
<1>1. All.len = C * L /\ 0 \in Nat
  BY DEF All, C, L
<1>2. \A l \in chosen : \E t \in Steps(0, C * L) : Index(Line(t)) = Index(l)
  BY <1>1, EachIndexReached
<1> QED BY <1>1, <1>2 DEF ByIndex

LEMMA DiscardNear ==
  ASSUME NEW r \in Region
  PROVE  Discarded(r) \subseteq
           (IF r.start % LINE_SIZE = 0 THEN LinesOf(r)
            ELSE LinesOf([r EXCEPT !.len = @ + LINE_SIZE - 1]))
<1> SUFFICES ASSUME NEW l \in Discarded(r)
             PROVE  l \in IF r.start % LINE_SIZE = 0 THEN LinesOf(r)
                          ELSE LinesOf([r EXCEPT !.len = @ + LINE_SIZE - 1])
  OBVIOUS
<1> DEFINE q == [r EXCEPT !.len = @ + LINE_SIZE - 1]
<1>1. r.start \in Nat /\ r.len \in Nat /\ L \in Nat
  BY CacheAssumption, InRegion DEF L
<1>2. PICK t \in Touched(r.start, r.len) : Line(t) = l
  BY DEF Discarded, ByAddress
<1>3. PICK a \in r.start .. r.start + r.len - 1 + (IF r.start % L = 0 THEN 0 ELSE L - 1) :
        Line(t) = Line(a)
  BY <1>1, NoneFurther
<1>4. CASE r.start % L = 0
  <2>1. a \in r.start .. r.start + r.len - 1
    BY <1>1, <1>3, <1>4
  <2> QED BY <1>2, <1>3, <1>4, <2>1 DEF LinesOf, L
<1>5. CASE r.start % L # 0
  <2>1. q.start = r.start /\ q.len = r.len + LINE_SIZE - 1
    BY DEF Region
  <2>2. a \in q.start .. q.start + q.len - 1
    BY <1>1, <1>3, <1>5, <2>1 DEF L
  <2> QED BY <1>2, <1>3, <1>5, <2>2 DEF LinesOf, L
<1> QED BY <1>4, <1>5

(* Blocks that are used uncached are regions of whole lines.               *)
CacheInv ==
  /\ CacheTypeOK /\ FlushReaches /\ DiscardIsNear /\ UncachedStaysOut /\ FlashIsFresh
  /\ \A b \in uncached : b \in Region /\ Unshared(b)

LEMMA InitCacheInv == CacheInit => CacheInv
BY DEF CacheInit, CacheInv, CacheTypeOK, FlushReaches, DiscardIsNear, UncachedStaysOut,
       FlashIsFresh

(* Lines that are dropped disturb nothing that was promised of the rest.   *)
LEMMA DropKeeps ==
  ASSUME CacheInv, NEW lines, Drop(lines), UNCHANGED <<icache, uncached>>
  PROVE  CacheTypeOK' /\ UncachedStaysOut' /\ FlashIsFresh'
BY DEF CacheInv, Drop, CacheTypeOK, UncachedStaysOut, FlashIsFresh

LEMMA CachedCacheInv ==
  ASSUME CacheInv, NEW a \in 0 .. MemoryLines * LINE_SIZE - 1, NEW store \in BOOLEAN,
         Cached(a, store)
  PROVE  CacheInv'
<1> DEFINE line == Line(a)
           evicted == {l \in dcache : Index(l) = Index(line) /\ l # line}
<1>1. a \in Nat /\ MemoryLines \in Nat /\ L \in Nat \ {0}
  BY CacheAssumption DEF L
<1>2. line \in 0 .. MemoryLines - 1
  <2> DEFINE r == a % L
  <2>1. line \in Int /\ r \in 0 .. L - 1 /\ a = L * line + r
    BY <1>1, LineBounds
  <2> HIDE DEF line, r
  <2>2. a < MemoryLines * L /\ MemoryLines * L = L * MemoryLines
    BY <1>1 DEF L
  <2>3. L * line < L * MemoryLines
    BY <1>1, <2>1, <2>2
  <2>4. line < MemoryLines
    BY <1>1, <2>1, <2>3, Smaller
  <2>5. L * (-1) < L * line
    BY <1>1, <2>1
  <2>6. -1 < line
    BY <1>1, <2>1, <2>5, Smaller
  <2> QED BY <1>1, <2>1, <2>4, <2>6
<1>3. /\ ~ Shared(a)
      /\ dcache' = (dcache \ evicted) \cup {line}
      /\ stale' = stale \ evicted
      /\ dirty' = (dirty \ evicted) \cup (IF store THEN {line} ELSE {})
      /\ called' = NoRegion
      /\ UNCHANGED <<flushda, icache, uncached>>
  BY DEF Cached
<1> HIDE DEF line
<1>4. CacheTypeOK'
  <2>1. /\ dirty' \subseteq dcache' /\ dcache' \subseteq 0 .. MemoryLines - 1
        /\ stale' \subseteq dcache' /\ icache' \subseteq 0 .. MemoryLines - 1
    BY <1>2, <1>3 DEF CacheInv, CacheTypeOK, FlashIsFresh
  <2>2. \A l, k \in dcache' : Index(l) = Index(k) => l = k
    BY <1>3 DEF CacheInv, CacheTypeOK
  <2> QED BY <2>1, <2>2 DEF CacheTypeOK, Index
<1>5. FlushReaches' /\ DiscardIsNear' /\ FlashIsFresh'
  BY <1>3 DEF CacheInv, FlushReaches, DiscardIsNear, FlashIsFresh
<1>6. ASSUME NEW b \in uncached PROVE LinesOf(b) \cap dcache' = {}
  <2>1. line \notin LinesOf(b)
    <3> SUFFICES ASSUME line \in LinesOf(b) PROVE FALSE
      OBVIOUS
    <3>1. b \in Region /\ b.start % L = 0 /\ b.len % L = 0
      BY DEF CacheInv, Unshared, L
    <3>2. PICK c \in b.start .. b.start + b.len - 1 : line = Line(c)
      BY DEF LinesOf
    <3>3. a \in b.start .. b.start + b.len - 1
      BY <1>1, <3>1, <3>2, InRegion, WholeLines DEF line
    <3> QED BY <1>3, <3>3 DEF Shared
  <2> QED BY <1>3, <2>1 DEF CacheInv, UncachedStaysOut
<1>7. UncachedStaysOut' /\ \A b \in uncached' : b \in Region /\ Unshared(b)
  BY <1>3, <1>6 DEF CacheInv, UncachedStaysOut, LinesOf
<1> QED BY <1>4, <1>5, <1>7 DEF CacheInv, Unshared

LEMMA ProgramCacheInv ==
  ASSUME CacheInv, NEW r \in Region, LinesOf(r) \cap dcache \subseteq Flushed(r),
         ProgramFlash(r, r)
  PROVE  CacheInv'
<1>1. /\ dcache' = dcache \ Flushed(r) /\ dirty' = dirty \ Flushed(r)
      /\ stale' = (stale \cup (dcache \cap LinesOf(r))) \ Flushed(r)
      /\ called' = [cache |-> "data", region |-> r, lost |-> {}]
      /\ UNCHANGED <<flushda, icache, uncached>>
  BY DEF ProgramFlash
<1>2. stale' = {}
  BY <1>1 DEF CacheInv, FlashIsFresh
<1>3. CacheTypeOK' /\ UncachedStaysOut' /\ FlashIsFresh'
  BY <1>1, <1>2 DEF CacheInv, CacheTypeOK, UncachedStaysOut, FlashIsFresh, LinesOf
<1>4. FlushReaches' /\ DiscardIsNear'
  BY <1>1 DEF FlushReaches, DiscardIsNear, LinesOf
<1> QED BY <1>1, <1>3, <1>4 DEF CacheInv

LEMMA FlushCacheInv ==
  ASSUME CacheInv, NEW r \in Region,
         \/ alt_dcache_flush(r)
         \/ alt_dcache_flush_no_writeback(r)
         \/ alt_icache_flush(r)
         \/ alt_remap_uncached(r)
         \/ alt_erase_flash_block(r)
  PROVE  CacheInv'
<1>1. dcache \subseteq Int /\ icache \subseteq Int
  BY DEF CacheInv, CacheTypeOK
<1>2. LinesOf(r) \cap dcache \subseteq Flushed(r)
  BY <1>1, FlushedReaches
<1>3. CASE alt_dcache_flush(r)
  <2>1. /\ Drop(Flushed(r)) /\ UNCHANGED <<icache, uncached>>
        /\ called' = [cache |-> "data", region |-> r, lost |-> {}]
    BY <1>3 DEF alt_dcache_flush
  <2>2. FlushReaches' /\ DiscardIsNear'
    BY <1>2, <2>1 DEF Drop, FlushReaches, DiscardIsNear, LinesOf
  <2> QED BY <2>1, <2>2, DropKeeps DEF CacheInv
<1>4. CASE alt_dcache_flush_no_writeback(r)
  <2>1. /\ Drop(Discarded(r)) /\ UNCHANGED <<icache, uncached>>
        /\ called' = [cache |-> "data", region |-> r, lost |-> dirty \cap Discarded(r)]
    BY <1>4 DEF alt_dcache_flush_no_writeback
  <2>2. LinesOf(r) \cap dcache \subseteq Discarded(r)
    <3> SUFFICES ASSUME NEW l \in LinesOf(r), l \in dcache PROVE l \in Discarded(r)
      OBVIOUS
    <3>1. PICK a \in r.start .. r.start + r.len - 1 : l = Line(a)
      BY DEF LinesOf
    <3>2. \E t \in Touched(r.start, r.len) : Line(t) = Line(a)
      BY <3>1, InRegion, Reached
    <3> QED BY <3>1, <3>2 DEF Discarded, ByAddress
  <2>3. FlushReaches'
    BY <2>1, <2>2 DEF Drop, FlushReaches, LinesOf
  <2>4. DiscardIsNear'
    <3>1. called'.region = r /\ called'.lost \subseteq Discarded(r)
      BY <2>1
    <3> QED BY <3>1, DiscardNear DEF DiscardIsNear, LinesOf
  <2> QED BY <2>1, <2>3, <2>4, DropKeeps DEF CacheInv
<1>5. CASE alt_icache_flush(r)
  <2>1. /\ icache' = icache \ ByIndex(icache, Touched(r.start, Trimmed(r.len)))
        /\ called' = [cache |-> "instruction", region |-> r, lost |-> {}]
        /\ UNCHANGED <<flushda, dcache, dirty, stale, uncached>>
    BY <1>5 DEF alt_icache_flush
  <2>2. ASSUME NEW l \in LinesOf(r), l \in icache
        PROVE  l \in ByIndex(icache, Touched(r.start, Trimmed(r.len)))
    <3>1. PICK a \in r.start .. r.start + r.len - 1 : l = Line(a)
      BY <2>2 DEF LinesOf
    <3>2. \E t \in Touched(r.start, Trimmed(r.len)) : Index(Line(t)) = Index(Line(a))
      BY <3>1, InRegion, IndexReached
    <3> QED BY <2>2, <3>1, <3>2 DEF ByIndex
  <2>3. FlushReaches' /\ DiscardIsNear'
    BY <2>1, <2>2 DEF FlushReaches, DiscardIsNear, LinesOf
  <2>4. CacheTypeOK' /\ UncachedStaysOut' /\ FlashIsFresh'
    BY <2>1 DEF CacheInv, CacheTypeOK, UncachedStaysOut, FlashIsFresh, LinesOf
  <2> QED BY <2>1, <2>3, <2>4 DEF CacheInv
<1>6. CASE alt_remap_uncached(r)
  <2>1. /\ Unshared(r) /\ uncached' = uncached \cup {r}
        /\ Drop(Flushed(r)) /\ called' = NoRegion /\ icache' = icache
    BY <1>6 DEF alt_remap_uncached
  <2>2. CacheTypeOK' /\ FlashIsFresh'
    BY <2>1 DEF CacheInv, Drop, CacheTypeOK, FlashIsFresh
  <2>3. UncachedStaysOut'
    BY <1>2, <2>1 DEF CacheInv, Drop, UncachedStaysOut, LinesOf
  <2>4. FlushReaches' /\ DiscardIsNear'
    BY <2>1 DEF FlushReaches, DiscardIsNear
  <2> QED BY <2>1, <2>2, <2>3, <2>4 DEF CacheInv
<1>7. CASE alt_erase_flash_block(r)
  <2>1. ProgramFlash(r, r)
    BY <1>7 DEF alt_erase_flash_block
  <2> QED BY <1>2, <2>1, ProgramCacheInv
<1> QED BY <1>3, <1>4, <1>5, <1>6, <1>7

LEMMA NextCacheInv == CacheInv /\ [CacheNext]_cachevars => CacheInv'
<1> SUFFICES ASSUME CacheInv, [CacheNext]_cachevars PROVE CacheInv'
  OBVIOUS
<1>1. ASSUME NEW a \in 0 .. MemoryLines * LINE_SIZE - 1, NEW store \in BOOLEAN, Cached(a, store)
      PROVE  CacheInv'
  BY <1>1, CachedCacheInv
<1>2. ASSUME NEW l \in 0 .. MemoryLines - 1, Fetch(l) PROVE CacheInv'
  <2>1. /\ icache' \subseteq 0 .. MemoryLines - 1 /\ called' = NoRegion
        /\ UNCHANGED <<flushda, dcache, dirty, stale, uncached>>
    BY <1>2 DEF Fetch, CacheInv, CacheTypeOK
  <2> QED BY <2>1 DEF CacheInv, CacheTypeOK, FlushReaches, DiscardIsNear, UncachedStaysOut,
                      FlashIsFresh
<1>3. ASSUME NEW r \in Region,
             \/ alt_dcache_flush(r)
             \/ alt_dcache_flush_no_writeback(r)
             \/ alt_icache_flush(r)
             \/ alt_remap_uncached(r)
             \/ alt_erase_flash_block(r)
      PROVE  CacheInv'
  BY <1>3, FlushCacheInv
<1>4. ASSUME NEW block \in Region, NEW data \in Region, alt_write_flash_block(block, data)
      PROVE  CacheInv'
  <2>1. ProgramFlash(data, data)
    BY <1>4 DEF alt_write_flash_block
  <2>2. LinesOf(data) \cap dcache \subseteq Flushed(data)
    <3>1. dcache \subseteq Int
      BY DEF CacheInv, CacheTypeOK
    <3> QED BY <3>1, FlushedReaches
  <2> QED BY <2>1, <2>2, ProgramCacheInv
<1>5. CASE alt_dcache_flush_all
  <2>1. dcache \subseteq Int
    BY DEF CacheInv, CacheTypeOK
  <2>2. /\ Drop(dcache) /\ UNCHANGED <<icache, uncached>>
        /\ called' = [cache |-> "data", region |-> All, lost |-> {}]
    BY <1>5, <2>1, FlushedAll DEF alt_dcache_flush_all
  <2>3. FlushReaches' /\ DiscardIsNear'
    BY <2>2 DEF Drop, FlushReaches, DiscardIsNear
  <2> QED BY <2>2, <2>3, DropKeeps DEF CacheInv
<1>6. ASSUME NEW r \in uncached, alt_remap_cached(r) PROVE CacheInv'
  BY <1>6 DEF alt_remap_cached, CacheInv, CacheTypeOK, FlushReaches, DiscardIsNear,
              UncachedStaysOut, FlashIsFresh
<1>7. CASE UNCHANGED cachevars
  BY <1>7 DEF cachevars, CacheInv, CacheTypeOK, FlushReaches, DiscardIsNear,
              UncachedStaysOut, FlashIsFresh
<1> QED BY <1>1, <1>2, <1>3, <1>4, <1>5, <1>6, <1>7 DEF CacheNext

(* For every size of cache, line and memory, and every region, aligned or  *)
(* not and longer than the cache or not: a flush that returns has left no  *)
(* line of its region, one without write-back has thrown away lines of its *)
(* region only or, if that starts unaligned, a line that begins less than  *)
(* a line behind it as well, a block is never cached while it is used      *)
(* around the cache, and flash is read as it was last programmed           *)
(* (alt_dcache_flush.c:63-92, alt_dcache_flush_no_writeback.c:64-86,       *)
(* alt_icache_flush.c:50-75,                                               *)
(* alt_remap_uncached.c:47-51, alt_flash.h:113-158).                       *)
THEOREM CachesStayRight == LibrarySpec => []CachesKept
<1> DEFINE Inv == part = "caches" => CacheInv
<1>1. LibraryInit => Inv
  BY InitCacheInv DEF LibraryInit
<1>2. Inv /\ [LibraryNext]_vars => Inv'
  <2> SUFFICES ASSUME Inv, [LibraryNext]_vars, part' = "caches" PROVE CacheInv'
    OBVIOUS
  <2>1. part = "caches" /\ [CacheNext]_cachevars
    BY DEF LibraryNext, vars
  <2> QED BY <2>1, NextCacheInv
<1>3. Inv => CachesKept
  BY DEF CachesKept, CacheInv
<1> QED BY <1>1, <1>2, <1>3, PTL DEF LibrarySpec

-----------------------------------------------------------------------------
(* The calls that keep no state. *)

(* The passes of a delay, for every clock and every width of a register.   *)
LEMMA PassesAre ==
  ASSUME NEW us \in 0 .. Unsigned - 1
  PROVE  /\ \A reloaded \in BOOLEAN :
              /\ alt_busy_sleep(us, reloaded) \in Int
              /\ alt_busy_sleep(us, reloaded) >= us * PerMicro
              /\ us > 0 /\ us < Chunk => alt_busy_sleep(us, reloaded) = us * PerMicro
         /\ us \div Chunk \in Nat
         /\ \/ us \div Chunk > 0 /\ us % Chunk = 0
            \/ alt_busy_sleep(us, TRUE) <= (us + us \div Chunk) * PerMicro + 1
<1> DEFINE P == PerMicro
           M == IntMax
           U == Unsigned
           chunk == M \div P
           big == us \div chunk
           r == us % chunk
<1>1. /\ U \in Nat /\ M \in Nat \ {0} /\ P \in Nat \ {0} /\ P <= M
      /\ 2 * M + 2 <= U /\ us \in Nat
  BY SleepAssumption
<1> HIDE DEF P, M, U
<1>2. /\ chunk \in Nat \ {0} /\ P * chunk <= M /\ M <= P * chunk + P - 1
  <2> DEFINE c == M \div P
             d == M % P
  <2>1. c \in Int /\ d \in 0 .. P - 1 /\ M = P * c + d
    BY <1>1, Division
  <2> HIDE DEF c, d
  <2>2. P * 0 < P * c
    BY <1>1, <2>1
  <2>3. 0 < c
    BY <1>1, <2>1, <2>2, Smaller
  <2> QED BY <1>1, <2>1, <2>3 DEF c
<1> HIDE DEF chunk
<1>3. big \in Int /\ r \in 0 .. chunk - 1 /\ us = chunk * big + r
  BY <1>1, <1>2, Division
<1> HIDE DEF big, r
<1>4. big \in Nat
  <2>1. chunk * (-1) < chunk * big
    BY <1>1, <1>2, <1>3
  <2>2. -1 < big
    BY <1>2, <1>3, <2>1, Smaller
  <2> QED BY <1>3, <2>2
<1> DEFINE rest == r * P
<1>5. rest \in Nat /\ rest < M /\ (rest = 0 <=> r = 0)
  <2>1. r \in Nat /\ r <= chunk - 1 /\ chunk - 1 \in Nat
    BY <1>2, <1>3
  <2>2. r * P <= (chunk - 1) * P
    BY <1>1, <2>1, SMTT(30)
  <2>3. (chunk - 1) * P = P * chunk - P
    BY <1>1, <1>2
  <2>4. rest \in Nat /\ (r # 0 => rest > 0)
    BY <1>1, <2>1, SMTT(30)
  <2> QED BY <1>1, <1>2, <2>1, <2>2, <2>3, <2>4
<1>6. us * P = big * (P * chunk) + rest
  <2>1. us * P = (chunk * big + r) * P
    BY <1>3
  <2>2. (chunk * big + r) * P = chunk * big * P + r * P
    BY <1>1, <1>2, <1>3, <1>4
  <2>3. chunk * big * P = big * (P * chunk)
    BY <1>1, <1>2, <1>4
  <2> QED BY <2>1, <2>2, <2>3
<1>7. ((us - big * chunk) * P) % U = rest
  <2>1. us - big * chunk = r
    BY <1>2, <1>3, <1>4
  <2>2. rest \in Int /\ 0 \in Int /\ rest \in 0 .. U - 1 /\ rest = U * 0 + rest /\ U \in Nat \ {0}
    BY <1>1, <1>5
  <2> HIDE DEF rest
  <2>3. rest % U = rest
    BY <2>2, DivisionUnique
  <2> QED BY <2>1, <2>3 DEF rest
<1> HIDE DEF rest
<1>8. \A reloaded \in BOOLEAN :
        alt_busy_sleep(us, reloaded) =
          IF big = 0 THEN CountedSigned(rest)
          ELSE (IF reloaded THEN big * M ELSE M + (big - 1) * Counted(0)) + Counted(rest)
  BY <1>7 DEF alt_busy_sleep, Chunk, big, chunk, P, M, U
<1>9. /\ CountedSigned(rest) \in Nat /\ rest <= CountedSigned(rest) /\ CountedSigned(rest) <= rest + 1
      /\ Counted(rest) \in Nat /\ rest <= Counted(rest) /\ (rest # 0 => Counted(rest) = rest)
      /\ Counted(0) = U
  BY <1>1, <1>5 DEF CountedSigned, Counted, U
<1> DEFINE whole == big * (P * chunk)
           loops == big * M
           stale0 == (big - 1) * U
<1>10. whole \in Nat /\ loops \in Nat /\ whole <= loops /\ loops <= whole + big * P
  <2>1. whole \in Nat /\ loops \in Nat
    BY <1>1, <1>2, <1>4, SMTT(30)
  <2>2. big * (P * chunk) <= big * M
    BY <1>1, <1>2, <1>4, SMTT(30)
  <2>3. big * M <= big * (P * chunk + P)
    <3>1. M <= P * chunk + P /\ P * chunk + P \in Nat
      BY <1>1, <1>2
    <3> DEFINE y == P * chunk + P
    <3> HIDE DEF y
    <3>2. big * M <= big * y
      BY <1>1, <1>4, <3>1, SMTT(30) DEF y
    <3> QED BY <3>2 DEF y
  <2>4. big * (P * chunk + P) = big * (P * chunk) + big * P
    BY <1>1, <1>2, <1>4
  <2> QED BY <2>1, <2>2, <2>3, <2>4
<1>11. big # 0 => stale0 \in Nat /\ loops <= M + stale0
  <2> SUFFICES ASSUME big # 0 PROVE stale0 \in Nat /\ loops <= M + stale0
    OBVIOUS
  <2>1. big - 1 \in Nat
    BY <1>4
  <2>2. (big - 1) * M <= (big - 1) * U /\ stale0 \in Nat
    BY <1>1, <2>1, SMTT(30)
  <2>3. loops = M + (big - 1) * M
    BY <1>1, <1>4
  <2>4. (big - 1) * M \in Nat
    BY <1>1, <2>1
  <2> QED BY <1>1, <2>2, <2>3, <2>4
<1>12. us * P = whole + rest /\ (us + big) * P = whole + rest + big * P /\ big * P \in Nat
  <2>1. (us + big) * P = us * P + big * P
    BY <1>1, <1>4
  <2> QED BY <1>1, <1>4, <1>6, <2>1
<1>13. big = 0 => whole = 0
  BY <1>1, <1>2
<1> HIDE DEF whole, loops, stale0
<1>14. ASSUME NEW reloaded \in BOOLEAN
       PROVE  alt_busy_sleep(us, reloaded) \in Int /\ alt_busy_sleep(us, reloaded) >= us * P
  <2>1. CASE big = 0
    <3>1. alt_busy_sleep(us, reloaded) = CountedSigned(rest)
      BY <1>8, <2>1
    <3> QED BY <1>5, <1>9, <1>12, <1>13, <2>1, <3>1
  <2>2. CASE big # 0 /\ reloaded
    <3>1. alt_busy_sleep(us, reloaded) = loops + Counted(rest)
      BY <1>8, <2>2 DEF loops
    <3> QED BY <1>5, <1>9, <1>10, <1>12, <3>1
  <2>3. CASE big # 0 /\ ~reloaded
    <3>1. alt_busy_sleep(us, reloaded) = M + stale0 + Counted(rest)
      BY <1>8, <1>9, <2>3 DEF stale0
    <3> QED BY <1>1, <1>5, <1>9, <1>10, <1>11, <1>12, <2>3, <3>1
  <2> QED BY <2>1, <2>2, <2>3
<1>15. (big > 0 /\ r = 0) \/ alt_busy_sleep(us, TRUE) <= (us + big) * P + 1
  <2> DEFINE longer == (us + big) * P
             passes == alt_busy_sleep(us, TRUE)
  <2>1. longer \in Nat /\ longer = whole + rest + big * P
    BY <1>5, <1>10, <1>12
  <2>2. CASE big = 0
    <3>1. passes = CountedSigned(rest)
      BY <1>8, <2>2
    <3> HIDE DEF longer, passes
    <3>2. longer >= rest
      BY <1>5, <1>10, <1>12, <2>1
    <3>3. passes <= longer + 1
      BY <1>5, <1>9, <2>1, <3>1, <3>2
    <3> QED BY <3>3 DEF longer, passes
  <2>3. CASE big # 0 /\ r # 0
    <3>1. passes = loops + rest
      BY <1>5, <1>8, <1>9, <2>3 DEF loops
    <3> HIDE DEF longer, passes
    <3>2. passes <= longer + 1
      BY <1>5, <1>10, <1>12, <2>1, <3>1
    <3> QED BY <3>2 DEF longer, passes
  <2>4. CASE big # 0 /\ r = 0
    <3>1. big > 0
      BY <1>4, <2>4
    <3> QED BY <2>4, <3>1, Zenon
  <2> QED BY <2>2, <2>3, <2>4
<1>16. us \div Chunk = big /\ us % Chunk = r
  BY DEF Chunk, big, r, chunk, M, P
<1>17. ASSUME us > 0, us < chunk, NEW reloaded \in BOOLEAN
       PROVE  alt_busy_sleep(us, reloaded) = us * P
  <2>1. big = 0 /\ r = us
    <3>1. chunk * big < chunk * 1
      BY <1>1, <1>2, <1>3, <1>4, <1>17
    <3>2. big < 1
      BY <1>2, <1>3, <3>1, Smaller
    <3> QED BY <1>1, <1>2, <1>3, <1>4, <3>2
  <2>2. rest # 0 /\ us * P = rest
    BY <1>1, <1>5, <1>12, <1>13, <1>17, <2>1
  <2> QED BY <1>8, <2>1, <2>2 DEF CountedSigned
<1>18. chunk = Chunk
  BY DEF Chunk, chunk, M, P
<1> QED BY <1>4, <1>14, <1>15, <1>16, <1>17, <1>18 DEF P

(* The time they take, against what was asked for.                         *)
LEMMA Sleeps == \A us \in 0 .. Unsigned - 1 : SleepsNearly(us)
<1> SUFFICES ASSUME NEW us \in 0 .. Unsigned - 1 PROVE SleepsNearly(us)
  OBVIOUS
<1> DEFINE F == ALT_CPU_FREQ
           K == cycles_per_loop * Micro
           P == PerMicro
           R == Rest
           big == us \div Chunk
<1>1. /\ F \in Nat /\ K \in Nat \ {0} /\ P \in Nat \ {0} /\ us \in Nat /\ big \in Nat
      /\ R \in 0 .. K - 1 /\ F = K * P + R
  <2>1. F \in Nat /\ K \in Nat \ {0} /\ P \in Nat \ {0} /\ us \in Nat
    BY SleepAssumption DEF cycles_per_loop
  <2>2. P = F \div K /\ R = F % K /\ big \in Nat
    BY PassesAre DEF PerMicro, Rest
  <2> HIDE DEF F, K, P, R, big
  <2>3. R \in 0 .. K - 1 /\ F = K * P + R
    <3>1. F \in Int /\ K \in Nat \ {0}
      BY <2>1
    <3>2. F % K \in 0 .. K - 1 /\ F = K * (F \div K) + (F % K)
      BY <3>1, Division
    <3> QED BY <2>2, <3>2
  <2> QED BY <2>1, <2>2, <2>3
<1> HIDE DEF F, K, P, R, big
<1>2. ASSUME NEW reloaded \in BOOLEAN, us > 0
      PROVE  /\ Spends(us, reloaded) + us * K > us * F
             /\ us < Chunk => Spends(us, reloaded) = us * (F - R)
  <2> DEFINE passes == alt_busy_sleep(us, reloaded)
  <2>1. /\ passes \in Int /\ passes >= us * P /\ (us < Chunk => passes = us * P)
        /\ Spends(us, reloaded) = passes * K
    BY <1>2, PassesAre DEF Spends, P, K
  <2> HIDE DEF passes
  <2>2. passes * K >= (us * P) * K
    <3> DEFINE more == passes - us * P
    <3>1. more \in Nat
      BY <1>1, <2>1
    <3>2. passes = us * P + more
      BY <1>1, <2>1
    <3> HIDE DEF more
    <3>3. passes * K = (us * P) * K + more * K /\ more * K \in Nat /\ (us * P) * K \in Nat
      BY <1>1, <3>1, <3>2
    <3> QED BY <3>3
  <2>3. (us * P) * K + us * K = us * F + us * (K - R)
    <3>1. us * F = us * (K * P) + us * R
      BY <1>1
    <3>2. us * (K - R) = us * K - us * R
      BY <1>1
    <3>3. (us * P) * K = us * (K * P)
      BY <1>1
    <3> QED BY <1>1, <3>1, <3>2, <3>3
  <2>4. us * (K - R) > 0 /\ us * (K - R) \in Nat
    <3>1. K - R \in Nat \ {0} /\ us \in Nat \ {0}
      BY <1>1, <1>2
    <3> DEFINE d == K - R
    <3> HIDE DEF d
    <3>2. us * d \in Nat \ {0}
      BY <3>1 DEF d
    <3> QED BY <3>2 DEF d
  <2>5. us * F \in Nat /\ us * K \in Nat /\ (us * P) * K \in Nat /\ passes * K \in Int
    BY <1>1, <2>1
  <2>6. (us * P) * K = us * (F - R)
    <3>1. F - R = K * P
      BY <1>1
    <3> QED BY <1>1, <3>1
  <2>7. Spends(us, reloaded) + us * K > us * F
    <3> DEFINE a == passes * K
               b == (us * P) * K
               c == us * K
               d == us * F
               e == us * (K - R)
    <3>1. a >= b /\ b + c = d + e /\ e > 0 /\ a \in Int /\ b \in Nat /\ c \in Nat /\ d \in Nat /\ e \in Nat
      BY <2>2, <2>3, <2>4, <2>5
    <3> HIDE DEF a, b, c, d, e
    <3>2. a + c > d
      BY <3>1
    <3> QED BY <2>1, <3>2 DEF a, c, d
  <2> QED BY <2>1, <2>6, <2>7
<1>3. \/ big > 0 /\ us % Chunk = 0
      \/ Spends(us, TRUE) <= (us + big) * F + K
  <2> DEFINE passes == alt_busy_sleep(us, TRUE)
             n == us + big
  <2>1. /\ passes \in Int /\ Spends(us, TRUE) = passes * K /\ n \in Nat
        /\ (big > 0 /\ us % Chunk = 0) \/ passes <= n * P + 1
    <3>1. passes \in Int /\ Spends(us, TRUE) = passes * K
      BY PassesAre DEF Spends, K
    <3>2. (big > 0 /\ us % Chunk = 0) \/ passes <= n * P + 1
      BY PassesAre, Zenon DEF P, big
    <3>3. n \in Nat
      BY <1>1
    <3> QED BY <3>1, <3>2, <3>3, Zenon
  <2> HIDE DEF passes, n
  <2>2. SUFFICES ASSUME passes <= n * P + 1 PROVE passes * K <= n * F + K
    BY <2>1 DEF n
  <2> DEFINE more == n * P + 1 - passes
  <2>3. more \in Nat /\ passes = n * P + 1 - more
    BY <1>1, <2>1, <2>2
  <2> HIDE DEF more
  <2>4. passes * K = (n * P) * K + K - more * K
    BY <1>1, <2>1, <2>3
  <2>5. n * F = (n * P) * K + n * R
    <3>1. n * F = n * (K * P) + n * R
      BY <1>1, <2>1
    <3>2. n * (K * P) = (n * P) * K
      BY <1>1, <2>1
    <3> QED BY <3>1, <3>2
  <2>6. more * K \in Nat /\ n * R \in Nat /\ (n * P) * K \in Nat
    BY <1>1, <2>1, <2>3
  <2> DEFINE a == passes * K
             b == n * F
             c == (n * P) * K
             d == more * K
             e == n * R
  <2>7. a = c + K - d /\ b = c + e /\ c \in Nat /\ d \in Nat /\ e \in Nat
    BY <2>4, <2>5, <2>6
  <2> HIDE DEF a, b, c, d, e
  <2>8. a <= b + K
    BY <1>1, <2>7
  <2> QED BY <2>8 DEF a, b
<1> QED BY <1>2, <1>3 DEF SleepsNearly, F, K, R, big

(* What a driver may provide: the result of an operation, or none.         *)
Driver ==
  LET result == Int \cup {NoOperation}
  IN  [read : result, write : result, lseek : result, fstat : result, ioctl : result,
       st_mode : {"_IFCHR", "_IFREG"}]

Mode == {"O_RDONLY", "O_WRONLY", "O_RDWR"}
TableOf(dev, mode) == [file \in 0 .. 2 |-> [dev |-> dev, mode |-> mode]]

LEMMA PassedIs ==
  ASSUME NEW rc \in Int
  PROVE  /\ Passed(rc).rc = (IF rc < 0 THEN -1 ELSE rc)
         /\ Passed(rc).errno = (IF rc < 0 THEN -rc ELSE 0)
BY DEF Passed, Fail, Returns

LEMMA FailIs ==
  ASSUME NEW errno
  PROVE  Fail(errno).rc = -1 /\ Fail(errno).errno = errno
BY DEF Fail, Returns

LEMMA DirectCallsAgree ==
  ASSUME NEW dev \in Driver, NEW file \in -1 .. 2,
         dev.read # NoOperation, dev.write # NoOperation
  PROVE  DirectAgrees(dev, file)
<1> DEFINE table == Standard(dev)
           Same(x, y) == x.rc = y.rc \/ (x.rc < 0 /\ y.rc < 0)
<1>1. /\ dev.read \in Int /\ dev.write \in Int
      /\ dev.lseek \in Int \cup {NoOperation} /\ dev.fstat \in Int \cup {NoOperation}
      /\ dev.ioctl \in Int \cup {NoOperation}
  BY DEF Driver
<1>2. \A f \in 0 .. 2 : /\ table[f].dev = dev
                        /\ table[f].mode = IF f = 0 THEN "O_RDONLY" ELSE "O_WRONLY"
  BY DEF Standard
<1>3. file = -1 \/ file \in 0 .. 2
  OBVIOUS
<1> HIDE DEF table
<1>4. Same(alt_read(table, file), DirectRead(dev, file))
  <2>1. CASE file = -1
    BY <2>1, FailIs DEF alt_read, DirectRead
  <2>2. CASE file = 0
    <3>1. alt_read(table, file) = Passed(dev.read) /\ DirectRead(dev, file) = Returns(dev.read, 0)
      BY <1>2, <2>2 DEF alt_read, DirectRead
    <3> QED BY <1>1, <3>1, PassedIs DEF Returns
  <2>3. CASE file \in 1 .. 2
    <3>1. alt_read(table, file) = Fail(EACCES) /\ DirectRead(dev, file) = Fail(EBADFD)
      BY <1>2, <2>3 DEF alt_read, DirectRead
    <3> QED BY <3>1, FailIs
  <2> QED BY <1>3, <2>1, <2>2, <2>3
<1>5. Same(alt_write(table, file), DirectWrite(dev, file))
  <2>1. CASE file = -1
    BY <2>1, FailIs DEF alt_write, DirectWrite
  <2>2. CASE file \in 1 .. 2
    <3>1. alt_write(table, file) = Passed(dev.write) /\ DirectWrite(dev, file) = Returns(dev.write, 0)
      BY <1>2, <2>2 DEF alt_write, DirectWrite
    <3> QED BY <1>1, <3>1, PassedIs DEF Returns
  <2>3. CASE file = 0
    <3>1. alt_write(table, file) = Fail(EACCES) /\ DirectWrite(dev, file) = Fail(EBADFD)
      BY <1>2, <2>3 DEF alt_write, DirectWrite
    <3> QED BY <3>1, FailIs
  <2> QED BY <1>3, <2>1, <2>2, <2>3
<1>6. dev.ioctl # NoOperation => Same(alt_ioctl(table, file), DirectIoctl(dev, file))
  <2> SUFFICES ASSUME dev.ioctl # NoOperation
               PROVE  Same(alt_ioctl(table, file), DirectIoctl(dev, file))
    OBVIOUS
  <2>1. CASE file = -1
    <3>1. alt_ioctl(table, file).rc = -EBADFD /\ DirectIoctl(dev, file) = Fail(EBADFD)
      BY <2>1 DEF alt_ioctl, DirectIoctl, Returns
    <3> QED BY <3>1, FailIs, CallsAssumption
  <2>2. CASE file \in 0 .. 2
    BY <1>2, <2>2 DEF alt_ioctl, DirectIoctl, Returns
  <2> QED BY <1>3, <2>1, <2>2
<1>7. (alt_getchar(dev, 65) = -1) <=> DirectRead(dev, 0).rc <= 0
  BY <1>1 DEF alt_getchar, DirectRead, Returns
<1>8. Same([rc |-> alt_putstr(dev)], alt_write(table, 1))
  <2>1. alt_write(table, 1) = Passed(dev.write)
    BY <1>2 DEF alt_write
  <2> QED BY <1>1, <2>1, PassedIs DEF alt_putstr
<1>9. dev.lseek = NoOperation => Same(alt_lseek(table, file), DirectLseek(file))
  <2> SUFFICES ASSUME dev.lseek = NoOperation
               PROVE  alt_lseek(table, file).rc = -1 /\ DirectLseek(file).rc = -1
    OBVIOUS
  <2>1. DirectLseek(file).rc = -1
    BY FailIs DEF DirectLseek
  <2>2. alt_lseek(table, file).rc = -1
    BY <1>2, <1>3, FailIs DEF alt_lseek
  <2> QED BY <2>1, <2>2
<1>10. dev.fstat = NoOperation =>
         /\ alt_fstat(table, file).rc = DirectFstat(file).rc
         /\ alt_fstat(table, file).st = DirectFstat(file).st
         /\ {r.rc : r \in alt_isatty(table, file)} = {r.rc : r \in DirectIsatty(file)}
  <2> SUFFICES ASSUME dev.fstat = NoOperation
               PROVE  /\ alt_fstat(table, file).rc = DirectFstat(file).rc
                      /\ alt_fstat(table, file).st = DirectFstat(file).st
                      /\ {r.rc : r \in alt_isatty(table, file)} = {r.rc : r \in DirectIsatty(file)}
    OBVIOUS
  <2>1. CASE file = -1
    <3>1. /\ alt_fstat(table, file).rc = -1 /\ DirectFstat(file).rc = -1
          /\ alt_fstat(table, file).st = NoOperation /\ DirectFstat(file).st = NoOperation
      BY <2>1, FailIs DEF alt_fstat, DirectFstat, Stored, Returns
    <3>2. /\ alt_isatty(table, file) = {Returns(0, EBADFD)}
          /\ DirectIsatty(file) = {Returns(0, 0)}
      BY <2>1 DEF alt_isatty, DirectIsatty
    <3> QED BY <3>1, <3>2 DEF Returns
  <2>2. CASE file \in 0 .. 2
    <3>1. alt_fstat(table, file) = DirectFstat(file)
      BY <1>2, <2>2 DEF alt_fstat, DirectFstat
    <3>2. alt_isatty(table, file) = DirectIsatty(file)
      BY <1>2, <2>2 DEF alt_isatty, DirectIsatty
    <3> QED BY <3>1, <3>2
  <2> QED BY <1>3, <2>1, <2>2
<1> QED BY <1>4, <1>5, <1>6, <1>7, <1>8, <1>9, <1>10 DEF DirectAgrees, table

LEMMA TerminalsTold ==
  ASSUME NEW dev \in Driver, NEW mode \in Mode, NEW file \in -1 .. 2
  PROVE  TerminalIsCharacterDevice(TableOf(dev, mode), file)
<1> DEFINE table == TableOf(dev, mode)
           st == alt_fstat(table, file)
<1> SUFFICES ASSUME st.rc >= 0
             PROVE  {r.rc : r \in alt_isatty(table, file)} = {IF st.st = "_IFCHR" THEN 1 ELSE 0}
  BY DEF TerminalIsCharacterDevice
<1>1. \A f \in 0 .. 2 : table[f].dev = dev
  BY DEF TableOf
<1>2. dev.fstat \in Int \cup {NoOperation} /\ dev.st_mode \in {"_IFCHR", "_IFREG"}
  BY DEF Driver
<1> HIDE DEF table
<1>3. file \in 0 .. 2
  <2>1. CASE file = -1
    <3>1. st.rc = -1
      BY <2>1, FailIs DEF alt_fstat, Stored
    <3> QED BY <3>1
  <2> QED BY <2>1
<1>4. CASE dev.fstat = NoOperation
  <2>1. st.st = "_IFCHR" /\ alt_isatty(table, file) = {Returns(1, 0)}
    BY <1>1, <1>3, <1>4 DEF alt_fstat, alt_isatty, Stored
  <2> QED BY <2>1 DEF Returns
<1>5. CASE dev.fstat # NoOperation
  <2>1. st.rc = dev.fstat
    BY <1>1, <1>3, <1>5 DEF alt_fstat, Stored, Returns
  <2>2. dev.fstat \in Int /\ ~(dev.fstat < 0)
    BY <1>2, <1>5, <2>1
  <2>3. st.st = dev.st_mode
    BY <1>1, <1>3, <1>5, <2>2 DEF alt_fstat, Stored
  <2>4. st.st # NoOperation
    BY <1>2, <2>3, CallsAssumption
  <2>5. alt_isatty(table, file) = {Returns(IF st.st = "_IFCHR" THEN 1 ELSE 0, 0)}
    BY <1>1, <1>3, <1>5, <2>4 DEF alt_isatty
  <2> QED BY <2>5 DEF Returns
<1> QED BY <1>4, <1>5

LEMMA ReasonsGiven ==
  ASSUME NEW dev \in Driver, NEW mode \in Mode, NEW file \in -1 .. 2
  PROVE  FailureHasReason(TableOf(dev, mode), file)
<1> DEFINE table == TableOf(dev, mode)
           Given(r) == (r.rc = -1) <=> (r.errno # 0)
<1>1. \A f \in 0 .. 2 : table[f].dev = dev /\ table[f].mode = mode
  BY DEF TableOf
<1>2. /\ dev.read \in Int \cup {NoOperation} /\ dev.write \in Int \cup {NoOperation}
      /\ dev.lseek \in Int \cup {NoOperation}
  BY DEF Driver
<1>3. ASSUME NEW errno \in {EBADFD, EACCES, ENOTSUP, ENOSYS, EINVAL, ESRCH, ECHILD}
      PROVE  Given(Fail(errno))
  BY FailIs, CallsAssumption
<1>4. ASSUME NEW rc \in Int PROVE Given(Passed(rc))
  BY PassedIs
<1> HIDE DEF table, Given
<1>5. file = -1 \/ file \in 0 .. 2
  OBVIOUS
<1>6. Given(alt_read(table, file))
  BY <1>1, <1>2, <1>3, <1>4, <1>5 DEF alt_read
<1>7. Given(alt_write(table, file))
  BY <1>1, <1>2, <1>3, <1>4, <1>5 DEF alt_write
<1>8. Given(alt_lseek(table, file))
  BY <1>1, <1>2, <1>3, <1>4, <1>5 DEF alt_lseek
<1>9. ASSUME NEW sig PROVE Given(alt_kill(file, sig))
  <2>1. Given(Returns(NoOperation, 0)) /\ Given(Returns(0, 0))
    BY CallsAssumption DEF Given, Returns
  <2> QED BY <1>3, <2>1 DEF alt_kill
<1>10. file < 0 => Given(alt_stat(table, file))
  BY CallsAssumption DEF alt_stat, alt_fstat, Stored, Fail, Returns, Given
<1>11. \A name : Given(Stub(name))
  BY <1>3 DEF Stub
<1> QED BY <1>6, <1>7, <1>8, <1>9, <1>10, <1>11 DEF FailureHasReason, table, Given

LEMMA UnopenedRefused == UnopenedIsRefused
BY DEF UnopenedIsRefused, alt_dma_open, ChannelCall, Returns

CallInv ==
  call # NoCall =>
    /\ call[1] = "sleep" => call[2] \in 0 .. Unsigned - 1
    /\ call[1] = "file" => call[2] \in Driver /\ call[3] \in Mode /\ call[4] \in -1 .. 2

LEMMA NextCallInv == Cases => CallInv'
<1> SUFFICES ASSUME Cases PROVE CallInv'
  OBVIOUS
<1>1. Drivers \subseteq Driver
  BY DEF Drivers, Driver
<1>2. CASE \E us \in 0 .. Unsigned - 1 : call' = <<"sleep", us>>
  BY <1>2 DEF CallInv
<1>3. CASE \E dev \in Drivers, mode \in {"O_RDONLY", "O_WRONLY", "O_RDWR"}, file \in -1 .. 2 :
             call' = <<"file", dev, mode, file>>
  BY <1>1, <1>3 DEF CallInv, Mode
<1>4. CASE call'[1] \in {"printf", "integer", "address", "echo"}
  BY <1>4 DEF CallInv
<1> QED BY <1>2, <1>3, <1>4 DEF Cases

(* A delay is short by less than a pass of the loop for each microsecond,  *)
(* and by just what truncating the passes in a microsecond leaves if it is *)
(* no longer than a loop counts, whatever the clock; the two ways to call  *)
(* a driver agree, terminals are told from files, failures have a reason   *)
(* and channels that were not opened are refused, whatever the drivers     *)
(* return (alt_busy_sleep.c:74-130, alt_read.c:58-123,                     *)
(* alt_isatty.c:98-117, alt_kill.c, alt_dma.h:99-215).                     *)
THEOREM CallsAreRight == LibrarySpec => []CallsRight
<1> DEFINE Inv == part = "calls" => CallInv
<1>1. LibraryInit => Inv
  BY DEF LibraryInit, CallInv
<1>2. Inv /\ [LibraryNext]_vars => Inv'
  <2> SUFFICES ASSUME Inv, [LibraryNext]_vars, part' = "calls" PROVE CallInv'
    OBVIOUS
  <2>1. part = "calls" /\ (Cases \/ UNCHANGED call)
    BY DEF LibraryNext, vars
  <2>2. UNCHANGED call => CallInv'
    BY <2>1 DEF CallInv
  <2> QED BY <2>1, <2>2, NextCallInv
<1>3. Inv => CallsRight
  <2> SUFFICES ASSUME CallInv, call # NoCall, part = "calls" PROVE CallsRight
    BY DEF CallsRight
  <2>1. CASE call[1] = "sleep"
    BY <2>1, Sleeps DEF CallInv, CallsRight
  <2>2. CASE call[1] = "file"
    <3> DEFINE dev == call[2]
               mode == call[3]
               file == call[4]
    <3>1. dev \in Driver /\ mode \in Mode /\ file \in -1 .. 2
      BY <2>2 DEF CallInv
    <3> HIDE DEF dev, mode, file
    <3>2. /\ dev.read # NoOperation /\ dev.write # NoOperation => DirectAgrees(dev, file)
          /\ TerminalIsCharacterDevice(TableOf(dev, mode), file)
          /\ FailureHasReason(TableOf(dev, mode), file)
          /\ UnopenedIsRefused
      BY <3>1, DirectCallsAgree, TerminalsTold, ReasonsGiven, UnopenedRefused
    <3> QED BY <2>2, <3>2 DEF CallsRight, TableOf, dev, mode, file
  <2>3. CASE call[1] \notin {"sleep", "file"}
    BY <2>3 DEF CallsRight
  <2> QED BY <2>1, <2>2, <2>3
<1> QED BY <1>1, <1>2, <1>3, PTL DEF LibrarySpec

-----------------------------------------------------------------------------
(* Multiplication and division. *)

H == 2 ^ (Width - 1)

LEMMA Powers ==
  /\ \A n \in 0 .. Width : 2 ^ n \in Nat \ {0}
  /\ \A n \in 0 .. Width - 1 : 2 ^ (n + 1) = 2 * 2 ^ n
  /\ 2 ^ 0 = 1
  /\ H \in Nat \ {0} /\ W = 2 * H /\ W \in Nat \ {0} /\ W \div 2 = H
<1>1. Width \in Nat \ {0}
  BY WidthAssumption
<1>2. \A n \in 0 .. Width - 1 : 2 ^ n \in Nat \ {0} /\ 2 ^ (n + 1) = 2 * 2 ^ n
  BY PowersAssumption
<1>3. Width - 1 \in 0 .. Width - 1 /\ Width - 1 + 1 = Width
  BY <1>1
<1>4. 2 ^ Width = 2 * 2 ^ (Width - 1) /\ 2 ^ (Width - 1) \in Nat \ {0}
  BY <1>2, <1>3
<1> DEFINE h == 2 ^ (Width - 1)
           w == 2 ^ Width
<1> HIDE DEF h, w
<1>5. h \in Nat \ {0} /\ w = 2 * h /\ w \in Nat \ {0}
  BY <1>4 DEF h, w
<1>6. w \div 2 = h
  BY <1>5
<1>7. \A n \in 0 .. Width : n \in 0 .. Width - 1 \/ n = Width
  BY <1>1
<1>8. 2 ^ 0 = 1
  OBVIOUS
<1> QED BY <1>2, <1>5, <1>6, <1>7, <1>8 DEF H, W, h, w

(* The top bit and the others.                                             *)
LEMMA TopBit ==
  ASSUME NEW h \in Nat \ {0}, NEW x \in 0 .. 2 * h - 1
  PROVE  /\ x \div h = (IF x >= h THEN 1 ELSE 0)
         /\ x % h = (IF x >= h THEN x - h ELSE x)
<1> DEFINE t == IF x >= h THEN 1 ELSE 0
           r == IF x >= h THEN x - h ELSE x
<1>1. t \in Int /\ r \in 0 .. h - 1 /\ x \in Int /\ x = h * t + r
  OBVIOUS
<1> HIDE DEF t, r
<1>2. x \div h = t /\ x % h = r
  BY <1>1, DivisionUnique
<1> QED BY <1>2 DEF t, r

LEMMA MSBIs ==
  ASSUME NEW x \in Register
  PROVE  MSB(x) = IF x >= H THEN 1 ELSE 0
<1>1. H \in Nat \ {0} /\ x \in 0 .. 2 * H - 1 /\ W \div 2 = H
  BY Powers DEF Register
<1> QED BY <1>1, TopBit DEF MSB

(* One pass: T and P are the powers of the passes still to make after it   *)
(* and of those made before it.  The top bit of the register is the next   *)
(* one of the number that it had above its bit P.                          *)
LEMMA ShiftOut ==
  ASSUME NEW T \in Nat \ {0}, NEW P \in Nat \ {0},
         NEW hi \in Nat, hi < 2 * T, NEW q \in Nat, q < P, NEW x \in Int, x = hi * P + q
  PROVE  /\ x \div (T * P) = (IF hi >= T THEN 1 ELSE 0)
         /\ (2 * x) % (2 * (T * P)) = (IF hi >= T THEN hi - T ELSE hi) * (2 * P) + 2 * q
<1> DEFINE bit == IF hi >= T THEN 1 ELSE 0
           low == IF hi >= T THEN hi - T ELSE hi
           h == T * P
           y == low * P
           rest == y + q
<1>1. bit \in {0, 1} /\ low \in 0 .. T - 1 /\ hi = bit * T + low
  OBVIOUS
<1> HIDE DEF bit, low
<1>2. h \in Nat \ {0}
  BY SMTT(30)
<1>3. y \in Nat /\ y + P <= h
  <2>1. low \in Nat /\ low + 1 <= T
    BY <1>1
  <2>2. (low + 1) * P <= T * P
    BY <2>1, SMTT(30)
  <2>3. (low + 1) * P = y + P /\ y \in Nat
    BY <2>1
  <2> QED BY <2>2, <2>3
<1>4. x = bit * h + rest
  <2>1. (bit * T + low) * P = bit * (T * P) + low * P
    BY <1>1
  <2> QED BY <1>1, <2>1
<1>5. low * (2 * P) = 2 * y
  BY <1>1
<1> HIDE DEF h, y
<1>6. rest \in 0 .. h - 1
  BY <1>2, <1>3
<1> HIDE DEF rest
<1>7. x \div h = bit
  <2>1. bit \in Int /\ x = h * bit + rest
    BY <1>1, <1>2, <1>4, <1>6
  <2> QED BY <1>2, <1>6, <2>1, DivisionUnique
<1>8. (2 * x) % (2 * h) = 2 * rest
  <2> DEFINE z == 2 * x
             w == 2 * h
             u == 2 * rest
  <2>1. /\ bit \in Int /\ w \in Nat \ {0} /\ u \in 0 .. w - 1 /\ z \in Int
        /\ z = w * bit + u
    BY <1>1, <1>2, <1>4, <1>6
  <2> HIDE DEF z, w, u
  <2>2. z % w = u
    BY <2>1, DivisionUnique
  <2> QED BY <2>2 DEF z, w, u
<1>9. 2 * rest = low * (2 * P) + 2 * q
  BY <1>3, <1>5 DEF rest
<1>10. x \div h = bit /\ (2 * x) % (2 * h) = low * (2 * P) + 2 * q
  BY <1>7, <1>8, <1>9
<1> QED BY <1>10, Zenon DEF h, bit, low

(* In the division the bit moves into the remainder.                       *)
LEMMA DividePass ==
  ASSUME NEW T \in Nat \ {0}, NEW P \in Nat \ {0}, NEW b \in Nat,
         NEW r \in Nat, NEW low \in 0 .. T - 1, NEW bit \in {0, 1}, NEW q \in Nat,
         NEW a \in Nat, a < 2 * (T * P), a = (q * b + r) * (2 * T) + (bit * T + low)
  PROVE  /\ a = (q * b * 2 + 2 * r + bit) * T + low
         /\ (2 * r + bit) % (2 * (T * P)) = 2 * r + bit
<1> DEFINE h == T * P
<1>2. h \in Nat \ {0}
  BY SMTT(30)
<1>3. a = (q * b * 2 + 2 * r + bit) * T + low
  <2>1. (q * b + r) * (2 * T) = (q * b * 2 + 2 * r) * T
    OBVIOUS
  <2>2. (q * b * 2 + 2 * r + bit) * T = (q * b * 2 + 2 * r) * T + bit * T
    OBVIOUS
  <2> QED BY <2>1, <2>2
<1>4. a < 2 * h
  OBVIOUS
<1> HIDE DEF h
<1>5. (2 * r + bit) % (2 * h) = 2 * r + bit
  <2> DEFINE v == 2 * r + bit
             w == 2 * h
             c == q * b * 2
  <2>1. v \in Nat /\ w \in Nat \ {0} /\ c \in Nat
    BY <1>2
  <2>2. a = (c + v) * T + low
    BY <1>3
  <2> HIDE DEF v, c
  <2>3. (c + v) * T >= v
    BY <2>1, SMTT(30)
  <2>4. v < w
    <3> DEFINE g == (c + v) * T
    <3>1. g \in Nat /\ a = g + low /\ g >= v
      BY <2>1, <2>2, <2>3
    <3> HIDE DEF g
    <3> QED BY <1>2, <1>4, <2>1, <3>1
  <2> HIDE DEF w
  <2>5. v \in 0 .. w - 1 /\ v = w * 0 + v /\ v \in Int
    BY <2>1, <2>4
  <2>6. v % w = v
    BY <2>1, <2>5, DivisionUnique
  <2> QED BY <2>6 DEF v, w
<1> QED BY <1>3, <1>5 DEF h

(* In the multiplication the low half of the product is that with the bits *)
(* of the multiplier taken so far, from the top.                           *)
LowHalf(w, a, top, low) == low \in 0 .. w - 1 /\ \E k \in Int : a * top = k * w + low

LEMMA LowPass ==
  ASSUME NEW w \in Nat \ {0}, NEW a \in Nat, NEW top \in Nat, NEW bit \in Nat, bit <= 1,
         NEW low, LowHalf(w, a, top, low)
  PROVE  LowHalf(w, a, 2 * top + bit, (2 * low + bit * a) % w)
<1>0. PICK k \in Int : a * top = k * w + low
  BY DEF LowHalf
<1> low \in Nat
  BY DEF LowHalf
<1> DEFINE v == 2 * low + bit * a
           r == v % w
           c == v \div w
           j == 2 * k + c
<1>1. v \in Int
  OBVIOUS
<1>2. r \in 0 .. w - 1 /\ c \in Int /\ v = w * c + r
  BY <1>1, Division
<1> HIDE DEF r, c
<1>3. a * (2 * top + bit) = 2 * (a * top) + bit * a
  BY SMTT(30)
<1>4. j * w = 2 * (k * w) + w * c /\ j \in Int
  BY <1>2
<1> DEFINE kw == k * w
           wc == w * c
           goal == a * (2 * top + bit)
           jw == j * w
<1>5. kw \in Int /\ wc \in Int
  BY <1>2
<1>6. goal = 2 * kw + v /\ v = wc + r /\ jw = 2 * kw + wc /\ v \in Int
  BY <1>0, <1>1, <1>2, <1>3, <1>4
<1> HIDE DEF kw, wc, v, goal, jw
<1>7. goal = jw + r
  BY <1>2, <1>5, <1>6
<1> QED BY <1>2, <1>4, <1>7 DEF goal, jw, r, v, LowHalf

(* The high half is that with the bits taken so far from the bottom; the   *)
(* carry of the addition makes its top bit.                                *)
HighHalf(P, a, b, high, rest) ==
  \E bits \in 0 .. P - 1 : \E below \in 0 .. P - 1 :
    b = rest * P + bits /\ a * bits = high * P + below

LEMMA HighPass ==
  ASSUME NEW h \in Nat \ {0}, NEW P \in Nat \ {0}, NEW a \in Nat, a < 2 * h, NEW b,
         NEW high \in Nat, high < 2 * h, NEW rest \in Nat, HighHalf(P, a, b, high, rest)
  PROVE  LET sum == (high + (rest % 2) * a) % (2 * h)
             next0 == (sum \div 2) + (IF rest % 2 = 1 /\ sum < a THEN h ELSE 0)
         IN  next0 \in 0 .. 2 * h - 1 /\ HighHalf(2 * P, a, b, next0, rest \div 2)
<1>0. PICK bits \in 0 .. P - 1, below \in 0 .. P - 1 :
        b = rest * P + bits /\ a * bits = high * P + below
  BY DEF HighHalf
<1> DEFINE bit == rest % 2
           above == rest \div 2
<1>11. bit \in {0, 1} /\ above \in Nat /\ rest = 2 * above + bit
  OBVIOUS
<1> HIDE DEF bit, above
<1> bit \in {0, 1}
  BY <1>11
<1> DEFINE s == high + bit * a
           sum == s % (2 * h)
           next0 == (sum \div 2) + (IF bit = 1 /\ sum < a THEN h ELSE 0)
           over == IF s >= 2 * h THEN 1 ELSE 0
           half == s \div 2
           e == s % 2
<1>1. s \in Nat /\ s <= 2 * (2 * h) - 2
  OBVIOUS
<1>2. sum = IF s >= 2 * h THEN s - 2 * h ELSE s
  <2> DEFINE w == 2 * h
             r == IF s >= w THEN s - w ELSE s
             t == s
  <2>1. /\ w \in Nat \ {0} /\ over \in Int /\ r \in 0 .. w - 1 /\ t \in Int
        /\ t = w * over + r
    BY <1>1
  <2> HIDE DEF w, r, t, over
  <2>2. t % w = r
    BY <2>1, DivisionUnique
  <2> QED BY <2>2 DEF t, w, r
<1>3. (bit = 1 /\ sum < a) <=> s >= 2 * h
  BY <1>1, <1>2
<1>4. half \in Nat /\ e \in {0, 1} /\ s = 2 * half + e
  BY <1>1
<1>5. next0 = half
  BY <1>1, <1>2, <1>3
<1>6. half \in 0 .. 2 * h - 1
  BY <1>1, <1>4
<1>7. bits + bit * P \in 0 .. 2 * P - 1
  OBVIOUS
<1>8. a * (bits + bit * P) = half * (2 * P) + (e * P + below)
  <2>1. a * (bits + bit * P) = a * bits + (bit * a) * P
    BY SMTT(30)
  <2>2. (high + bit * a) * P = high * P + (bit * a) * P
    OBVIOUS
  <2>3. (2 * half + e) * P = half * (2 * P) + e * P
    BY <1>4
  <2>4. a * (bits + bit * P) = s * P + below
    BY <1>0, <2>1, <2>2
  <2>5. s * P = half * (2 * P) + e * P
    BY <1>4, <2>3
  <2> HIDE DEF s, half, e
  <2>6. half * (2 * P) \in Int /\ e * P \in Int
    BY <1>4
  <2> QED BY <2>4, <2>5, <2>6
<1>9. e * P + below \in 0 .. 2 * P - 1
  BY <1>4
<1> HIDE DEF s, sum, next0, half, e
<1>10. \E lost2 \in 0 .. 2 * P - 1 : a * (bits + bit * P) = next0 * (2 * P) + lost2
  BY <1>5, <1>8, <1>9
<1>12. b = above * (2 * P) + (bits + bit * P)
  <2>1. rest * P = above * (2 * P) + bit * P
    BY <1>11
  <2>2. above * (2 * P) \in Int /\ bit * P \in Int
    BY <1>11
  <2> QED BY <1>0, <2>1, <2>2
<1>13. HighHalf(2 * P, a, b, next0, above)
  BY <1>7, <1>10, <1>12 DEF HighHalf
<1> QED BY <1>5, <1>6, <1>13 DEF s, sum, next0, bit, above

(* The powers of the passes that are left and of those that are through.   *)
Left == 2 ^ r14
Through == 2 ^ (Width - r14)

LEMMA PassPowers ==
  ASSUME NEW n \in 1 .. Width, 2 ^ n * 2 ^ (Width - n) = W
  PROVE  /\ 2 ^ (n - 1) \in Nat \ {0} /\ 2 ^ (Width - n) \in Nat \ {0}
         /\ 2 ^ n = 2 * 2 ^ (n - 1)
         /\ 2 ^ (Width - (n - 1)) = 2 * 2 ^ (Width - n)
         /\ 2 ^ (n - 1) * 2 ^ (Width - n) = H
         /\ 2 ^ (n - 1) * (2 * 2 ^ (Width - n)) = W
<1> DEFINE t == n - 1
           p == Width - n
           T == 2 ^ t
           P == 2 ^ p
<1>1. t \in 0 .. Width - 1 /\ p \in 0 .. Width - 1 /\ t + 1 = n /\ Width - t = p + 1
  BY WidthAssumption
<1> HIDE DEF t, p
<1>2. T \in Nat \ {0} /\ P \in Nat \ {0} /\ 2 ^ (t + 1) = 2 * T /\ 2 ^ (p + 1) = 2 * P
  BY <1>1, PowersAssumption
<1> HIDE DEF T, P
<1>3. (2 * T) * P = W /\ W = 2 * H /\ H \in Nat
  BY <1>1, <1>2, Powers DEF P, p
<1>4. T * P = H /\ T * (2 * P) = W
  <2>1. (2 * T) * P = 2 * (T * P) /\ T * (2 * P) = 2 * (T * P) /\ T * P \in Nat
    BY <1>2
  <2> QED BY <1>3, <2>1
<1>5. 2 ^ n = 2 * T /\ 2 ^ (Width - t) = 2 * P
  BY <1>1, <1>2
<1> QED BY <1>2, <1>4, <1>5 DEF T, P, t, p

LEMMA NegativeIs ==
  ASSUME NEW x \in Register
  PROVE  /\ Signed(x) = x - MSB(x) * W
         /\ MSB(x) \in {0, 1} /\ (MSB(x) = 1 <=> x >= H)
         /\ Absolute(Signed(x)) = (IF MSB(x) = 1 THEN Minus(x) ELSE x)
         /\ Absolute(Signed(x)) \in Register
         /\ (Signed(x) < 0 <=> MSB(x) = 1)
         /\ (x # 0 => Absolute(Signed(x)) # 0)
<1>1. /\ H \in Nat \ {0} /\ W = 2 * H /\ W \in Nat \ {0} /\ x \in 0 .. W - 1
      /\ MSB(x) = IF x >= H THEN 1 ELSE 0
  BY Powers, MSBIs DEF Register
<1>2. x >= H => Minus(x) = W - x
  <2> DEFINE y == W - x
             w == W
  <2> HIDE DEF w
  <2>1. x >= H => y \in 0 .. w - 1 /\ y = w * 0 + y /\ y \in Int /\ w \in Nat \ {0}
    BY <1>1 DEF w
  <2> HIDE DEF y
  <2>2. x >= H => y % w = y
    BY <2>1, DivisionUnique
  <2> QED BY <2>2 DEF y, w, Minus
<1>3. Signed(x) = IF x >= H THEN x - W ELSE x
  BY <1>1 DEF Signed
<1> HIDE DEF W
<1>4. Signed(x) = x - MSB(x) * W
  BY <1>1, <1>3
<1>5. Absolute(Signed(x)) = IF x >= H THEN W - x ELSE x
  BY <1>1, <1>3 DEF Absolute
<1> QED BY <1>1, <1>2, <1>3, <1>4, <1>5 DEF Register

Divide == {"div", "divu"}
Dividend == IF op = "div" THEN Absolute(Signed(operands.a)) ELSE operands.a
Divisor == IF op = "div" THEN Absolute(Signed(operands.b)) ELSE operands.b

(* The quotient q of the bits of the dividend taken so far has taken their *)
(* place; hi are the others.                                               *)
DivideInv ==
  /\ rB = Divisor
  /\ r17 = (IF op = "div" /\ MSB(operands.a) # MSB(operands.b) THEN 1 ELSE 0)
  /\ r13 \in Nat /\ r13 < Divisor
  /\ \E hi \in 0 .. Left - 1 : \E q \in 0 .. Through - 1 :
       rA = hi * Through + q /\ Dividend = (q * Divisor + r13) * Left + hi

(* The low half is that of the product with the top bits of the            *)
(* multiplier, the high one that with its bottom bits but for the bits     *)
(* that were shifted out.                                                  *)
LowInv ==
  \E low \in 0 .. Left - 1 : \E top \in Nat :
    /\ operands.b = top * Left + low /\ rB = low * Through
    /\ LowHalf(W, operands.a, top, r9)

HighInv ==
  /\ r10 \in Register /\ r12 \in Nat
  /\ HighHalf(Through, operands.a, operands.b, r10, r12)

MultiplyInv == rA = operands.a /\ r11 = operands.b /\ LowInv /\ HighInv

MTypeOK ==
  /\ op \in Opcode /\ operands \in [a : Register, b : Register]
  /\ emulation = "idle" => rA = operands.a /\ rB = operands.b
  /\ emulation = "loop" => r14 \in 0 .. Width /\ Left * Through = W

LoopInv ==
  /\ emulation = "loop" /\ op \in Divide /\ operands.b # 0 => DivideInv
  /\ emulation = "loop" /\ op \notin Divide => MultiplyInv

MInv == MTypeOK /\ LoopInv /\ EmulationIsExact

LEMMA InitMInv == MulDivInit => MInv
BY DEF MulDivInit, MInv, MTypeOK, LoopInv, EmulationIsExact

LEMMA OperandsTyped ==
  ASSUME MTypeOK
  PROVE  /\ operands.a \in Nat /\ operands.b \in Nat
         /\ operands.a < W /\ operands.b < W
         /\ Dividend \in Nat /\ Dividend < W /\ Divisor \in Nat /\ Divisor < W
         /\ (operands.b # 0 => Divisor # 0)
<1>1. operands.a \in Register /\ operands.b \in Register
  BY DEF MTypeOK
<1>2. W \in Nat \ {0}
  BY Powers
<1>3. Dividend \in Register /\ Divisor \in Register /\ (operands.b # 0 => Divisor # 0)
  BY <1>1, NegativeIs DEF Dividend, Divisor
<1> HIDE DEF W
<1> QED BY <1>1, <1>2, <1>3 DEF Register

LEMMA StartMInv == MInv /\ (StartDivide \/ StartMultiply) => MInv'
<1> SUFFICES ASSUME MInv, StartDivide \/ StartMultiply PROVE MInv'
  OBVIOUS
<1>1. /\ W \in Nat \ {0} /\ 2 ^ 0 = 1 /\ 2 ^ Width = W /\ Width - Width = 0 /\ Width \in Nat
  BY Powers, WidthAssumption DEF W
<1>2. /\ emulation = "idle" /\ rA = operands.a /\ rB = operands.b
      /\ emulation' = "loop" /\ r14' = Width /\ op' = op /\ operands' = operands
  BY DEF StartDivide, StartMultiply, MInv, MTypeOK
<1>3. Left' = W /\ Through' = 1
  BY <1>1, <1>2 DEF Left, Through
<1> HIDE DEF W
<1>4. MTypeOK'
  BY <1>1, <1>2, <1>3 DEF MInv, MTypeOK
<1>5. EmulationIsExact'
  BY <1>2 DEF EmulationIsExact
<1>6. MTypeOK
  BY DEF MInv
<1>7. /\ operands.a \in Register /\ operands.b \in Register
  BY <1>6 DEF MTypeOK
<1>8. CASE StartDivide
  <2>1. op \in Divide
    BY <1>8 DEF StartDivide, Divide
  <2>2. rA' = Dividend /\ rB' = Divisor
    BY <1>2, <1>7, <1>8, <2>1, NegativeIs DEF StartDivide, Dividend, Divisor, Divide
  <2>3. Dividend' = Dividend /\ Divisor' = Divisor
    BY <1>2 DEF Dividend, Divisor, Absolute, Signed, MSB
  <2>4. r17' = (IF op = "div" /\ MSB(operands.a) # MSB(operands.b) THEN 1 ELSE 0)
    BY <1>2, <1>8 DEF StartDivide
  <2>5. r13' = 0 /\ Dividend \in Nat /\ Dividend < W /\ Divisor \in Nat
        /\ (operands.b # 0 => Divisor # 0)
    BY <1>6, <1>8, OperandsTyped DEF StartDivide
  <2>6. ASSUME operands.b # 0 PROVE DivideInv'
    <3>1. r13' \in Nat /\ r13' < Divisor
      BY <2>5, <2>6
    <3>2. Dividend \in 0 .. W - 1 /\ 0 \in 0 .. 1 - 1
      BY <1>1, <2>5
    <3>3. rA' = Dividend * 1 + 0 /\ Dividend = (0 * Divisor + r13') * W + Dividend
      BY <1>1, <2>2, <2>5
    <3> QED BY <1>2, <1>3, <2>2, <2>3, <2>4, <3>1, <3>2, <3>3 DEF DivideInv
  <2>7. LoopInv'
    BY <1>2, <2>1, <2>6 DEF LoopInv
  <2> QED BY <1>4, <1>5, <2>7 DEF MInv
<1>9. CASE StartMultiply
  <2>1. op \notin Divide
    BY <1>9 DEF StartMultiply, Divide
  <2>2. /\ r9' = 0 /\ r10' = 0 /\ r11' = operands.b /\ r12' = operands.b
        /\ rA' = operands.a /\ rB' = operands.b
    BY <1>2, <1>9 DEF StartMultiply
  <2>3. operands.a \in Nat /\ operands.b \in Nat /\ operands.b < W
    BY <1>6, OperandsTyped
  <2>4. /\ 0 \in Register /\ operands.b \in 0 .. W - 1 /\ 0 \in 0 .. 1 - 1
        /\ operands.b = 0 * W + operands.b /\ operands.b = operands.b * 1
        /\ operands.a * 0 = 0 * W + 0
        /\ operands.b = operands.b * 1 + 0 /\ operands.a * 0 = 0 * 1 + 0
    BY <1>1, <2>3 DEF Register
  <2>5. LowInv'
    <3>1. LowHalf(W, operands.a, 0, 0)
      BY <2>4 DEF LowHalf, Register
    <3>2. W' = W
      BY DEF W
    <3> QED BY <1>2, <1>3, <2>2, <2>4, <3>1, <3>2 DEF LowInv
  <2>6. HighInv'
    <3>1. HighHalf(1, operands.a, operands.b, 0, operands.b)
      BY <2>4 DEF HighHalf
    <3>2. Register' = Register
      BY DEF Register, W
    <3> QED BY <1>2, <1>3, <2>2, <2>3, <2>4, <3>1, <3>2 DEF HighInv
  <2>7. LoopInv'
    BY <1>2, <2>1, <2>2, <2>5, <2>6 DEF LoopInv, MultiplyInv
  <2> QED BY <1>4, <1>5, <2>7 DEF MInv
<1> QED BY <1>8, <1>9

(* What a pass does to the powers.                                         *)
LEMMA PassTaken ==
  ASSUME MTypeOK, emulation = "loop", r14 > 0, r14' = r14 - 1,
         UNCHANGED <<op, operands, emulation>>
  PROVE  \E T \in Nat \ {0} : \E P \in Nat \ {0} :
           /\ Left = 2 * T /\ Through = P /\ Left' = T /\ Through' = 2 * P
           /\ T * P = H /\ 2 * (T * P) = W
           /\ MTypeOK'
<1>1. r14 \in 1 .. Width /\ 2 ^ r14 * 2 ^ (Width - r14) = W
  BY WidthAssumption DEF MTypeOK, Left, Through
<1> DEFINE T == 2 ^ (r14 - 1)
           P == 2 ^ (Width - r14)
<1>2. /\ T \in Nat \ {0} /\ P \in Nat \ {0}
      /\ 2 ^ r14 = 2 * T /\ 2 ^ (Width - (r14 - 1)) = 2 * P
      /\ T * P = H /\ T * (2 * P) = W
  BY <1>1, PassPowers
<1>3. Left = 2 * T /\ Through = P /\ Left' = T /\ Through' = 2 * P
  BY <1>2 DEF Left, Through
<1> HIDE DEF T, P
<1>4. W = 2 * H
  BY Powers
<1>5. MTypeOK'
  <2>1. r14' \in 0 .. Width /\ Left' * Through' = W
    BY <1>1, <1>2, <1>3, WidthAssumption
  <2> QED BY <2>1 DEF MTypeOK
<1> QED BY <1>2, <1>3, <1>4, <1>5

LEMMA DivideLoopMInv == MInv /\ DivideLoop => MInv'
<1> SUFFICES ASSUME MInv, DivideLoop PROVE MInv'
  OBVIOUS
<1>1. /\ emulation = "loop" /\ op \in Divide /\ r14 > 0 /\ r14' = r14 - 1
      /\ UNCHANGED <<op, rB, r17, operands, emulation>> /\ MTypeOK
  BY DEF DivideLoop, Divide, MInv
<1>2. PICK T \in Nat \ {0}, P \in Nat \ {0} :
        /\ Left = 2 * T /\ Through = P /\ Left' = T /\ Through' = 2 * P
        /\ T * P = H /\ 2 * (T * P) = W
        /\ MTypeOK'
  BY <1>1, PassTaken
<1>3. Dividend' = Dividend /\ Divisor' = Divisor
  BY <1>1 DEF Dividend, Divisor, Absolute, Signed, MSB
<1>4. ASSUME operands.b # 0 PROVE DivideInv'
  <2> DEFINE a == Dividend
             b == Divisor
  <2>1. a \in Nat /\ a < W /\ b \in Nat
    BY <1>1, OperandsTyped
  <2>2. DivideInv
    BY <1>1, <1>4 DEF MInv, LoopInv
  <2>3. PICK hi \in 0 .. Left - 1, q \in 0 .. Through - 1 :
          rA = hi * Through + q /\ Dividend = (q * Divisor + r13) * Left + hi
    BY <2>2 DEF DivideInv
  <2>4. rB = b /\ r13 \in Nat /\ r13 < b
    BY <2>2 DEF DivideInv
  <2> HIDE DEF a, b
  <2>5. /\ hi \in 0 .. 2 * T - 1 /\ q \in 0 .. P - 1
        /\ rA \in Int /\ rA = hi * P + q /\ a = (q * b + r13) * (2 * T) + hi
    BY <1>2, <2>3 DEF a, b
  <2> DEFINE x == rA
  <2>6. x \in Int /\ x = hi * P + q
    BY <2>5
  <2> HIDE DEF x
  <2> DEFINE bit == IF hi >= T THEN 1 ELSE 0
             low == IF hi >= T THEN hi - T ELSE hi
  <2>7. /\ bit \in {0, 1} /\ low \in 0 .. T - 1
        /\ hi = bit * T + low
        /\ x \div (T * P) = bit
        /\ (2 * x) % (2 * (T * P)) = low * (2 * P) + 2 * q
    <3>1. hi \in Nat /\ hi < 2 * T /\ q \in Nat /\ q < P
      BY <2>5
    <3>2. /\ x \div (T * P) = bit
          /\ (2 * x) % (2 * (T * P)) = low * (2 * P) + 2 * q
      BY <2>6, <3>1, ShiftOut
    <3>3. bit \in {0, 1} /\ low \in 0 .. T - 1 /\ hi = bit * T + low
      BY <3>1
    <3> QED BY <3>2, <3>3
  <2>18. bit \in {0, 1} /\ low \in 0 .. T - 1
    BY <2>7
  <2> HIDE DEF bit, low
  <2> USE <2>18
  <2>8. MSB(rA) = bit /\ (2 * rA) % W = low * (2 * P) + 2 * q
    BY <1>2, <2>7, Powers DEF MSB, x
  <2>9. a < 2 * (T * P) /\ a = (q * b + r13) * (2 * T) + (bit * T + low) /\ q \in Nat
    BY <1>2, <2>1, <2>5, <2>7
  <2>10. /\ a = (q * b * 2 + 2 * r13 + bit) * T + low
         /\ (2 * r13 + bit) % (2 * (T * P)) = 2 * r13 + bit
    BY <2>1, <2>4, <2>9, DividePass
  <2> DEFINE remainder == 2 * r13 + bit
             fit == IF remainder >= b THEN 1 ELSE 0
             p == 2 * q + fit
  <2>11. /\ r13' = (IF remainder >= b THEN remainder - b ELSE remainder)
         /\ rA' = low * (2 * P) + 2 * q + fit
    BY <1>2, <2>4, <2>8, <2>10 DEF DivideLoop
  <2>12. r13' \in Nat /\ r13' < b
    BY <2>1, <2>4, <2>11
  <2>13. p \in 0 .. 2 * P - 1 /\ low \in 0 .. T - 1
    BY <2>5
  <2>14. rA' = low * (2 * P) + p
    <3>1. low * (2 * P) \in Int
      OBVIOUS
    <3> QED BY <2>5, <2>11, <3>1
  <2>15. a = (p * b + r13') * T + low
    <3>1. p * b + r13' = q * b * 2 + 2 * r13 + bit
      <4>1. CASE remainder >= b
        <5>1. p * b = q * b * 2 + b
          BY <2>1, <2>5, <4>1
        <5>2. q * b * 2 \in Int
          BY <2>1, <2>5
        <5> QED BY <2>1, <2>4, <2>11, <4>1, <5>1, <5>2
      <4>2. CASE ~(remainder >= b)
        <5>1. p * b = q * b * 2
          BY <2>1, <2>5, <4>2
        <5>2. q * b * 2 \in Int
          BY <2>1, <2>5
        <5> QED BY <2>1, <2>4, <2>11, <4>2, <5>1, <5>2
      <4> QED BY <4>1, <4>2
    <3> QED BY <2>10, <3>1
  <2> HIDE DEF p
  <2>16. \E h2 \in 0 .. Left' - 1 : \E q2 \in 0 .. Through' - 1 :
           rA' = h2 * Through' + q2 /\ Dividend' = (q2 * Divisor' + r13') * Left' + h2
    BY <1>2, <1>3, <2>13, <2>14, <2>15 DEF a, b
  <2>17. r17' = (IF op' = "div" /\ MSB(operands.a)' # MSB(operands.b)' THEN 1 ELSE 0)
    BY <1>1, <2>2 DEF DivideInv, MSB
  <2> QED BY <1>1, <1>3, <2>4, <2>12, <2>16, <2>17 DEF DivideInv, b
<1>5. LoopInv' /\ EmulationIsExact'
  BY <1>1, <1>4 DEF LoopInv, EmulationIsExact
<1> QED BY <1>2, <1>5 DEF MInv

(* A result of either sign is stored as it is defined.                     *)
LEMMA DivideEndMInv == MInv /\ DivideEnd => MInv'
<1> SUFFICES ASSUME MInv, DivideEnd PROVE MInv'
  OBVIOUS
<1>1. /\ emulation = "loop" /\ op \in Divide /\ r14 = 0 /\ emulation' = "done"
      /\ r9' = (IF r17 = 1 THEN Minus(rA) ELSE rA)
      /\ UNCHANGED <<op, operands>> /\ MTypeOK
  BY DEF DivideEnd, Divide, MInv
<1>2. MTypeOK' /\ LoopInv'
  BY <1>1 DEF MTypeOK, LoopInv
<1>3. ASSUME operands.b # 0 PROVE r9' = Exact % W
  <2> DEFINE a == Dividend
             b == Divisor
  <2>1. a \in Nat /\ a < W /\ b \in Nat \ {0} /\ W \in Nat \ {0}
    BY <1>1, <1>3, OperandsTyped, Powers
  <2>2. DivideInv
    BY <1>1, <1>3 DEF MInv, LoopInv
  <2>3. Left = 1 /\ Through = W
    BY <1>1, Powers, WidthAssumption DEF Left, Through, W
  <2>4. PICK hi \in 0 .. Left - 1, q \in 0 .. Through - 1 :
          rA = hi * Through + q /\ Dividend = (q * Divisor + r13) * Left + hi
    BY <2>2 DEF DivideInv
  <2> HIDE DEF a, b, W
  <2>5. q \in 0 .. W - 1 /\ rA = q /\ a = q * b + r13 /\ r13 \in 0 .. b - 1
    <3>1. r13 \in Nat /\ r13 < b
      BY <2>2 DEF DivideInv, b
    <3>2. hi = 0
      BY <2>3, <2>4
    <3> QED BY <2>1, <2>3, <2>4, <3>1, <3>2 DEF a, b
  <2>6. a \div b = q
    <3>1. a \in Int /\ q \in Int /\ a = b * q + r13
      BY <2>1, <2>5
    <3> QED BY <2>1, <2>5, <3>1, DivisionUnique
  <2> DEFINE y == IF r17 = 1 THEN -q ELSE q
  <2>7. Exact = y
    <3>1. operands.a \in Register /\ operands.b \in Register
      BY <1>1 DEF MTypeOK
    <3>2. r17 = (IF op = "div" /\ MSB(operands.a) # MSB(operands.b) THEN 1 ELSE 0)
      BY <2>2 DEF DivideInv
    <3>3. CASE op = "divu"
      BY <2>6, <3>2, <3>3 DEF Exact, Dividend, Divisor, a, b
    <3>4. CASE op = "div"
      <4>1. Exact = Quotient(Signed(operands.a), Signed(operands.b))
        BY <3>4 DEF Exact
      <4>2. Absolute(Signed(operands.a)) = a /\ Absolute(Signed(operands.b)) = b
        BY <3>4 DEF a, b, Dividend, Divisor
      <4>3. /\ MSB(operands.a) \in {0, 1} /\ MSB(operands.b) \in {0, 1}
            /\ (Signed(operands.a) < 0 <=> MSB(operands.a) = 1)
            /\ (Signed(operands.b) < 0 <=> MSB(operands.b) = 1)
        BY <3>1, NegativeIs
      <4> DEFINE sa == Signed(operands.a) < 0
                 sb == Signed(operands.b) < 0
      <4>4. (sa # sb) <=> r17 = 1
        BY <3>2, <3>4, <4>3
      <4>5. Exact = IF sa # sb THEN -q ELSE q
        BY <2>6, <4>1, <4>2 DEF Quotient
      <4> HIDE DEF sa, sb
      <4> QED BY <4>4, <4>5
    <3> QED BY <1>1, <3>3, <3>4 DEF Divide
  <2>8. r9' = y % W
    <3>1. CASE r17 = 1
      <4> DEFINE z == -q
                 u == W + z
                 w == W
      <4>1. z \in Int /\ w \in Nat \ {0} /\ u = z + w * 1 /\ 1 \in Int
        BY <2>1, <2>5
      <4> HIDE DEF z, w
      <4>2. (z + w * 1) % w = z % w
        BY <4>1, Carried
      <4>3. W - q = z + w * 1
        BY <2>1, <2>5 DEF z, w
      <4> QED BY <1>1, <2>5, <3>1, <4>2, <4>3 DEF Minus, z, w
    <3>2. CASE r17 # 1
      <4>1. q \in Int /\ q = W * 0 + q
        BY <2>1, <2>5
      <4>2. q % W = q
        BY <2>1, <2>5, <4>1, DivisionUnique
      <4> QED BY <1>1, <2>5, <3>2, <4>2
    <3> QED BY <3>1, <3>2
  <2> QED BY <2>7, <2>8
<1>4. Exact' = Exact
  BY <1>1 DEF Exact, Quotient, Signed, Absolute, MSB
<1>5. EmulationIsExact'
  <2>1. operands.b # 0 => (r9 = Exact % W)'
    BY <1>3, <1>4 DEF W
  <2> QED BY <1>1, <2>1 DEF EmulationIsExact, Divide
<1> QED BY <1>2, <1>5 DEF MInv

LEMMA MultiplyLoopMInv == MInv /\ MultiplyLoop => MInv'
<1> SUFFICES ASSUME MInv, MultiplyLoop PROVE MInv'
  OBVIOUS
<1>1. /\ emulation = "loop" /\ op \notin Divide /\ r14 > 0 /\ r14' = r14 - 1
      /\ UNCHANGED <<op, rA, r11, operands, emulation>> /\ MTypeOK /\ MultiplyInv
  BY DEF MultiplyLoop, Divide, MInv, LoopInv
<1>2. PICK T \in Nat \ {0}, P \in Nat \ {0} :
        /\ Left = 2 * T /\ Through = P /\ Left' = T /\ Through' = 2 * P
        /\ T * P = H /\ 2 * (T * P) = W
        /\ MTypeOK'
  BY <1>1, PassTaken
<1> DEFINE a == operands.a
           b == operands.b
<1>3. /\ a \in Nat /\ a < W /\ b \in Nat /\ W \in Nat \ {0} /\ H \in Nat \ {0}
      /\ W = 2 * H /\ W \div 2 = H /\ rA = a
  BY <1>1, OperandsTyped, Powers DEF MultiplyInv
<1> HIDE DEF a, b, W
<1>4. LowInv'
  <2>1. PICK hi \in 0 .. Left - 1, top \in Nat :
          /\ operands.b = top * Left + hi /\ rB = hi * Through
          /\ LowHalf(W, operands.a, top, r9)
    BY <1>1 DEF MultiplyInv, LowInv
  <2> DEFINE bit == IF hi >= T THEN 1 ELSE 0
             low == IF hi >= T THEN hi - T ELSE hi
             x == rB
  <2>4. /\ hi \in Nat /\ hi < 2 * T /\ 0 \in Nat /\ 0 < P
        /\ x \in Int /\ x = hi * P + 0
    BY <1>2, <2>1
  <2> HIDE DEF x
  <2>5. /\ x \div (T * P) = bit
        /\ (2 * x) % (2 * (T * P)) = low * (2 * P) + 2 * 0
    BY <2>4, ShiftOut
  <2>6. bit \in {0, 1} /\ low \in 0 .. T - 1 /\ hi = bit * T + low
    BY <2>4
  <2> HIDE DEF bit, low
  <2>7. MSB(rB) = bit /\ rB' = low * (2 * P)
    <3>1. MSB(rB) = bit
      BY <1>2, <1>3, <2>5 DEF MSB, x
    <3>2. rB' = low * (2 * P) + 2 * 0
      BY <1>2, <2>5 DEF MultiplyLoop, x
    <3>3. low * (2 * P) \in Int
      BY <2>6
    <3> QED BY <3>1, <3>2, <3>3
  <2>8. LowHalf(W, a, 2 * top + bit, (2 * r9 + bit * a) % W)
    <3>1. bit \in Nat /\ bit <= 1 /\ LowHalf(W, a, top, r9)
      BY <2>1, <2>6 DEF a
    <3> QED BY <1>3, <3>1, LowPass
  <2>9. r9' = (2 * r9 + bit * a) % W
    BY <1>3, <2>7 DEF MultiplyLoop
  <2> DEFINE up == 2 * top + bit
  <2>10. b = up * T + low /\ up \in Nat
    <3>1. b = top * (2 * T) + (bit * T + low)
      BY <1>2, <2>1, <2>6 DEF b
    <3>2. (2 * top + bit) * T = top * (2 * T) + bit * T
      BY <2>6
    <3>3. top * (2 * T) \in Int /\ bit * T \in Int
      BY <2>6
    <3> QED BY <2>6, <3>1, <3>2, <3>3
  <2> HIDE DEF up
  <2>11. LowHalf(W, a, up, r9')
    BY <2>8, <2>9 DEF up
  <2>12. operands' = operands /\ W' = W
    BY <1>1 DEF W
  <2> QED BY <1>2, <2>6, <2>7, <2>10, <2>11, <2>12 DEF LowInv, a, b
<1>5. HighInv'
  <2>1. HighHalf(P, a, b, r10, r12)
    BY <1>1, <1>2 DEF MultiplyInv, HighInv, a, b
  <2>2. r10 \in Nat /\ r10 < 2 * H /\ r12 \in Nat /\ a < 2 * H
    BY <1>1, <1>3 DEF MultiplyInv, HighInv, Register
  <2> DEFINE sum == (r10 + (r12 % 2) * a) % (2 * H)
             half == (sum \div 2) + (IF r12 % 2 = 1 /\ sum < a THEN H ELSE 0)
             rest == r12 \div 2
  <2>3. half \in 0 .. 2 * H - 1 /\ HighHalf(2 * P, a, b, half, rest)
    BY <1>3, <2>1, <2>2, HighPass
  <2>4. r10' = half /\ r12' = rest
    BY <1>3 DEF MultiplyLoop
  <2>5. rest \in Nat
    BY <2>2
  <2> HIDE DEF half, sum, rest
  <2>6. r10' \in Register /\ r12' \in Nat
    BY <1>3, <2>3, <2>4, <2>5 DEF Register
  <2>7. operands' = operands /\ Register' = Register
    BY <1>1 DEF W, Register
  <2> QED BY <1>2, <2>3, <2>4, <2>6, <2>7 DEF HighInv, a, b
<1>6. LoopInv' /\ EmulationIsExact'
  BY <1>1, <1>4, <1>5 DEF LoopInv, EmulationIsExact, MultiplyInv
<1> QED BY <1>2, <1>6 DEF MInv

(* A product of numbers of which some are taken as negative: their top     *)
(* bits have added the other factor to the high half.                      *)
IsHigh(w, a, b, high) == \E below \in 0 .. w - 1 : a * b = high * w + below

AreHigh(w, a, b, s, t, high) ==
  /\ ((a - s * w) * b) \div w = high - s * b
  /\ ((a - s * w) * (b - t * w)) \div w = high - s * b - t * a + s * t * w

LEMMA SignedProducts ==
  ASSUME NEW w \in Nat \ {0}, NEW a \in Nat, NEW b \in Nat, NEW high \in Int,
         IsHigh(w, a, b, high), NEW s \in Int, NEW t \in Int
  PROVE  AreHigh(w, a, b, s, t, high)
<1>0. PICK below \in 0 .. w - 1 : a * b = high * w + below
  BY DEF IsHigh
<1>1. ((a - s * w) * b) \div w = high - s * b
  <2> DEFINE x == (a - s * w) * b
             q == high - s * b
  <2>1. x = a * b - s * b * w
    BY SMTT(30)
  <2>2. w * q = high * w - s * b * w
    BY SMTT(30)
  <2>3. x \in Int /\ q \in Int /\ x = w * q + below
    <3> DEFINE ab == a * b
               hw == high * w
               sbw == s * b * w
               wq == w * q
    <3>1. ab \in Int /\ hw \in Int /\ sbw \in Int /\ x = ab - sbw /\ wq = hw - sbw
          /\ ab = hw + below /\ q \in Int
      BY <1>0, <2>1, <2>2
    <3> HIDE DEF ab, hw, sbw, wq, x
    <3> QED BY <3>1 DEF wq
  <2> HIDE DEF x, q
  <2>4. x \div w = q
    BY <2>3, DivisionUnique
  <2> QED BY <2>4 DEF x, q
<1>2. ((a - s * w) * (b - t * w)) \div w = high - s * b - t * a + s * t * w
  <2> DEFINE x == (a - s * w) * (b - t * w)
             q == high - s * b - t * a + s * t * w
  <2>1. x = a * b - s * b * w - t * a * w + s * t * w * w
    BY SMTT(30)
  <2>2. w * q = high * w - s * b * w - t * a * w + s * t * w * w
    BY SMTT(30)
  <2>3. x \in Int /\ q \in Int /\ x = w * q + below
    <3> DEFINE ab == a * b
               hw == high * w
               sbw == s * b * w
               taw == t * a * w
               stww == s * t * w * w
               wq == w * q
    <3>1. /\ ab \in Int /\ hw \in Int /\ sbw \in Int /\ taw \in Int /\ stww \in Int
          /\ x = ab - sbw - taw + stww /\ wq = hw - sbw - taw + stww
          /\ ab = hw + below /\ q \in Int
      BY <1>0, <2>1, <2>2
    <3> HIDE DEF ab, hw, sbw, taw, stww, wq, x
    <3> QED BY <3>1 DEF wq
  <2> HIDE DEF x, q
  <2>4. x \div w = q
    BY <2>3, DivisionUnique
  <2> QED BY <2>4 DEF x, q
<1> QED BY <1>1, <1>2 DEF AreHigh

LEMMA ReducedAgain ==
  ASSUME NEW w \in Nat \ {0}, NEW x \in Int, NEW y \in Int, NEW j \in Int
  PROVE  /\ ((x % w) - y) % w = (x - y) % w
         /\ (x - y + j * w) % w = (x - y) % w
<1> DEFINE q == x \div w
           r == x % w
           u == r - y
           v == x - y
<1>1. q \in Int /\ r \in Int /\ x = w * q + r
  BY Division
<1> HIDE DEF q, r
<1>2. u \in Int /\ v \in Int /\ v = u + w * q
  BY <1>1
<1> HIDE DEF u, v
<1>3. (u + w * q) % w = u % w
  BY <1>1, <1>2, Carried
<1>4. (v + w * j) % w = v % w
  BY <1>2, Carried
<1>5. j * w = w * j
  OBVIOUS
<1> QED BY <1>2, <1>3, <1>4, <1>5 DEF u, v, r

(* What the halves are once every bit of the multiplier is taken.          *)
LEMMA ProductIsComplete ==
  ASSUME MTypeOK, MultiplyInv, r14 = 0
  PROVE  /\ r9 \in 0 .. W - 1 /\ (operands.a * operands.b) % W = r9
         /\ r10 \in 0 .. W - 1
         /\ IsHigh(W, operands.a, operands.b, r10)
<1> DEFINE a == operands.a
           b == operands.b
<1>1. Left = 1 /\ Through = W
  BY Powers, WidthAssumption DEF Left, Through, W
<1>2. a \in Nat /\ a < W /\ b \in Nat /\ b < W /\ W \in Nat \ {0}
  BY OperandsTyped, Powers
<1> HIDE DEF W, a, b
<1>3. r9 \in 0 .. W - 1 /\ (a * b) % W = r9
  <2>1. PICK low \in 0 .. Left - 1, top \in Nat :
          b = top * Left + low /\ LowHalf(W, a, top, r9)
    BY DEF MultiplyInv, LowInv, a, b
  <2>2. top = b
    BY <1>1, <1>2, <2>1
  <2>3. PICK k \in Int : a * b = k * W + r9
    BY <2>1, <2>2 DEF LowHalf
  <2>4. r9 \in 0 .. W - 1
    BY <2>1 DEF LowHalf
  <2> DEFINE x == a * b
  <2>5. x \in Int /\ x = W * k + r9
    BY <1>2, <2>3, <2>4
  <2> HIDE DEF x
  <2>6. x % W = r9
    BY <1>2, <2>4, <2>5, DivisionUnique
  <2> QED BY <2>4, <2>6 DEF x
<1>4. /\ r10 \in 0 .. W - 1
      /\ IsHigh(W, a, b, r10)
  <2>1. r10 \in 0 .. W - 1 /\ r12 \in Nat /\ HighHalf(W, a, b, r10, r12)
    BY <1>1 DEF MultiplyInv, HighInv, Register, a, b
  <2>2. PICK bits \in 0 .. W - 1, below \in 0 .. W - 1 :
          b = r12 * W + bits /\ a * bits = r10 * W + below
    BY <2>1 DEF HighHalf
  <2>3. r12 = 0
    <3>1. r12 > 0 => r12 * W >= W
      BY <1>2, <2>1, SMTT(30)
    <3>2. r12 * W \in Nat
      BY <1>2, <2>1
    <3> DEFINE rw == r12 * W
    <3> HIDE DEF rw
    <3>3. rw \in Nat /\ (r12 > 0 => rw >= W) /\ b = rw + bits
      BY <2>2, <3>1, <3>2 DEF rw
    <3> QED BY <1>2, <2>1, <3>3
  <2>4. bits = b
    BY <1>2, <2>2, <2>3
  <2> QED BY <2>1, <2>2, <2>4 DEF IsHigh
<1> QED BY <1>3, <1>4 DEF a, b

(* Either half is stored as it is defined.                                 *)
LEMMA MultiplyEndMInv == MInv /\ MultiplyEnd => MInv'
<1> SUFFICES ASSUME MInv, MultiplyEnd PROVE MInv'
  OBVIOUS
<1>1. /\ emulation = "loop" /\ op \notin Divide /\ r14 = 0 /\ emulation' = "done"
      /\ UNCHANGED <<op, operands>> /\ MTypeOK /\ MultiplyInv
  BY DEF MultiplyEnd, Divide, MInv, LoopInv
<1>2. MTypeOK' /\ LoopInv'
  BY <1>1 DEF MTypeOK, LoopInv
<1>3. r9' = Exact % W
  <2> DEFINE a == operands.a
             b == operands.b
             s == MSB(a)
             t == MSB(b)
             w == W
             high == r10
  <2>1. a \in Nat /\ b \in Nat /\ w \in Nat \ {0} /\ rA = a /\ r11 = b
    BY <1>1, OperandsTyped, Powers DEF MultiplyInv
  <2>2. s \in {0, 1} /\ t \in {0, 1} /\ Signed(a) = a - s * w /\ Signed(b) = b - t * w
    BY <1>1, NegativeIs DEF MTypeOK
  <2>3. r9 \in 0 .. w - 1 /\ (a * b) % w = r9 /\ high \in 0 .. w - 1
    BY <1>1, ProductIsComplete
  <2>4. IsHigh(w, a, b, high)
    BY <1>1, ProductIsComplete
  <2>5. /\ op = "mul" => r9' = r9
        /\ op = "mulxuu" => r9' = high
        /\ op = "mulxsu" => r9' = (high - s * b) % w
        /\ op = "mulxss" => r9' = (((high - s * b) % w) - t * a) % w
    BY <2>1 DEF MultiplyEnd
  <2>6. /\ op = "mul" => Exact = a * b
        /\ op = "mulxuu" => Exact = (a * b) \div w
        /\ op = "mulxsu" => Exact = ((a - s * w) * b) \div w
        /\ op = "mulxss" => Exact = ((a - s * w) * (b - t * w)) \div w
    BY <2>2 DEF Exact
  <2>7. op \in {"mul", "mulxuu", "mulxsu", "mulxss"}
    BY <1>1 DEF MTypeOK, Opcode, Divide
  <2> HIDE DEF a, b, s, t, w, high
  <2>8. /\ ((a - s * w) * b) \div w = high - s * b
        /\ ((a - s * w) * (b - t * w)) \div w = high - s * b - t * a + s * t * w
    <3>1. high \in Int /\ s \in Int /\ t \in Int
      BY <2>1, <2>2, <2>3
    <3>2. AreHigh(w, a, b, s, t, high)
      BY <2>1, <2>4, <3>1, SignedProducts
    <3> QED BY <3>2 DEF AreHigh
  <2>9. r9' = Exact % w
    <3>1. CASE op = "mul"
      BY <2>3, <2>5, <2>6, <3>1
    <3>2. CASE op = "mulxuu"
      <4> DEFINE x == a * b
      <4>1. PICK below \in 0 .. w - 1 : x \in Int /\ high \in Int /\ x = w * high + below
        BY <2>1, <2>3, <2>4 DEF IsHigh
      <4>2. high % w = high
        BY <2>1, <2>3
      <4> HIDE DEF x
      <4>3. x \div w = high
        BY <2>1, <4>1, DivisionUnique
      <4> QED BY <2>5, <2>6, <3>2, <4>2, <4>3 DEF x
    <3>3. CASE op = "mulxsu"
      BY <2>5, <2>6, <2>8, <3>3
    <3>4. CASE op = "mulxss"
      <4> DEFINE x == high - s * b
                 y == t * a
                 j == s * t
      <4>1. x \in Int /\ y \in Int /\ j \in Int
        BY <2>1, <2>2, <2>3
      <4>2. Exact = x - y + j * w /\ r9' = ((x % w) - y) % w
        BY <2>5, <2>6, <2>8, <3>4
      <4> HIDE DEF x, y, j
      <4>3. ((x % w) - y) % w = (x - y) % w /\ (x - y + j * w) % w = (x - y) % w
        BY <2>1, <4>1, ReducedAgain
      <4> QED BY <4>2, <4>3
    <3> QED BY <2>7, <3>1, <3>2, <3>3, <3>4
  <2> QED BY <2>9 DEF w
<1>4. Exact' = Exact /\ W' = W
  BY <1>1 DEF Exact, Quotient, Signed, Absolute, MSB, W
<1>5. EmulationIsExact'
  BY <1>3, <1>4 DEF EmulationIsExact
<1> QED BY <1>2, <1>5 DEF MInv

LEMMA NextMInv == MInv /\ [MulDivNext]_muldivvars => MInv'
<1> SUFFICES ASSUME MInv, [MulDivNext]_muldivvars PROVE MInv'
  OBVIOUS
<1>1. CASE MulDivNext
  BY <1>1, StartMInv, DivideLoopMInv, DivideEndMInv, MultiplyLoopMInv, MultiplyEndMInv
     DEF MulDivNext
<1>2. CASE UNCHANGED muldivvars
  <2> USE <1>2 DEF muldivvars
  <2>1. MTypeOK'
    BY DEF MInv, MTypeOK, Left, Through, Register, W
  <2>2. LoopInv'
    BY DEF MInv, LoopInv, DivideInv, MultiplyInv, LowInv, HighInv, Left, Through,
           Dividend, Divisor, Absolute, Signed, MSB, Register, W
  <2>3. EmulationIsExact'
    BY DEF MInv, EmulationIsExact, Exact, Quotient, Absolute, Signed, MSB, W
  <2> QED BY <2>1, <2>2, <2>3 DEF MInv
<1> QED BY <1>1, <1>2

(* The quotient so far has its place in the register's low bits.           *)
LEMMA DividendIsKept == MInv => DivisionKeepsDividend
<1> SUFFICES ASSUME MInv, emulation = "loop", op = "divu", operands.b # 0
             PROVE  /\ r13 < operands.b
                    /\ (rA % (2 ^ (Width - r14))) * operands.b + r13
                         = operands.a \div (2 ^ r14)
  BY DEF DivisionKeepsDividend
<1> DEFINE a == operands.a
           b == operands.b
           B == Left
           P == Through
<1>1. MTypeOK /\ DivideInv /\ Dividend = a /\ Divisor = b
  BY DEF MInv, LoopInv, Divide, Dividend, Divisor
<1>2. a \in Nat /\ b \in Nat
  BY <1>1, OperandsTyped
<1>3. r14 \in 0 .. Width /\ Width - r14 \in 0 .. Width
  BY <1>1, WidthAssumption DEF MTypeOK
<1>4. B \in Nat \ {0} /\ P \in Nat \ {0}
  BY <1>3, Powers DEF Left, Through
<1>5. r13 \in Nat /\ r13 < b
  BY <1>1 DEF DivideInv
<1>6. PICK hi \in 0 .. B - 1, q \in 0 .. P - 1 :
        rA = hi * P + q /\ a = (q * b + r13) * B + hi
  BY <1>1 DEF DivideInv
<1> HIDE DEF a, b, B, P
<1>7. rA % P = q
  <2> DEFINE x == rA
  <2>1. x \in Int /\ hi \in Int /\ x = P * hi + q
    BY <1>4, <1>6
  <2> HIDE DEF x
  <2>2. x % P = q
    BY <1>4, <2>1, DivisionUnique
  <2> QED BY <2>2 DEF x
<1>8. a \div B = q * b + r13
  <2> DEFINE y == q * b + r13
  <2>1. y \in Int /\ a \in Int /\ a = y * B + hi
    BY <1>2, <1>4, <1>5, <1>6
  <2> HIDE DEF y
  <2>2. a = B * y + hi
    BY <1>4, <2>1
  <2>3. a \div B = y
    BY <1>4, <2>1, <2>2, DivisionUnique
  <2> QED BY <2>3 DEF y
<1> QED BY <1>5, <1>7, <1>8 DEF a, b, B, P, Left, Through

(* For every width of a register: an emulated multiplication or division   *)
(* stores what the instruction is defined to, for every pair of operands,  *)
(* signed or unsigned, and the remainder of a division always fits into    *)
(* its register (alt_exception_muldiv.S:286-552).                          *)
THEOREM EmulationIsRight == LibrarySpec => []EmulationKept
<1> DEFINE Inv == part = "muldiv" => MInv
<1>1. LibraryInit => Inv
  BY InitMInv DEF LibraryInit
<1>2. Inv /\ [LibraryNext]_vars => Inv'
  <2> SUFFICES ASSUME Inv, [LibraryNext]_vars, part' = "muldiv" PROVE MInv'
    OBVIOUS
  <2>1. part = "muldiv" /\ [MulDivNext]_muldivvars
    BY DEF LibraryNext, vars
  <2> QED BY <2>1, NextMInv
<1>3. Inv => EmulationKept
  BY DividendIsKept DEF EmulationKept, MInv
<1> QED BY <1>1, <1>2, <1>3, PTL DEF LibrarySpec

-----------------------------------------------------------------------------
(* Printing. *)

(* The digits are sixteen characters, of which the first ten are decimal.  *)
(* The provers do not know that a character is a string.                   *)
HexChar == {Hex(d) : d \in 0 .. 15}
Letter == {"d", "i", "u", "o", "x", "c", "s", "a", "l", ".", "%", Blank, "-"}
Printable == STRING \cup HexChar \cup Letter

LEMMA HexesAre ==
  /\ Hex(0) = "0" /\ Hex(1) = "1" /\ Hex(2) = "2" /\ Hex(3) = "3" /\ Hex(4) = "4"
  /\ Hex(5) = "5" /\ Hex(6) = "6" /\ Hex(7) = "7" /\ Hex(8) = "8" /\ Hex(9) = "9"
  /\ Hex(10) = "a" /\ Hex(11) = "b" /\ Hex(12) = "c" /\ Hex(13) = "d" /\ Hex(14) = "e"
  /\ Hex(15) = "f"
BY DEF Hex, HEX

LEMMA HexesDiffer ==
  /\ \A d \in 0 .. 15 : Hex(d) \notin {Blank, "-", "%", ".", "l"}
  /\ \A d \in 0 .. 15, e \in 0 .. 15 : Hex(d) = Hex(e) => d = e
<1>1. ASSUME NEW d \in 0 .. 15
      PROVE  \/ d = 0 \/ d = 1 \/ d = 2 \/ d = 3 \/ d = 4 \/ d = 5 \/ d = 6 \/ d = 7
             \/ d = 8 \/ d = 9 \/ d = 10 \/ d = 11 \/ d = 12 \/ d = 13 \/ d = 14 \/ d = 15
  OBVIOUS
<1>2. ASSUME NEW d \in 0 .. 15
      PROVE  Hex(d) \notin {Blank, "-", "%", ".", "l"}
  <2>1. Hex(d) \in {"0", "1", "2", "3", "4", "5", "6", "7", "8", "9", "a", "b", "c", "d", "e", "f"}
    BY <1>1, HexesAre, Zenon
  <2> QED BY <2>1, Zenon DEF Blank
<1> DEFINE digit == [c \in HexChar |->
              CASE c = "0" -> 0 [] c = "1" -> 1 [] c = "2" -> 2 [] c = "3" -> 3
                [] c = "4" -> 4 [] c = "5" -> 5 [] c = "6" -> 6 [] c = "7" -> 7
                [] c = "8" -> 8 [] c = "9" -> 9 [] c = "a" -> 10 [] c = "b" -> 11
                [] c = "c" -> 12 [] c = "d" -> 13 [] c = "e" -> 14 [] OTHER -> 15]
<1>3. ASSUME NEW d \in 0 .. 15 PROVE digit[Hex(d)] = d
  <2>1. \A e \in 0 .. 15 : Hex(e) \in HexChar
    BY DEF HexChar
  <2>2. /\ digit[Hex(0)] = 0 /\ digit[Hex(1)] = 1 /\ digit[Hex(2)] = 2 /\ digit[Hex(3)] = 3
        /\ digit[Hex(4)] = 4 /\ digit[Hex(5)] = 5 /\ digit[Hex(6)] = 6 /\ digit[Hex(7)] = 7
    BY <2>1, HexesAre
  <2>3. /\ digit[Hex(8)] = 8 /\ digit[Hex(9)] = 9 /\ digit[Hex(10)] = 10 /\ digit[Hex(11)] = 11
        /\ digit[Hex(12)] = 12 /\ digit[Hex(13)] = 13 /\ digit[Hex(14)] = 14 /\ digit[Hex(15)] = 15
    BY <2>1, HexesAre
  <2> HIDE DEF digit
  <2> QED BY <1>1, <2>2, <2>3, Zenon
<1> HIDE DEF digit
<1> QED BY <1>2, <1>3, Zenon

LEMMA DigitRead ==
  ASSUME NEW d \in 0 .. 15
  PROVE  (CHOOSE e \in 0 .. 15 : Hex(e) = Hex(d)) = d
<1> DEFINE f == CHOOSE e \in 0 .. 15 : Hex(e) = Hex(d)
<1>1. f \in 0 .. 15 /\ Hex(f) = Hex(d)
  OBVIOUS
<1> HIDE DEF f
<1>2. f = d
  BY <1>1, HexesDiffer
<1> QED BY <1>2 DEF f

LEMMA DecimalIs == Decimal = {Hex(d) : d \in 0 .. 9}
<1>1. \A i \in 1 .. 10 : i - 1 \in 0 .. 9 /\ HEX[i] = Hex(i - 1)
  BY DEF Hex
<1>2. \A d \in 0 .. 9 : d + 1 \in 1 .. 10 /\ Hex(d) = HEX[d + 1]
  BY DEF Hex
<1> QED BY <1>1, <1>2, Zenon DEF Decimal

LEMMA NumberIs ==
  ASSUME NEW d \in 0 .. 9
  PROVE  Hex(d) \in Decimal /\ Number(Hex(d)) = d
<1> DEFINE i == CHOOSE i \in 1 .. 10 : HEX[i] = Hex(d)
<1>1. d + 1 \in 1 .. 10 /\ HEX[d + 1] = Hex(d)
  BY DEF Hex
<1>2. i \in 1 .. 10 /\ HEX[i] = Hex(d)
  BY <1>1
<1>3. Number(Hex(d)) = i - 1
  BY DEF Number
<1> HIDE DEF i
<1>4. i - 1 \in 0 .. 15 /\ d \in 0 .. 15 /\ Hex(i - 1) = Hex(d)
  BY <1>2 DEF Hex
<1>5. i - 1 = d
  BY <1>4, HexesDiffer
<1> QED BY <1>1, <1>3, <1>5 DEF Decimal

LEMMA LettersAre ==
  \A c \in {"d", "u", "o", "x", "c", "s", "%", ".", "l"} : c \notin Decimal
<1>1. \A d \in 0 .. 9 : d \in {0, 1, 2, 3, 4, 5, 6, 7, 8, 9}
  OBVIOUS
<1> QED BY <1>1, HexesAre, DecimalIs

(* Powers of a base rise, and 2 * Digits places hold a word in any base.   *)
Bases == {8, 10, 16}

LEMMA Radix ==
  ASSUME NEW base \in Bases
  PROVE  /\ base ^ 0 = 1
         /\ \A n \in 0 .. 2 * Digits : base ^ n \in Nat \ {0}
         /\ \A n \in 0 .. 2 * Digits - 1 : base ^ (n + 1) = base * base ^ n
<1>1. Digits \in Nat \ {0}
  BY FormatterAssumption
<1>2. \A n \in 0 .. 2 * Digits - 1 : base ^ n \in Nat \ {0} /\ base ^ (n + 1) = base * base ^ n
  BY RadixAssumption DEF Bases
<1>3. base ^ 0 = 1
  <2>1. CASE base = 8
    BY <2>1
  <2>2. CASE base = 10
    BY <2>2
  <2>3. CASE base = 16
    BY <2>3
  <2> QED BY <2>1, <2>2, <2>3 DEF Bases
<1> DEFINE k == 2 * Digits - 1
           p == base ^ k
<1>4. k \in 0 .. 2 * Digits - 1 /\ k + 1 = 2 * Digits
  BY <1>1
<1>5. base ^ (2 * Digits) = base * p /\ p \in Nat \ {0}
  BY <1>2, <1>4
<1> HIDE DEF k, p
<1>6. base * p \in Nat \ {0}
  BY <1>5 DEF Bases
<1>7. \A n \in 0 .. 2 * Digits : n \in 0 .. 2 * Digits - 1 \/ n = 2 * Digits
  BY <1>1
<1> QED BY <1>2, <1>3, <1>5, <1>6, <1>7

LEMMA PowersRise ==
  ASSUME NEW base \in Bases, NEW i \in 0 .. 2 * Digits, NEW j \in 0 .. 2 * Digits, i <= j
  PROVE  base ^ i <= base ^ j
<1> DEFINE n == 2 * Digits - i
           S == {k \in 0 .. n : base ^ i <= base ^ (i + k)}
<1>1. Digits \in Nat \ {0} /\ n \in Nat
  BY FormatterAssumption
<1>2. 0 \in S
  <2>1. i + 0 = i /\ base ^ i \in Nat
    BY Radix
  <2> QED BY <1>1, <2>1
<1>3. ASSUME NEW k \in 0 .. n - 1, k \in S PROVE k + 1 \in S
  <2> DEFINE a == base ^ i
             b == base ^ (i + k)
             c == base ^ (i + k + 1)
  <2>1. i + k \in 0 .. 2 * Digits - 1 /\ i + k \in 0 .. 2 * Digits /\ i + (k + 1) = i + k + 1
    BY <1>1
  <2>2. a \in Nat /\ b \in Nat /\ c = base * b /\ a <= b
    BY <1>3, <2>1, Radix
  <2> HIDE DEF a, b, c
  <2>3. a <= c
    BY <2>2 DEF Bases
  <2>4. base ^ i <= base ^ (i + (k + 1))
    BY <2>1, <2>3 DEF a, c
  <2> QED BY <1>1, <2>4
<1> HIDE DEF S
<1>4. \A k \in 0 .. n : k \in S
  BY <1>1, <1>2, <1>3, UpTo
<1>5. j - i \in 0 .. n /\ i + (j - i) = j
  BY <1>1
<1> QED BY <1>4, <1>5 DEF S

LEMMA WordFits ==
  ASSUME NEW base \in Bases
  PROVE  Word \in Nat \ {0} /\ Word <= base ^ (2 * Digits)
<1> DEFINE n == Digits
           S == {k \in 0 .. n : 16 ^ k <= base ^ (2 * k)}
<1>1. Digits \in Nat \ {0}
  BY FormatterAssumption
<1>2. 0 \in S
  <2>1. 2 * 0 = 0 /\ base ^ 0 = 1 /\ 16 ^ 0 = 1
    BY Radix
  <2>2. 16 ^ 0 <= base ^ (2 * 0)
    BY <2>1
  <2>3. 0 \in 0 .. n
    BY <1>1
  <2> QED BY <2>2, <2>3
<1>3. ASSUME NEW k \in 0 .. n - 1, k \in S PROVE k + 1 \in S
  <2> DEFINE a == 16 ^ k
             b == base ^ (2 * k)
             c == base ^ (2 * k + 1)
  <2>1. /\ k \in 0 .. 2 * Digits - 1 /\ 2 * k \in 0 .. 2 * Digits - 1
        /\ 2 * k + 1 \in 0 .. 2 * Digits - 1 /\ 2 * (k + 1) = 2 * k + 1 + 1
        /\ k + 1 \in 0 .. n
    BY <1>1
  <2>2. a \in Nat /\ b \in Nat /\ c = base * b /\ a <= b
    <3>1. k \in 0 .. 2 * Digits /\ 2 * k \in 0 .. 2 * Digits
      BY <1>1, <2>1
    <3> QED BY <1>3, <2>1, <3>1, Radix DEF Bases
  <2>3. 16 ^ (k + 1) = 16 * a /\ base ^ (2 * k + 1 + 1) = base * c
    BY <2>1, Radix DEF Bases
  <2> HIDE DEF a, b, c
  <2>4. 16 * a <= base * c
    BY <2>2 DEF Bases
  <2>5. 16 ^ (k + 1) <= base ^ (2 * (k + 1))
    BY <2>1, <2>3, <2>4
  <2> QED BY <2>1, <2>5
<1> HIDE DEF S
<1>4. \A k \in 0 .. n : k \in S
  BY <1>1, <1>2, <1>3, UpTo
<1>5. n \in 0 .. n /\ n \in 0 .. 2 * Digits
  BY <1>1
<1>6. 16 ^ n \in Nat \ {0}
  BY <1>5, Radix DEF Bases
<1> QED BY <1>4, <1>5, <1>6 DEF S, Word

(* The number of places is the least whose power is above the value.       *)
LEMMA PlacesAre ==
  ASSUME NEW base \in Bases, NEW v \in 0 .. Word - 1
  PROVE  /\ Places(v, base) \in 1 .. 2 * Digits
         /\ base ^ Places(v, base) > v
         /\ v > 0 => base ^ (Places(v, base) - 1) <= v
         /\ v = 0 => Places(v, base) = 1
<1> DEFINE K == 2 * Digits
           n == Places(v, base)
           Above == {k \in 1 .. K : base ^ k > v}
<1>1. Digits \in Nat \ {0} /\ K \in Nat /\ K >= 2 /\ Word \in Nat
  BY FormatterAssumption, WordFits
<1>2. K \in Above
  <2>1. K \in 0 .. K /\ K \in 1 .. K
    BY <1>1
  <2>2. base ^ K \in Nat /\ Word <= base ^ K
    BY <2>1, Radix, WordFits
  <2>3. base ^ K > v
    BY <1>1, <2>2
  <2> QED BY <2>1, <2>3
<1>3. PICK x \in Above : \A y \in Above : ~(<<y, x>> \in OpToRel(<, Nat))
  <2>1. IsWellFoundedOn(OpToRel(<, Nat), Nat)
    BY NatLessThanWellFounded
  <2>2. Above \subseteq Nat /\ Above # {}
    BY <1>2
  <2> HIDE DEF Above
  <2> QED BY <2>1, <2>2, WFMin
<1>4. x > 1 => base ^ (x - 1) <= v
  <2> SUFFICES ASSUME x > 1, ~(base ^ (x - 1) <= v) PROVE FALSE
    OBVIOUS
  <2>1. x \in 1 .. K
    BY <1>3
  <2> HIDE DEF Above, K
  <2>2. x \in 1 .. K /\ x - 1 \in 1 .. K /\ x - 1 \in 0 .. K
    BY <1>1, <2>1
  <2> USE DEF Above, K
  <2>3. base ^ (x - 1) \in Nat
    BY <2>2, Radix
  <2>4. base ^ (x - 1) > v
    BY <1>1, <2>3
  <2>5. x - 1 \in Above
    BY <2>2, <2>4
  <2>6. <<x - 1, x>> \in OpToRel(<, Nat)
    BY <2>2 DEF OpToRel
  <2> HIDE DEF Above
  <2> QED BY <1>3, <2>5, <2>6
<1>5. x \in 1 .. K /\ base ^ x > v /\ (x > 1 => base ^ (x - 1) <= v)
  BY <1>3, <1>4
<1>6. n \in 1 .. K /\ base ^ n > v /\ (n > 1 => base ^ (n - 1) <= v)
  BY <1>5 DEF Places
<1> HIDE DEF n
<1>7. v > 0 => base ^ (n - 1) <= v
  <2>1. CASE n > 1
    BY <1>6, <2>1
  <2>2. CASE n = 1
    <3>1. n - 1 = 0 /\ base ^ 0 = 1
      BY <2>2, Radix
    <3> QED BY <1>1, <3>1
  <2> QED BY <1>6, <2>1, <2>2
<1>8. v = 0 => n = 1
  <2> SUFFICES ASSUME v = 0, n > 1 PROVE FALSE
    BY <1>6
  <2>1. n - 1 \in 0 .. 2 * Digits
    BY <1>1, <1>6
  <2>2. base ^ (n - 1) \in Nat \ {0}
    BY <2>1, Radix
  <2> QED BY <1>6, <2>2
<1> QED BY <1>6, <1>7, <1>8 DEF n

(* Each quotient has one digit more than the next.                         *)
LEMMA NextDigit ==
  ASSUME NEW base \in Bases, NEW v \in Nat, NEW k \in 0 .. 2 * Digits - 1
  PROVE  /\ (v \div base ^ k) % base \in 0 .. base - 1
         /\ v \div base ^ k \in Nat
         /\ v \div base ^ k = (v \div base ^ (k + 1)) * base + ((v \div base ^ k) % base)
<1> DEFINE p == base ^ k
           q == v \div p
           r == v % p
           u == q \div base
           d == q % base
<1>1. k \in 0 .. 2 * Digits /\ base \in Nat \ {0} /\ Digits \in Nat /\ v \in Int
  BY FormatterAssumption DEF Bases
<1>2. p \in Nat \ {0} /\ base ^ (k + 1) = base * p
  BY <1>1, Radix
<1> HIDE DEF p, u, d
<1>3. q \in Nat /\ r \in 0 .. p - 1 /\ v = p * q + r
  <2>1. q \in Nat
    BY <1>2
  <2>2. r \in 0 .. p - 1 /\ v = p * q + r
    BY <1>1, <1>2, Division, Zenon
  <2> QED BY <2>1, <2>2
<1> HIDE DEF q, r
<1>4. u \in Nat /\ d \in 0 .. base - 1 /\ q = base * u + d
  <2>1. u \in Nat
    BY <1>1, <1>3 DEF u
  <2>2. d \in 0 .. base - 1 /\ q = base * u + d
    <3>1. q \in Int
      BY <1>3
    <3> QED BY <1>1, <3>1, Division, Zenon DEF u, d
  <2> QED BY <2>1, <2>2
<1>5. v \div (base * p) = u
  <2> DEFINE b == base * p
             t == p * d + r
  <2>1. b \in Nat \ {0}
    BY <1>1, <1>2
  <2>2. v = b * u + t
    BY <1>1, <1>2, <1>3, <1>4
  <2>3. t \in 0 .. b - 1
    <3>1. p * d \in Nat /\ p * d <= p * (base - 1)
      BY <1>1, <1>2, <1>4, SMTT(30)
    <3>2. p * (base - 1) + p = base * p
      BY <1>1, <1>2
    <3> DEFINE y == p * d
               z == p * (base - 1)
    <3>3. y \in Nat /\ y <= z /\ z + p = b /\ z \in Int
      BY <1>1, <1>2, <3>1, <3>2
    <3> HIDE DEF y, z, b
    <3>4. y + r \in 0 .. b - 1
      BY <1>2, <1>3, <2>1, <3>3
    <3> QED BY <3>4 DEF y
  <2> HIDE DEF b, t
  <2>4. v \div b = u
    BY <1>4, <2>1, <2>2, <2>3, DivisionUnique
  <2> QED BY <2>4 DEF b
<1>6. q = u * base + d /\ q \in Nat /\ d \in 0 .. base - 1 /\ v \div base ^ (k + 1) = u
  BY <1>1, <1>2, <1>3, <1>4, <1>5
<1> DEFINE w == base ^ (k + 1)
<1> HIDE DEF w
<1>7. q \in Nat /\ d \in 0 .. base - 1 /\ q = (v \div w) * base + d
  BY <1>6 DEF w
<1> QED BY <1>7, Zenon DEF p, q, d, w

LEMMA NumeralIs ==
  ASSUME NEW base \in Bases, NEW v \in 0 .. Word - 1
  PROVE  LET n == Places(v, base) IN
         /\ n \in Nat \ {0}
         /\ Numeral(v, base) \in Seq(Printable) /\ Len(Numeral(v, base)) = n
         /\ v \div base ^ n = 0 /\ v \div base ^ (n - n) = v
         /\ \A j \in 1 .. n : \E d \in 0 .. 15 :
              /\ Numeral(v, base)[j] = Hex(d)
              /\ v \div base ^ (n - j) = (v \div base ^ (n - (j - 1))) * base + d
<1> DEFINE n == Places(v, base)
<1>1. /\ n \in 1 .. 2 * Digits /\ base ^ n > v /\ v \in Nat /\ Digits \in Nat
      /\ n \in 0 .. 2 * Digits
  BY PlacesAre, WordFits, FormatterAssumption
<1>2. Numeral(v, base) = [i \in 1 .. n |-> Hex((v \div base ^ (n - i)) % base)]
  BY DEF Numeral
<1> HIDE DEF n
<1>3. ASSUME NEW j \in 1 .. n
      PROVE  \E d \in 0 .. 15 :
              /\ Numeral(v, base)[j] = Hex(d)
              /\ v \div base ^ (n - j) = (v \div base ^ (n - (j - 1))) * base + d
  <2> DEFINE k == n - j
             d == (v \div base ^ k) % base
  <2>1. k \in 0 .. 2 * Digits - 1 /\ n - (j - 1) = k + 1
    BY <1>1
  <2>2. Numeral(v, base)[j] = Hex(d)
    BY <1>2
  <2> HIDE DEF k
  <2>3. /\ d \in 0 .. base - 1
        /\ v \div base ^ k = (v \div base ^ (k + 1)) * base + d
    BY <1>1, <2>1, NextDigit, Zenon
  <2> HIDE DEF d
  <2>4. d \in 0 .. 15
    BY <2>3 DEF Bases
  <2> QED BY <2>1, <2>2, <2>3, <2>4 DEF k
<1>4. Numeral(v, base) \in Seq(Printable) /\ Len(Numeral(v, base)) = n
  <2>1. \A j \in 1 .. n : Numeral(v, base)[j] \in Printable
    BY <1>3 DEF HexChar, Printable
  <2>2. Numeral(v, base) = [i \in 1 .. n |-> Numeral(v, base)[i]]
    BY <1>2
  <2> DEFINE s == Numeral(v, base)
  <2> HIDE DEF s
  <2>3. s \in [1 .. n -> Printable]
    BY <2>1, <2>2 DEF s
  <2>4. s \in Seq(Printable) /\ Len(s) = n
    BY <1>1, <2>3
  <2> QED BY <2>4 DEF s
<1>5. v \div base ^ n = 0
  <2> DEFINE p == base ^ n
  <2>1. p \in Nat \ {0} /\ v < p
    BY <1>1, Radix
  <2> HIDE DEF p
  <2>2. v \in Int /\ v = p * 0 + v /\ v \in 0 .. p - 1
    BY <1>1, <2>1
  <2>3. v \div p = 0
    BY <2>1, <2>2, DivisionUnique
  <2> QED BY <2>3 DEF p
<1>6. v \div base ^ (n - n) = v
  <2>1. n - n = 0 /\ base ^ 0 = 1
    BY <1>1, Radix
  <2>2. v \div 1 = v
    BY <1>1
  <2> QED BY <2>1, <2>2
<1>7. n \in Nat \ {0}
  BY <1>1
<1> QED BY <1>3, <1>4, <1>5, <1>6, <1>7 DEF n

(* Reading a numeral back.                                                 *)
ReadChar(n, c, base) ==
  IF c \in {Blank, "-"} THEN n ELSE n * base + (CHOOSE d \in 0 .. 15 : Hex(d) = c)

IsRead(read, out, base, n) ==
  read = [i \in 0 .. n |->
            IF i = 0 THEN 0
            ELSE IF out[i] \in {Blank, "-"} THEN read[i - 1]
            ELSE read[i - 1] * base + (CHOOSE d \in 0 .. 15 : Hex(d) = out[i])]

LEMMA ReadTo ==
  ASSUME NEW out, NEW base, NEW n \in Nat
  PROVE  \A k \in 0 .. n : \E r : IsRead(r, out, base, k)
<1> DEFINE S == {k \in 0 .. n : \E r : IsRead(r, out, base, k)}
<1>1. 0 \in S
  <2> DEFINE r == [i \in 0 .. 0 |-> 0]
  <2>1. IsRead(r, out, base, 0)
    BY DEF IsRead
  <2> QED BY <2>1
<1>2. ASSUME NEW k \in 0 .. n - 1, k \in S PROVE k + 1 \in S
  <2>1. PICK r : IsRead(r, out, base, k)
    BY <1>2
  <2> DEFINE t == [i \in 0 .. k + 1 |-> IF i = k + 1 THEN ReadChar(r[k], out[k + 1], base) ELSE r[i]]
  <2>2. ASSUME NEW i \in 0 .. k + 1
        PROVE  t[i] = IF i = 0 THEN 0
                      ELSE IF out[i] \in {Blank, "-"} THEN t[i - 1]
                      ELSE t[i - 1] * base + (CHOOSE d \in 0 .. 15 : Hex(d) = out[i])
    <3>1. CASE i = k + 1
      <4>1. i - 1 = k /\ k \in 0 .. k + 1 /\ k # k + 1 /\ i # 0
        BY <3>1
      <4>2. t[i] = ReadChar(r[k], out[i], base) /\ t[i - 1] = r[k]
        BY <3>1, <4>1
      <4> HIDE DEF t
      <4> QED BY <4>1, <4>2 DEF ReadChar
    <3>2. CASE i = 0
      <4>1. t[i] = r[i] /\ i \in 0 .. k
        BY <3>2
      <4> HIDE DEF t
      <4> QED BY <2>1, <3>2, <4>1 DEF IsRead
    <3>3. CASE i # k + 1 /\ i # 0
      <4>1. i \in 0 .. k /\ i - 1 \in 0 .. k + 1 /\ i - 1 # k + 1
        BY <3>3
      <4>2. t[i] = r[i] /\ t[i - 1] = r[i - 1]
        BY <3>3, <4>1
      <4> HIDE DEF t
      <4> QED BY <2>1, <3>3, <4>1, <4>2 DEF IsRead
    <3> QED BY <3>1, <3>2, <3>3
  <2>3. t = [i \in 0 .. k + 1 |-> t[i]]
    OBVIOUS
  <2> HIDE DEF t
  <2>4. IsRead(t, out, base, k + 1)
    BY <2>2, <2>3 DEF IsRead
  <2>5. k + 1 \in 0 .. n
    OBVIOUS
  <2> QED BY <2>4, <2>5
<1> HIDE DEF S
<1>3. \A k \in 0 .. n : k \in S
  BY <1>1, <1>2, UpTo
<1> QED BY <1>3 DEF S

LEMMA ReadingIs ==
  ASSUME NEW out, NEW base, Len(out) \in Nat
  PROVE  \E r : /\ Value(out, base) = r[Len(out)] /\ r[0] = 0
                /\ \A i \in 1 .. Len(out) : r[i] = ReadChar(r[i - 1], out[i], base)
<1> DEFINE n == Len(out)
           r == CHOOSE r : IsRead(r, out, base, n)
<1>1. IsRead(r, out, base, n)
  <2>1. \E t : IsRead(t, out, base, n)
    <3>1. n \in 0 .. n
      OBVIOUS
    <3> QED BY <3>1, ReadTo
  <2> QED BY <2>1
<1>2. Value(out, base) = r[n]
  BY DEF Value, IsRead
<1> HIDE DEF r
<1>3. r[0] = 0
  <2>1. 0 \in 0 .. n
    OBVIOUS
  <2> QED BY <1>1, <2>1 DEF IsRead
<1>4. \A i \in 1 .. n : r[i] = ReadChar(r[i - 1], out[i], base)
  <2> TAKE i \in 1 .. n
  <2>1. i \in 0 .. n /\ i # 0
    OBVIOUS
  <2> QED BY <1>1, <2>1 DEF IsRead, ReadChar
<1> QED BY <1>2, <1>3, <1>4

(* A numeral behind blanks, a sign and zeros reads back as its value.      *)
LEMMA NumeralReads ==
  ASSUME NEW base \in Bases, NEW v \in 0 .. Word - 1, NEW lead \in Nat, NEW out,
         Len(out) = lead + Places(v, base),
         \A i \in 1 .. lead : out[i] \in {Blank, "-", "0"},
         \A j \in 1 .. Places(v, base) : out[lead + j] = Numeral(v, base)[j]
  PROVE  Value(out, base) = v
<1> DEFINE n == Places(v, base)
           s == Numeral(v, base)
<1>1. /\ n \in Nat \ {0} /\ v \div base ^ n = 0 /\ v \div base ^ (n - n) = v
      /\ \A j \in 1 .. n : \E d \in 0 .. 15 :
              /\ s[j] = Hex(d)
              /\ v \div base ^ (n - j) = (v \div base ^ (n - (j - 1))) * base + d
  BY NumeralIs
<1> HIDE DEF n, s
<1>2. /\ Len(out) = lead + n /\ Len(out) \in Nat
      /\ \A j \in 1 .. n : out[lead + j] = s[j]
  BY <1>1 DEF n, s
<1>3. PICK r : /\ Value(out, base) = r[lead + n] /\ r[0] = 0
               /\ \A i \in 1 .. lead + n : r[i] = ReadChar(r[i - 1], out[i], base)
  <2>1. PICK r : /\ Value(out, base) = r[Len(out)] /\ r[0] = 0
                 /\ \A i \in 1 .. Len(out) : r[i] = ReadChar(r[i - 1], out[i], base)
    BY <1>2, ReadingIs, ZenonT(30)
  <2> QED BY <1>2, <2>1, Zenon
<1> DEFINE S == {i \in 0 .. lead : r[i] = 0}
<1>4. 0 \in S
  BY <1>3
<1>5. ASSUME NEW i \in 0 .. lead - 1, i \in S PROVE i + 1 \in S
  <2>1. i + 1 \in 1 .. lead /\ i + 1 \in 1 .. lead + n /\ i + 1 - 1 = i /\ i + 1 \in 0 .. lead
    BY <1>1
  <2>2. r[i + 1] = ReadChar(0, out[i + 1], base)
    BY <1>3, <1>5, <2>1
  <2>3. CASE out[i + 1] \in {Blank, "-"}
    BY <2>1, <2>2, <2>3 DEF ReadChar
  <2>4. CASE out[i + 1] = "0"
    <3>1. (CHOOSE d \in 0 .. 15 : Hex(d) = out[i + 1]) = 0
      <4>1. Hex(0) = out[i + 1] /\ 0 \in 0 .. 15
        BY <2>4, HexesAre
      <4> QED BY <4>1, DigitRead
    <3>2. out[i + 1] \notin {Blank, "-"}
      BY <2>4, Zenon DEF Blank
    <3>3. r[i + 1] = 0 * base + 0
      BY <2>2, <3>1, <3>2 DEF ReadChar
    <3>4. 0 * base + 0 = 0
      BY DEF Bases
    <3> QED BY <2>1, <3>3, <3>4
  <2> QED BY <2>1, <2>3, <2>4
<1> HIDE DEF S
<1>6. \A i \in 0 .. lead : i \in S
  BY <1>4, <1>5, UpTo
<1>7. r[lead] = 0
  BY <1>6 DEF S
<1> DEFINE T == {j \in 0 .. n : r[lead + j] = v \div base ^ (n - j)}
<1>8. 0 \in T
  <2>1. n - 0 = n /\ lead + 0 = lead /\ 0 \in 0 .. n
    BY <1>1
  <2> QED BY <1>1, <1>7, <2>1
<1>9. ASSUME NEW j \in 0 .. n - 1, j \in T PROVE j + 1 \in T
  <2> DEFINE i == lead + j + 1
  <2>1. /\ i \in 1 .. lead + n /\ i - 1 = lead + j /\ i = lead + (j + 1)
        /\ j + 1 \in 1 .. n /\ j + 1 \in 0 .. n /\ j + 1 - 1 = j
    BY <1>1
  <2> HIDE DEF i
  <2> DEFINE y == j + 1
  <2>2. y \in 1 .. n /\ y - 1 = j
    BY <1>1, <2>1
  <2> HIDE DEF y
  <2>3. PICK d \in 0 .. 15 :
              /\ s[y] = Hex(d)
              /\ v \div base ^ (n - y) = (v \div base ^ (n - (y - 1))) * base + d
    BY <1>1, <2>2, Zenon
  <2>4. /\ s[j + 1] = Hex(d)
        /\ v \div base ^ (n - (j + 1)) = (v \div base ^ (n - j)) * base + d
    BY <2>2, <2>3, Zenon DEF y
  <2>5. r[i] = ReadChar(r[lead + j], Hex(d), base)
    BY <1>2, <1>3, <2>1, <2>4
  <2>6. r[i] = r[lead + j] * base + d
    BY <2>5, DigitRead, HexesDiffer DEF ReadChar
  <2>7. r[lead + j] = v \div base ^ (n - j)
    BY <1>9
  <2>8. r[lead + (j + 1)] = v \div base ^ (n - (j + 1))
    BY <2>1, <2>4, <2>6, <2>7, Zenon
  <2> QED BY <2>1, <2>8
<1> HIDE DEF T
<1>10. \A j \in 0 .. n : j \in T
  BY <1>1, <1>8, <1>9, UpTo
<1>11. n \in 0 .. n
  BY <1>1
<1> QED BY <1>1, <1>3, <1>10, <1>11 DEF T

LEMMA TwoInAWord == Word >= 2 /\ Word \in Nat \ {0} /\ Word \div 2 \in 1 .. Word - 1
<1>1. Digits \in Nat \ {0} /\ 1 \in 0 .. 2 * Digits /\ Digits \in 0 .. 2 * Digits
      /\ 0 \in 0 .. 2 * Digits - 1 /\ 1 <= Digits
  BY FormatterAssumption
<1>2. 16 ^ 1 <= 16 ^ Digits
  BY <1>1, PowersRise DEF Bases
<1>3. 16 ^ (0 + 1) = 16 * 16 ^ 0 /\ 16 ^ 0 = 1 /\ 0 + 1 = 1
  BY <1>1, Radix DEF Bases
<1> DEFINE w == 16 ^ Digits
<1>4. w >= 16 /\ w = Word
  BY <1>2, <1>3 DEF Word
<1> HIDE DEF w
<1>5. Word >= 16 /\ Word \in Nat
  BY <1>4, WordFits DEF Bases
<1> QED BY <1>5

LEMMA RepeatIs ==
  ASSUME NEW c \in Printable, NEW n \in Int
  PROVE  /\ Repeat(c, n) \in Seq(Printable)
         /\ Len(Repeat(c, n)) = IF n > 0 THEN n ELSE 0
         /\ \A i \in 1 .. Len(Repeat(c, n)) : Repeat(c, n)[i] = c
         /\ n <= 0 => Repeat(c, n) = <<>>
<1> DEFINE k == IF n > 0 THEN n ELSE 0
           s == Repeat(c, n)
<1>1. k \in Nat
  OBVIOUS
<1>2. s = [i \in 1 .. k |-> c]
  BY DEF Repeat
<1> HIDE DEF s
<1>3. s \in Seq(Printable) /\ Len(s) = k
  <2> HIDE DEF k
  <2> QED BY <1>1, <1>2
<1>4. \A i \in 1 .. k : s[i] = c
  BY <1>2
<1>5. n <= 0 => s = <<>>
  <2> SUFFICES ASSUME n <= 0 PROVE s = <<>>
    OBVIOUS
  <2>1. Len(s) = 0
    BY <1>3
  <2> QED BY <1>3, <2>1, EmptySeq
<1> QED BY <1>3, <1>4, <1>5 DEF s

(* What is before the digits: blanks, a sign or zeros, and one sign for    *)
(* each negative number.                                                   *)
Sign(minus) == IF minus THEN <<"-">> ELSE <<>>
Signs(minus) == IF minus THEN 1 ELSE 0
Padded(pad) == IF pad > 0 THEN pad ELSE 0

Padding(minus, zero, pad) ==
  IF zero THEN Sign(minus) \o Repeat("0", pad) ELSE Repeat(Blank, pad) \o Sign(minus)

IsPadding(p, minus, pad) ==
  /\ p \in Seq(Printable)
  /\ Len(p) = Padded(pad) + Signs(minus)
  /\ \A i \in 1 .. Len(p) : p[i] \in {Blank, "-", "0"}
  /\ (\E i \in 1 .. Len(p) : p[i] = "-") <=> minus

LEMMA PaddingIs ==
  ASSUME NEW minus \in BOOLEAN, NEW zero \in BOOLEAN, NEW pad \in Int
  PROVE  IsPadding(Padding(minus, zero, pad), minus, pad)
<1> DEFINE s == Sign(minus)
           c == IF zero THEN "0" ELSE Blank
           r == Repeat(c, pad)
           k == Padded(pad)
           g == Signs(minus)
<1>1. c \in Printable /\ "-" \in Printable /\ c # "-" /\ c \in {Blank, "-", "0"}
  <2>1. "0" \in Printable
    BY HexesAre DEF Printable, HexChar
  <2>2. Blank \in Printable /\ "-" \in Printable
    BY DEF Printable, Letter
  <2>3. "0" # "-" /\ Blank # "-"
    BY Zenon DEF Blank
  <2> QED BY <2>1, <2>2, <2>3
<1> HIDE DEF c
<1>2. r \in Seq(Printable) /\ Len(r) = k /\ \A i \in 1 .. k : r[i] = c
  BY <1>1, RepeatIs DEF Padded
<1> HIDE DEF r
<1>3. s \in Seq(Printable) /\ Len(s) = g /\ \A i \in 1 .. g : s[i] = "-"
  BY <1>1 DEF Sign, Signs
<1> HIDE DEF s
<1>4. k \in Nat /\ g \in {0, 1} /\ (minus <=> g = 1)
  BY DEF Signs, Padded
<1> HIDE DEF k, g
<1>5. CASE zero
  <2> DEFINE p == s \o r
  <2>1. p \in Seq(Printable) /\ Len(p) = g + k
        /\ \A i \in 1 .. g + k : p[i] = IF i <= g THEN s[i] ELSE r[i - g]
    BY <1>2, <1>3, <1>4, ConcatProperties
  <2> HIDE DEF p
  <2>2. \A i \in 1 .. g + k : p[i] = IF i <= g THEN "-" ELSE c
    BY <1>2, <1>3, <1>4, <2>1
  <2>3. /\ \A i \in 1 .. g + k : p[i] \in {Blank, "-", "0"}
        /\ (\E i \in 1 .. g + k : p[i] = "-") <=> minus
    BY <1>1, <1>4, <2>2
  <2>4. p = Padding(minus, zero, pad)
    BY <1>5 DEF Padding, p, s, r, c
  <2>5. Len(p) = k + g
    BY <1>4, <2>1
  <2> QED BY <1>4, <2>1, <2>3, <2>4, <2>5 DEF k, g, IsPadding
<1>6. CASE ~zero
  <2> DEFINE p == r \o s
  <2>1. p \in Seq(Printable) /\ Len(p) = k + g
        /\ \A i \in 1 .. k + g : p[i] = IF i <= k THEN r[i] ELSE s[i - k]
    BY <1>2, <1>3, <1>4, ConcatProperties, ZenonT(30)
  <2> HIDE DEF p
  <2>2. \A i \in 1 .. k + g : p[i] = IF i <= k THEN c ELSE "-"
    BY <1>2, <1>3, <1>4, <2>1
  <2>3. /\ \A i \in 1 .. k + g : p[i] \in {Blank, "-", "0"}
        /\ (\E i \in 1 .. k + g : p[i] = "-") <=> minus
    BY <1>1, <1>4, <2>2
  <2>4. p = Padding(minus, zero, pad)
    BY <1>6 DEF Padding, p, s, r, c
  <2> QED BY <1>4, <2>1, <2>3, <2>4 DEF k, g, IsPadding
<1> QED BY <1>5, <1>6

(* What is printed for an integer reads back as it is.                     *)
Formatting == [zero : BOOLEAN, signed : BOOLEAN, base : Bases, before : Int, after : Int]

Prints(out, base, number, minus, width) ==
  LET least == Len(Numeral(number, base)) + Signs(minus)
  IN  /\ out \in Seq(Printable)
      /\ Value(out, base) = number
      /\ (\E i \in 1 .. Len(out) : out[i] = "-") <=> minus
      /\ Len(out) = IF width > least THEN width ELSE least

LEMMA IntegerPrinted ==
  ASSUME NEW v \in 0 .. Word - 1, NEW f \in Formatting
  PROVE  Prints(PrintInteger(v, f), f.base, Magnitude(v, f.signed), Negative(v, f.signed),
                f.before)
<1> DEFINE number == Magnitude(v, f.signed)
           minus == Negative(v, f.signed)
           base == f.base
           n == Places(number, base)
           s == Numeral(number, base)
           pad == f.before - n - Len(Sign(minus))
           p == Padding(minus, f.zero, pad)
           g == Signs(minus)
           out == PrintInteger(v, f)
<1>1. /\ number \in 0 .. Word - 1 /\ minus \in BOOLEAN /\ base \in Bases
      /\ f.zero \in BOOLEAN /\ f.before \in Int
  BY TwoInAWord DEF Magnitude, Negative, Formatting
<1>2. out = p \o s
  BY DEF PrintInteger, Sign, Padding
<1> HIDE DEF number, minus, base, out
<1>3. /\ n \in Nat \ {0} /\ s \in Seq(Printable) /\ Len(s) = n
      /\ \A j \in 1 .. n : \E d \in 0 .. 15 : s[j] = Hex(d)
  BY <1>1, NumeralIs
<1> HIDE DEF n, s
<1>4. Len(Sign(minus)) = g /\ g \in {0, 1}
  BY <1>1 DEF Sign, Signs
<1> HIDE DEF g
<1>5. pad \in Int /\ pad = f.before - n - g
  BY <1>1, <1>3, <1>4
<1> HIDE DEF pad
<1>6. /\ p \in Seq(Printable) /\ Len(p) = Padded(pad) + g
      /\ \A i \in 1 .. Len(p) : p[i] \in {Blank, "-", "0"}
      /\ (\E i \in 1 .. Len(p) : p[i] = "-") <=> minus
  <2>1. IsPadding(p, minus, pad)
    BY <1>1, <1>5, PaddingIs
  <2> HIDE DEF p
  <2> QED BY <2>1 DEF IsPadding, g
<1> HIDE DEF p
<1> DEFINE k == Len(p)
<1>7. k \in Nat /\ k = (IF pad > 0 THEN pad ELSE 0) + g
  BY <1>4, <1>5, <1>6 DEF Padded
<1>8. /\ out \in Seq(Printable) /\ Len(out) = k + n
      /\ \A i \in 1 .. k + n : out[i] = IF i <= k THEN p[i] ELSE s[i - k]
  BY <1>2, <1>3, <1>6, <1>7, ConcatProperties, ZenonT(30)
<1> HIDE DEF k
<1>9. \A i \in 1 .. k : out[i] = p[i] /\ p[i] \in {Blank, "-", "0"}
  BY <1>3, <1>6, <1>7, <1>8 DEF k
<1>10. \A j \in 1 .. n : out[k + j] = s[j]
  <2> TAKE j \in 1 .. n
  <2>1. k \in Nat /\ n \in Nat
    BY <1>3, <1>7
  <2> DEFINE i == k + j
  <2>2. i \in 1 .. k + n /\ ~(i <= k) /\ i - k = j
    BY <2>1
  <2> HIDE DEF i
  <2>3. out[i] = s[i - k]
    BY <1>8, <2>2
  <2> QED BY <2>2, <2>3 DEF i
<1>11. Value(out, base) = number
  <2>1. \A i \in 1 .. k : out[i] \in {Blank, "-", "0"}
    BY <1>9
  <2> QED BY <1>1, <1>7, <1>8, <1>10, <2>1, NumeralReads DEF n, s
<1>12. (\E i \in 1 .. Len(out) : out[i] = "-") <=> minus
  <2>1. ASSUME NEW i \in 1 .. k + n, out[i] = "-" PROVE minus
    <3>1. CASE i <= k
      <4>1. i \in 1 .. Len(p) /\ p[i] = "-"
        BY <1>7, <1>9, <2>1, <3>1 DEF k
      <4> QED BY <1>6, <4>1
    <3>2. CASE i > k
      <4>1. k \in Nat /\ n \in Nat
        BY <1>3, <1>7
      <4>2. i - k \in 1 .. n /\ out[i] = s[i - k]
        <5>1. i - k \in 1 .. n /\ ~(i <= k)
          BY <3>2, <4>1
        <5> QED BY <1>8, <5>1
      <4> QED BY <1>3, <2>1, <4>2, HexesDiffer
    <3> QED BY <1>7, <3>1, <3>2
  <2>2. ASSUME minus PROVE \E i \in 1 .. k + n : out[i] = "-"
    <3>1. PICK i \in 1 .. Len(p) : p[i] = "-"
      BY <1>6, <2>2
    <3>2. i \in 1 .. k /\ i \in 1 .. k + n
      BY <1>3, <1>7, <3>1 DEF k
    <3> QED BY <1>9, <3>1, <3>2
  <2> QED BY <1>8, <2>1, <2>2
<1>13. Len(out) = IF f.before > n + g THEN f.before ELSE n + g
  <2> DEFINE width == f.before
  <2>1. width \in Int
    BY <1>1
  <2>2. pad = width - n - g
    BY <1>5
  <2> HIDE DEF width
  <2>3. k + n = IF width > n + g THEN width ELSE n + g
    BY <1>3, <1>4, <1>7, <2>1, <2>2
  <2> QED BY <1>8, <2>3 DEF width
<1>14. Prints(out, base, number, minus, f.before)
  BY <1>3, <1>8, <1>11, <1>12, <1>13 DEF Prints, s, g
<1> QED BY <1>14 DEF number, minus, base, out

(* What the scanner of the debug log does with a format.                   *)
LogStart == [state |-> "chars", f |-> Fresh, out |-> <<>>, arg |-> 1]

IsScan(s, fmt, args, n) ==
  s = [i \in 0 .. n |->
         IF i = 0 THEN [state |-> "chars", f |-> Fresh, out |-> <<>>, arg |-> 1]
         ELSE LogChar(s[i - 1], fmt[i], args)]

LEMMA ScanTo ==
  ASSUME NEW fmt, NEW args, NEW n \in Nat
  PROVE  \A k \in 0 .. n : \E s : IsScan(s, fmt, args, k)
<1> DEFINE S == {k \in 0 .. n : \E s : IsScan(s, fmt, args, k)}
<1>1. 0 \in S
  <2> DEFINE s == [i \in 0 .. 0 |-> LogStart]
  <2>1. IsScan(s, fmt, args, 0)
    BY DEF IsScan, LogStart
  <2> QED BY <2>1
<1>2. ASSUME NEW k \in 0 .. n - 1, k \in S PROVE k + 1 \in S
  <2>1. PICK s : IsScan(s, fmt, args, k)
    BY <1>2
  <2> DEFINE t == [i \in 0 .. k + 1 |-> IF i = k + 1 THEN LogChar(s[k], fmt[k + 1], args) ELSE s[i]]
  <2>2. ASSUME NEW i \in 0 .. k + 1
        PROVE  t[i] = IF i = 0 THEN LogStart ELSE LogChar(t[i - 1], fmt[i], args)
    <3>1. CASE i = k + 1
      <4>1. i - 1 = k /\ k \in 0 .. k + 1 /\ k # k + 1 /\ i # 0
        BY <3>1
      <4>2. t[i] = LogChar(s[k], fmt[i], args) /\ t[i - 1] = s[k]
        BY <3>1, <4>1
      <4> HIDE DEF t
      <4> QED BY <4>1, <4>2
    <3>2. CASE i = 0
      <4>1. t[i] = s[i] /\ i \in 0 .. k
        BY <3>2
      <4> HIDE DEF t
      <4> QED BY <2>1, <3>2, <4>1 DEF IsScan, LogStart
    <3>3. CASE i # k + 1 /\ i # 0
      <4>1. i \in 0 .. k /\ i - 1 \in 0 .. k + 1 /\ i - 1 # k + 1
        BY <3>3
      <4>2. t[i] = s[i] /\ t[i - 1] = s[i - 1]
        BY <3>3, <4>1
      <4> HIDE DEF t
      <4> QED BY <2>1, <3>3, <4>1, <4>2 DEF IsScan
    <3> QED BY <3>1, <3>2, <3>3
  <2>3. t = [i \in 0 .. k + 1 |-> t[i]]
    OBVIOUS
  <2> HIDE DEF t
  <2>4. IsScan(t, fmt, args, k + 1)
    BY <2>2, <2>3 DEF IsScan, LogStart
  <2>5. k + 1 \in 0 .. n
    OBVIOUS
  <2> QED BY <2>4, <2>5
<1> HIDE DEF S
<1>3. \A k \in 0 .. n : k \in S
  BY <1>1, <1>2, UpTo
<1> QED BY <1>3 DEF S

LEMMA ScanIs ==
  ASSUME NEW fmt, NEW args, Len(fmt) \in Nat
  PROVE  \E s : /\ alt_log_private_printf(fmt, args) = s[Len(fmt)].out
                /\ s[0] = LogStart
                /\ \A i \in 1 .. Len(fmt) : s[i] = LogChar(s[i - 1], fmt[i], args)
<1> DEFINE n == Len(fmt)
           s == CHOOSE s : IsScan(s, fmt, args, n)
<1>1. IsScan(s, fmt, args, n)
  <2>1. \E t : IsScan(t, fmt, args, n)
    <3>1. n \in 0 .. n
      OBVIOUS
    <3> QED BY <3>1, ScanTo
  <2> QED BY <2>1
<1>2. alt_log_private_printf(fmt, args) = s[n].out
  BY DEF alt_log_private_printf, IsScan
<1> HIDE DEF s
<1>3. s[0] = LogStart
  <2>1. 0 \in 0 .. n
    OBVIOUS
  <2> QED BY <1>1, <2>1 DEF IsScan, LogStart
<1>4. \A i \in 1 .. n : s[i] = LogChar(s[i - 1], fmt[i], args)
  <2> TAKE i \in 1 .. n
  <2>1. i \in 0 .. n /\ i # 0
    OBVIOUS
  <2> QED BY <1>1, <2>1 DEF IsScan
<1> QED BY <1>2, <1>3, <1>4

(* The states between the percent sign and the letter.                     *)
FormatOf(zero, before) ==
  [zero |-> zero, signed |-> TRUE, base |-> 10, before |-> before, after |-> -1]
FirstScan == [state |-> "firstFmtChar", f |-> Fresh, out |-> <<>>, arg |-> 1]
OtherScan(zero, before) ==
  [state |-> "otherFmtChar", f |-> FormatOf(zero, before), out |-> <<>>, arg |-> 1]

LEMMA FormatIs ==
  ASSUME NEW zero, NEW before
  PROVE  /\ FormatOf(zero, before).after = -1 /\ FormatOf(zero, before).before = before
         /\ FormatOf(zero, before).zero = zero /\ FormatOf(zero, before).signed = TRUE
         /\ FormatOf(zero, before).base = 10
         /\ Fresh = FormatOf(FALSE, -1)
<1>1. /\ FormatOf(zero, before).after = -1 /\ FormatOf(zero, before).before = before
      /\ FormatOf(zero, before).zero = zero /\ FormatOf(zero, before).signed = TRUE
      /\ FormatOf(zero, before).base = 10
  BY DEF FormatOf
<1>2. Fresh = FormatOf(FALSE, -1)
  BY Zenon DEF FormatOf, Fresh
<1> QED BY <1>1, <1>2

LEMMA FormatBefore ==
  \A zero, before, x : [FormatOf(zero, before) EXCEPT !.before = x] = FormatOf(zero, x)
<1> TAKE zero, before, x
<1> DEFINE signed == TRUE
           base == 10
           after == -1
<1> HIDE DEF signed, base, after
<1>1. [[zero |-> zero, signed |-> signed, base |-> base, before |-> before, after |-> after]
         EXCEPT !.before = x]
        = [zero |-> zero, signed |-> signed, base |-> base, before |-> x, after |-> after]
  OBVIOUS
<1> QED BY <1>1, Zenon DEF FormatOf, signed, base, after

LEMMA FormatZero ==
  \A zero, before, x : [FormatOf(zero, before) EXCEPT !.zero = x] = FormatOf(x, before)
<1> TAKE zero, before, x
<1> DEFINE signed == TRUE
           base == 10
           after == -1
<1> HIDE DEF signed, base, after
<1>1. [[zero |-> zero, signed |-> signed, base |-> base, before |-> before, after |-> after]
         EXCEPT !.zero = x]
        = [zero |-> x, signed |-> signed, base |-> base, before |-> before, after |-> after]
  OBVIOUS
<1> QED BY <1>1, Zenon DEF FormatOf, signed, base, after

LEMMA OtherIs ==
  ASSUME NEW zero, NEW before
  PROVE  /\ OtherScan(zero, before).state = "otherFmtChar"
         /\ OtherScan(zero, before).f = FormatOf(zero, before)
         /\ OtherScan(zero, before).out = <<>> /\ OtherScan(zero, before).arg = 1
BY DEF OtherScan

LEMMA OtherBefore ==
  \A zero, before, x : [OtherScan(zero, before) EXCEPT !.f.before = x] = OtherScan(zero, x)
<1> TAKE zero, before, x
<1> DEFINE state == "otherFmtChar"
           out == <<>>
           arg == 1
           f == FormatOf(zero, before)
           g == FormatOf(zero, x)
           s == OtherScan(zero, before)
<1>1. s.f = f
  BY OtherIs
<1>2. [FormatOf(zero, before) EXCEPT !.before = x] = FormatOf(zero, x)
  BY FormatBefore, Zenon
<1> HIDE DEF state, out, arg
<1>3. s = [state |-> state, f |-> f, out |-> out, arg |-> arg]
  BY Zenon DEF OtherScan, state, out, arg
<1>4. OtherScan(zero, x) = [state |-> state, f |-> g, out |-> out, arg |-> arg]
  BY Zenon DEF OtherScan, state, out, arg
<1>5. [f EXCEPT !.before = x] = g
  BY <1>2
<1> HIDE DEF f, g, s
<1>6. [s EXCEPT !.f = g] = [state |-> state, f |-> g, out |-> out, arg |-> arg]
  <2>1. [[state |-> state, f |-> f, out |-> out, arg |-> arg] EXCEPT !.f = g]
          = [state |-> state, f |-> g, out |-> out, arg |-> arg]
    OBVIOUS
  <2> QED BY <1>3, <2>1, Zenon
<1>7. [s EXCEPT !.f.before = x] = [s EXCEPT !.f = [s.f EXCEPT !.before = x]]
  OBVIOUS
<1>8. [s EXCEPT !.f.before = x] = [s EXCEPT !.f = g]
  BY <1>1, <1>5, <1>7, Zenon
<1> QED BY <1>4, <1>6, <1>8, Zenon DEF s

LEMMA OtherZero ==
  \A zero, before, x : [OtherScan(zero, before) EXCEPT !.f.zero = x] = OtherScan(x, before)
<1> TAKE zero, before, x
<1> DEFINE state == "otherFmtChar"
           out == <<>>
           arg == 1
           f == FormatOf(zero, before)
           g == FormatOf(x, before)
           s == OtherScan(zero, before)
<1>1. s.f = f
  BY OtherIs
<1>2. [FormatOf(zero, before) EXCEPT !.zero = x] = FormatOf(x, before)
  BY FormatZero, Zenon
<1> HIDE DEF state, out, arg
<1>3. s = [state |-> state, f |-> f, out |-> out, arg |-> arg]
  BY Zenon DEF OtherScan, state, out, arg
<1>4. OtherScan(x, before) = [state |-> state, f |-> g, out |-> out, arg |-> arg]
  BY Zenon DEF OtherScan, state, out, arg
<1>5. [f EXCEPT !.zero = x] = g
  BY <1>2
<1> HIDE DEF f, g, s
<1>6. [s EXCEPT !.f = g] = [state |-> state, f |-> g, out |-> out, arg |-> arg]
  <2>1. [[state |-> state, f |-> f, out |-> out, arg |-> arg] EXCEPT !.f = g]
          = [state |-> state, f |-> g, out |-> out, arg |-> arg]
    OBVIOUS
  <2> QED BY <1>3, <2>1, Zenon
<1>7. [s EXCEPT !.f.zero = x] = [s EXCEPT !.f = [s.f EXCEPT !.zero = x]]
  OBVIOUS
<1>8. [s EXCEPT !.f.zero = x] = [s EXCEPT !.f = g]
  BY <1>1, <1>5, <1>7, Zenon
<1> QED BY <1>4, <1>6, <1>8, Zenon DEF s

LEMMA FirstOther ==
  /\ FirstScan.state = "firstFmtChar"
  /\ [FirstScan EXCEPT !.state = "otherFmtChar"] = OtherScan(FALSE, -1)
<1> DEFINE state == "otherFmtChar"
           first == "firstFmtChar"
           f == Fresh
           out == <<>>
           arg == 1
<1>1. FirstScan.state = "firstFmtChar"
  BY DEF FirstScan
<1> HIDE DEF state, first, f, out, arg
<1>2. [[state |-> first, f |-> f, out |-> out, arg |-> arg] EXCEPT !.state = state]
        = [state |-> state, f |-> f, out |-> out, arg |-> arg]
  OBVIOUS
<1>3. f = FormatOf(FALSE, -1)
  BY FormatIs DEF f
<1>4. [FirstScan EXCEPT !.state = "otherFmtChar"]
        = [state |-> "otherFmtChar", f |-> f, out |-> <<>>, arg |-> 1]
  BY <1>2, Zenon DEF FirstScan, first, f, out, arg, state
<1> QED BY <1>1, <1>3, <1>4, Zenon DEF OtherScan

LEMMA PercentRead == ASSUME NEW args PROVE LogChar(LogStart, "%", args) = FirstScan
<1> DEFINE f == Fresh
           chars == "chars"
           first == "firstFmtChar"
           out == <<>>
           arg == 1
           s == [state |-> chars, f |-> f, out |-> out, arg |-> arg]
           t == [state |-> first, f |-> f, out |-> out, arg |-> arg]
<1> HIDE DEF f, chars, first, out, arg
<1>1. [s EXCEPT !.state = first] = t
  OBVIOUS
<1>2. [t EXCEPT !.f = f] = t
  OBVIOUS
<1>3. s = LogStart /\ t = FirstScan
  BY Zenon DEF f, chars, first, out, arg, LogStart, FirstScan
<1> HIDE DEF s, t
<1>4. [s EXCEPT !.state = first, !.f = f] = [[s EXCEPT !.state = first] EXCEPT !.f = f]
  OBVIOUS
<1>5. [s EXCEPT !.state = first, !.f = f] = t
  BY <1>1, <1>2, <1>4, Zenon
<1>6. [LogStart EXCEPT !.state = "firstFmtChar", !.f = Fresh] = FirstScan
  BY <1>3, <1>5, Zenon DEF f, first
<1>7. LogStart.state = "chars"
  BY DEF LogStart
<1> QED BY <1>6, <1>7 DEF LogChar, Chars

LEMMA ZeroRead ==
  ASSUME NEW args
  PROVE  LogChar(FirstScan, "0", args) = OtherScan(TRUE, -1)
<1>1. /\ [FirstScan EXCEPT !.state = "otherFmtChar"] = OtherScan(FALSE, -1)
      /\ FirstScan.state = "firstFmtChar"
  BY FirstOther
<1>2. [OtherScan(FALSE, -1) EXCEPT !.f.zero = TRUE] = OtherScan(TRUE, -1)
  BY OtherZero, Zenon
<1> DEFINE t == OtherScan(FALSE, -1)
<1>3. FirstFmtChar(FirstScan, "0", args) = [t EXCEPT !.f.zero = TRUE]
  BY <1>1, Zenon DEF FirstFmtChar
<1>4. LogChar(FirstScan, "0", args) = FirstFmtChar(FirstScan, "0", args)
  BY <1>1 DEF LogChar
<1> QED BY <1>2, <1>3, <1>4, Zenon

LEMMA DigitAdded ==
  ASSUME NEW args, NEW zero \in BOOLEAN, NEW before \in Int, NEW d \in 0 .. 9
  PROVE  /\ OtherFmtChar(OtherScan(zero, before), Hex(d), args)
             = OtherScan(zero, (IF before < 0 THEN 0 ELSE 10 * before) + d)
         /\ LogChar(OtherScan(zero, before), Hex(d), args)
             = OtherScan(zero, (IF before < 0 THEN 0 ELSE 10 * before) + d)
<1> DEFINE c == Hex(d)
           s == OtherScan(zero, before)
           x == (IF before < 0 THEN 0 ELSE 10 * before) + d
<1>1. c \in Decimal /\ Number(c) = d /\ c # "." /\ c # "l"
  <2>1. d \in 0 .. 15
    OBVIOUS
  <2> QED BY <2>1, NumberIs, HexesDiffer
<1> HIDE DEF c
<1>2. s.state = "otherFmtChar" /\ s.f = FormatOf(zero, before) /\ s.f.after = -1 /\ s.f.before = before
  <2>1. s.state = "otherFmtChar" /\ s.f = FormatOf(zero, before)
    BY OtherIs
  <2>2. FormatOf(zero, before).after = -1 /\ FormatOf(zero, before).before = before
    <3> HIDE DEF s, x
    <3> QED BY DEF FormatOf
  <2> HIDE DEF s
  <2> QED BY <2>1, <2>2
<1>3. [s EXCEPT !.f.before = x] = OtherScan(zero, x)
  <2> HIDE DEF x
  <2> QED BY OtherBefore, Zenon
<1> HIDE DEF s
<1>4. LogChar(s, c, args) = OtherFmtChar(s, c, args)
  BY <1>2 DEF LogChar
<1>5. OtherFmtChar(s, c, args) = [s EXCEPT !.f.before = x]
  BY <1>1, <1>2 DEF OtherFmtChar
<1> HIDE DEF x
<1>6. OtherFmtChar(s, c, args) = OtherScan(zero, x) /\ LogChar(s, c, args) = OtherScan(zero, x)
  BY <1>3, <1>4, <1>5, Zenon
<1> QED BY <1>6 DEF c, s, x

LEMMA FirstDigitRead ==
  ASSUME NEW args, NEW d \in 1 .. 9
  PROVE  LogChar(FirstScan, Hex(d), args) = OtherScan(FALSE, d)
<1> DEFINE c == Hex(d)
<1>1. c # "0" /\ c # "%"
  <2>1. d \in 0 .. 15 /\ 0 \in 0 .. 15 /\ d # 0
    OBVIOUS
  <2> QED BY <2>1, HexesDiffer, HexesAre
<1>2. OtherFmtChar(OtherScan(FALSE, -1), c, args) = OtherScan(FALSE, d)
  <2>1. d \in 0 .. 9 /\ -1 \in Int /\ FALSE \in BOOLEAN
    OBVIOUS
  <2> DEFINE x == (IF -1 < 0 THEN 0 ELSE 10 * (-1)) + d
  <2>2. OtherFmtChar(OtherScan(FALSE, -1), c, args) = OtherScan(FALSE, x)
    BY <2>1, DigitAdded, Zenon
  <2>3. x = d
    BY <2>1
  <2> HIDE DEF x
  <2> QED BY <2>2, <2>3
<1> HIDE DEF c
<1>3. /\ FirstScan.state = "firstFmtChar"
      /\ [FirstScan EXCEPT !.state = "otherFmtChar"] = OtherScan(FALSE, -1)
  BY FirstOther
<1>4. LogChar(FirstScan, c, args) = OtherFmtChar(OtherScan(FALSE, -1), c, args)
  BY <1>1, <1>3 DEF LogChar, FirstFmtChar
<1> QED BY <1>2, <1>4 DEF c

LEMMA LetterRead ==
  ASSUME NEW args, NEW zero \in BOOLEAN, NEW before \in Int,
         NEW c \in {"d", "u", "o", "x"}
  PROVE  /\ OtherFmtChar(OtherScan(zero, before), c, args).out
             = <<>> \o Conversion(c, args[1], FormatOf(zero, before))
         /\ LogChar(OtherScan(zero, before), c, args).out
             = <<>> \o Conversion(c, args[1], FormatOf(zero, before))
<1> DEFINE s == OtherScan(zero, before)
<1>1. s.state = "otherFmtChar" /\ s.f = FormatOf(zero, before) /\ s.out = <<>> /\ s.arg = 1
      /\ s = [state |-> s.state, f |-> s.f, out |-> s.out, arg |-> s.arg]
  BY DEF OtherScan
<1> HIDE DEF s
<1>2. c \notin Decimal /\ c # "." /\ c # "l"
  BY LettersAre
<1>3. OtherFmtChar(s, c, args).out = s.out \o Conversion(c, args[s.arg], s.f)
  BY <1>1, <1>2 DEF OtherFmtChar
<1>4. LogChar(s, c, args) = OtherFmtChar(s, c, args)
  BY <1>1 DEF LogChar
<1> QED BY <1>1, <1>3, <1>4 DEF s

LEMMA LetterReadFirst ==
  ASSUME NEW args, NEW c \in {"d", "u", "o", "x"}
  PROVE  LogChar(FirstScan, c, args).out = <<>> \o Conversion(c, args[1], FormatOf(FALSE, -1))
<1>1. /\ FirstScan.state = "firstFmtChar"
      /\ [FirstScan EXCEPT !.state = "otherFmtChar"] = OtherScan(FALSE, -1)
  BY FirstOther
<1>2. LogChar(FirstScan, c, args) = OtherFmtChar(OtherScan(FALSE, -1), c, args)
  BY <1>1 DEF LogChar, FirstFmtChar
<1>3. FALSE \in BOOLEAN /\ -1 \in Int
  OBVIOUS
<1> QED BY <1>2, <1>3, LetterRead

(* A format of one conversion, read character by character.  What has been *)
(* read of the width after j digits is q[j].                               *)
Zeros(zero) == IF zero THEN <<"0">> ELSE <<>>
WidthDigits(width) == IF width > 0 THEN Numeral(width, 10) ELSE <<>>
OneInteger(letter, zero, width) == <<"%">> \o Zeros(zero) \o WidthDigits(width) \o <<letter>>
Before(width) == IF width > 0 THEN width ELSE -1

IsDigits(w, n, q, x) ==
  /\ n \in Nat \ {0} /\ w \in Seq(Printable) /\ Len(w) = n
  /\ q[n] = x
  /\ \E d \in 1 .. 9 : w[1] = Hex(d) /\ q[1] = d
  /\ \A j \in 1 .. n - 1 : \E d \in 0 .. 9 :
       q[j] \in Nat /\ w[j + 1] = Hex(d) /\ q[j + 1] = 10 * q[j] + d

LEMMA DigitsAre ==
  ASSUME NEW x \in 1 .. Word - 1
  PROVE  \E n, q : IsDigits(Numeral(x, 10), n, q, x)
<1> DEFINE n == Places(x, 10)
           w == Numeral(x, 10)
           q == [j \in 0 .. n |-> x \div 10 ^ (n - j)]
<1>1. 10 \in Bases /\ x \in 0 .. Word - 1 /\ x \in Nat /\ Digits \in Nat
  BY WordFits, FormatterAssumption DEF Bases
<1>2. /\ n \in Nat \ {0} /\ w \in Seq(Printable) /\ Len(w) = n
      /\ x \div 10 ^ n = 0 /\ x \div 10 ^ (n - n) = x
  BY <1>1, NumeralIs
<1>3. n \in 1 .. 2 * Digits /\ 10 ^ (n - 1) <= x
  BY <1>1, PlacesAre
<1>4. w = [j \in 1 .. n |-> Hex((x \div 10 ^ (n - j)) % 10)]
  BY DEF Numeral
<1>5. \A j \in 0 .. n : q[j] = x \div 10 ^ (n - j)
  OBVIOUS
<1> HIDE DEF n, w, q
<1>6. ASSUME NEW j \in 0 .. n - 1
      PROVE  \E d \in 0 .. 9 : q[j] \in Nat /\ w[j + 1] = Hex(d) /\ q[j + 1] = 10 * q[j] + d
  <2> DEFINE k == n - (j + 1)
             d == (x \div 10 ^ k) % 10
  <2>1. /\ k \in 0 .. 2 * Digits - 1 /\ k + 1 = n - j /\ j + 1 \in 1 .. n /\ j \in 0 .. n
        /\ j + 1 \in 0 .. n
    BY <1>1, <1>2, <1>3
  <2>2. q[j + 1] = x \div 10 ^ k /\ q[j] = x \div 10 ^ (k + 1)
    BY <1>5, <2>1
  <2>3. w[j + 1] = Hex(d)
    BY <1>4, <2>1
  <2> HIDE DEF k
  <2>4. /\ d \in 0 .. 10 - 1 /\ x \div 10 ^ k \in Nat
        /\ x \div 10 ^ k = (x \div 10 ^ (k + 1)) * 10 + d
    BY <1>1, <2>1, NextDigit, Zenon
  <2>5. q[j] \in Nat
    <3>1. CASE j = 0
      <4>1. q[j] = 0
        BY <1>2, <1>5, <2>1, <3>1
      <4> QED BY <4>1
    <3>2. CASE j # 0
      <4>1. k + 1 \in 0 .. 2 * Digits - 1
        BY <1>1, <1>2, <1>3, <2>1, <3>2
      <4> DEFINE i == k + 1
      <4>2. i \in 0 .. 2 * Digits - 1
        BY <4>1
      <4> HIDE DEF i
      <4>3. x \div 10 ^ i \in Nat
        BY <1>1, <4>2, NextDigit, Zenon
      <4> QED BY <2>2, <4>3 DEF i
    <3> QED BY <3>1, <3>2
  <2> HIDE DEF d
  <2>6. d \in 0 .. 9 /\ q[j + 1] = q[j] * 10 + d
    BY <2>2, <2>4
  <2>7. q[j + 1] = 10 * q[j] + d
    BY <2>5, <2>6
  <2> QED BY <2>3, <2>5, <2>6, <2>7
<1>7. \E d \in 1 .. 9 : w[1] = Hex(d) /\ q[1] = d
  <2>1. 0 \in 0 .. n - 1 /\ 0 + 1 = 1 /\ 0 \in 0 .. n /\ 1 \in 0 .. n /\ n - 0 = n
        /\ n - 1 \in 0 .. 2 * Digits
    BY <1>1, <1>2, <1>3
  <2>2. PICK d \in 0 .. 9 : w[1] = Hex(d) /\ q[1] = 10 * q[0] + d
    BY <1>6, <2>1
  <2>3. q[0] = 0
    BY <1>2, <1>5, <2>1
  <2>4. q[1] = d
    BY <2>2, <2>3
  <2> DEFINE p == 10 ^ (n - 1)
  <2>5. p \in Nat \ {0} /\ p <= x
    BY <1>1, <1>3, <2>1, Radix
  <2>6. q[1] = x \div p
    BY <1>5, <2>1
  <2> HIDE DEF p
  <2>7. x \div p >= 1
    BY <1>1, <2>5
  <2> QED BY <2>2, <2>4, <2>6, <2>7
<1>8. q[n] = x
  <2>1. n \in 0 .. n
    BY <1>2
  <2> QED BY <1>2, <1>5, <2>1
<1>9. \A j \in 1 .. n - 1 : \E d \in 0 .. 9 :
        q[j] \in Nat /\ w[j + 1] = Hex(d) /\ q[j + 1] = 10 * q[j] + d
  <2>1. \A j \in 1 .. n - 1 : j \in 0 .. n - 1
    OBVIOUS
  <2> QED BY <1>6, <2>1
<1>10. IsDigits(w, n, q, x)
  BY <1>2, <1>7, <1>8, <1>9 DEF IsDigits
<1> QED BY <1>10 DEF w

LEMMA WidthIs ==
  ASSUME NEW width \in 0 .. Word - 1
  PROVE  /\ WidthDigits(width) \in Seq(Printable) /\ Len(WidthDigits(width)) \in Nat
         /\ width = 0 => Len(WidthDigits(width)) = 0
         /\ width > 0 => \E q : IsDigits(WidthDigits(width), Len(WidthDigits(width)), q, width)
<1>1. CASE width = 0
  <2>1. WidthDigits(width) = <<>>
    BY <1>1 DEF WidthDigits
  <2>2. ~(width > 0)
    BY <1>1
  <2> HIDE DEF WidthDigits
  <2>3. WidthDigits(width) \in Seq(Printable) /\ Len(WidthDigits(width)) = 0
    BY <2>1
  <2> QED BY <2>2, <2>3
<1>2. CASE width # 0
  <2> DEFINE w == WidthDigits(width)
  <2>1. width \in 1 .. Word - 1 /\ w = Numeral(width, 10)
    BY <1>2, WordFits DEF WidthDigits, Bases
  <2>2. PICK n, q : IsDigits(Numeral(width, 10), n, q, width)
    BY <2>1, DigitsAre
  <2> HIDE DEF w
  <2>3. w \in Seq(Printable) /\ Len(w) \in Nat /\ IsDigits(w, Len(w), q, width)
    BY <2>1, <2>2 DEF IsDigits
  <2> QED BY <1>2, <2>3 DEF w
<1> QED BY <1>1, <1>2

IsOneInteger(fmt, letter, zero, w, k, l) ==
  /\ k \in 0 .. 1 /\ l \in Nat /\ Len(fmt) = 2 + k + l
  /\ fmt[1] = "%" /\ (zero => fmt[2] = "0")
  /\ \A i \in 1 .. l : fmt[1 + k + i] = w[i]
  /\ fmt[2 + k + l] = letter

LEMMA OneIntegerIs ==
  ASSUME NEW letter \in Letter, NEW zero \in BOOLEAN, NEW width \in 0 .. Word - 1
  PROVE  LET fmt == OneInteger(letter, zero, width)
             k == IF zero THEN 1 ELSE 0
             l == Len(WidthDigits(width))
         IN  IsOneInteger(fmt, letter, zero, WidthDigits(width), k, l)
<1> DEFINE fmt == OneInteger(letter, zero, width)
           p == <<"%">>
           z == Zeros(zero)
           w == WidthDigits(width)
           e == <<letter>>
           a == p \o z
           b == a \o w
           k == IF zero THEN 1 ELSE 0
           l == Len(w)
<1>1. p \in Seq(Printable) /\ Len(p) = 1 /\ p[1] = "%"
  <2>1. "%" \in Printable
    BY DEF Printable, Letter
  <2> QED BY <2>1
<1>2. e \in Seq(Printable) /\ Len(e) = 1 /\ e[1] = letter
  <2>1. letter \in Printable
    BY DEF Printable
  <2> QED BY <2>1
<1>3. z \in Seq(Printable) /\ Len(z) = k /\ (zero => z[1] = "0")
  <2>1. "0" \in Printable
    BY HexesAre DEF Printable, HexChar
  <2> QED BY <2>1 DEF Zeros
<1>4. w \in Seq(Printable) /\ l \in Nat
  BY WidthIs
<1>5. k \in 0 .. 1 /\ (zero => k = 1)
  OBVIOUS
<1>6. fmt = b \o e
  BY DEF OneInteger
<1> HIDE DEF p, z, w, e, k, fmt
<1>7. /\ a \in Seq(Printable) /\ Len(a) = 1 + k
      /\ \A i \in 1 .. 1 + k : a[i] = IF i <= 1 THEN p[i] ELSE z[i - 1]
  BY <1>1, <1>3, <1>5, ConcatProperties
<1> HIDE DEF a
<1>8. /\ b \in Seq(Printable) /\ Len(b) = 1 + k + l
      /\ \A i \in 1 .. 1 + k + l : b[i] = IF i <= 1 + k THEN a[i] ELSE w[i - (1 + k)]
  BY <1>4, <1>5, <1>7, ConcatProperties
<1> HIDE DEF b
<1>9. /\ fmt \in Seq(Printable) /\ Len(fmt) = 2 + k + l
      /\ \A i \in 1 .. 2 + k + l : fmt[i] = IF i <= 1 + k + l THEN b[i] ELSE e[i - (1 + k + l)]
  <2>1. 1 + k + l + 1 = 2 + k + l
    BY <1>4, <1>5
  <2>2. /\ b \o e \in Seq(Printable) /\ Len(b \o e) = Len(b) + Len(e)
        /\ \A i \in 1 .. Len(b) + Len(e) : (b \o e)[i] = IF i <= Len(b) THEN b[i] ELSE e[i - Len(b)]
    BY <1>2, <1>8, ConcatProperties, Zenon
  <2>3. Len(b) + Len(e) = 2 + k + l
    BY <1>2, <1>8, <2>1
  <2> QED BY <1>6, <1>8, <2>2, <2>3, Zenon
<1> HIDE DEF l
<1>10. fmt[1] = "%"
  BY <1>1, <1>4, <1>5, <1>7, <1>8, <1>9
<1>11. zero => fmt[2] = "0"
  <2> SUFFICES ASSUME zero PROVE fmt[2] = "0"
    OBVIOUS
  <2>1. k = 1 /\ 2 \in 1 .. 1 + k /\ 2 \in 1 .. 1 + k + l /\ 2 \in 1 .. 2 + k + l /\ 2 - 1 = 1
    BY <1>4, <1>5
  <2> QED BY <1>3, <1>4, <1>7, <1>8, <1>9, <2>1
<1>12. \A i \in 1 .. l : fmt[1 + k + i] = w[i]
  <2> TAKE i \in 1 .. l
  <2> DEFINE j == 1 + k + i
  <2>1. /\ j \in 1 .. 1 + k + l /\ j \in 1 .. 2 + k + l /\ j <= 1 + k + l /\ ~(j <= 1 + k)
        /\ j - (1 + k) = i
    BY <1>4, <1>5
  <2> HIDE DEF j
  <2>2. fmt[j] = w[i]
    BY <1>8, <1>9, <2>1
  <2> QED BY <2>2 DEF j
<1>13. fmt[2 + k + l] = letter
  <2> DEFINE j == 2 + k + l
  <2>1. j \in 1 .. 2 + k + l /\ ~(j <= 1 + k + l) /\ j - (1 + k + l) = 1
    BY <1>4, <1>5
  <2> HIDE DEF j
  <2>2. fmt[j] = letter
    BY <1>2, <1>9, <2>1
  <2> QED BY <2>2 DEF j
<1>14. IsOneInteger(fmt, letter, zero, w, k, l)
  BY <1>4, <1>5, <1>9, <1>10, <1>11, <1>12, <1>13 DEF IsOneInteger
<1> QED BY <1>14, Zenon DEF fmt, k, l, w

LEMMA OneIntegerScanned ==
  ASSUME NEW letter \in {"d", "u", "o", "x"}, NEW zero \in BOOLEAN,
         NEW width \in 0 .. Word - 1, NEW args
  PROVE  alt_log_private_printf(OneInteger(letter, zero, width), args)
           = <<>> \o Conversion(letter, args[1], FormatOf(zero, Before(width)))
<1> DEFINE fmt == OneInteger(letter, zero, width)
           w == WidthDigits(width)
           k == IF zero THEN 1 ELSE 0
           l == Len(w)
<1>1. /\ k \in 0 .. 1 /\ l \in Nat /\ Len(fmt) = 2 + k + l
      /\ fmt[1] = "%" /\ (zero => fmt[2] = "0")
      /\ \A i \in 1 .. l : fmt[1 + k + i] = w[i]
      /\ fmt[2 + k + l] = letter
  <2>1. letter \in Letter
    BY DEF Letter
  <2>2. IsOneInteger(fmt, letter, zero, w, k, l)
    BY <2>1, OneIntegerIs, Zenon
  <2> HIDE DEF fmt, w, k, l
  <2> QED BY <2>2 DEF IsOneInteger
<1>2. /\ width = 0 => l = 0
      /\ width > 0 => \E q : IsDigits(w, l, q, width)
  BY WidthIs
<1>3. zero => k = 1
  OBVIOUS
<1>4. ~zero => k = 0
  OBVIOUS
<1> HIDE DEF fmt, w, k, l
<1>5. PICK s : /\ alt_log_private_printf(fmt, args) = s[2 + k + l].out
               /\ s[0] = LogStart
               /\ \A i \in 1 .. 2 + k + l : s[i] = LogChar(s[i - 1], fmt[i], args)
  <2>1. Len(fmt) \in Nat
    BY <1>1
  <2>2. PICK s : /\ alt_log_private_printf(fmt, args) = s[Len(fmt)].out
                 /\ s[0] = LogStart
                 /\ \A i \in 1 .. Len(fmt) : s[i] = LogChar(s[i - 1], fmt[i], args)
    BY <2>1, ScanIs, Zenon
  <2> QED BY <1>1, <2>2, Zenon
<1>6. \A i \in 0 .. 1 + k + l : s[i + 1] = LogChar(s[i], fmt[i + 1], args)
  <2> TAKE i \in 0 .. 1 + k + l
  <2> DEFINE j == i + 1
  <2>1. j \in 1 .. 2 + k + l /\ j - 1 = i
    BY <1>1
  <2> HIDE DEF j
  <2>2. s[j] = LogChar(s[i], fmt[j], args)
    BY <1>5, <2>1
  <2> QED BY <2>2 DEF j
<1>7. s[1] = FirstScan
  <2>1. 0 \in 0 .. 1 + k + l /\ 0 + 1 = 1
    BY <1>1
  <2>2. s[1] = LogChar(LogStart, "%", args)
    BY <1>1, <1>5, <1>6, <2>1
  <2> QED BY <2>2, PercentRead
<1>8. s[1 + k] = IF zero THEN OtherScan(TRUE, -1) ELSE FirstScan
  <2>1. CASE zero
    <3>1. 1 \in 0 .. 1 + k + l /\ 1 + 1 = 2 /\ 1 + k = 2
      BY <1>1, <1>3, <2>1
    <3>2. s[2] = LogChar(FirstScan, "0", args)
      BY <1>1, <1>6, <1>7, <2>1, <3>1
    <3>3. s[2] = OtherScan(TRUE, -1)
      BY <3>2, ZeroRead
    <3> QED BY <2>1, <3>1, <3>3
  <2>2. CASE ~zero
    <3>1. 1 + k = 1
      BY <1>4, <2>2
    <3> QED BY <1>7, <2>2, <3>1
  <2> QED BY <2>1, <2>2
<1>9. ASSUME width > 0 PROVE s[1 + k + l] = OtherScan(zero, width)
  <2>1. PICK q : IsDigits(w, l, q, width)
    BY <1>2, <1>9
  <2>2. /\ l \in Nat \ {0} /\ q[l] = width
        /\ \E d \in 1 .. 9 : w[1] = Hex(d) /\ q[1] = d
        /\ \A j \in 1 .. l - 1 : \E d \in 0 .. 9 :
             q[j] \in Nat /\ w[j + 1] = Hex(d) /\ q[j + 1] = 10 * q[j] + d
    BY <2>1 DEF IsDigits
  <2>3. s[2 + k] = OtherScan(zero, q[1])
    <3>1. PICK d \in 1 .. 9 : w[1] = Hex(d) /\ q[1] = d
      BY <2>2
    <3>2. 1 + k \in 0 .. 1 + k + l /\ 1 + k + 1 = 2 + k /\ 1 \in 1 .. l
      BY <1>1, <2>2
    <3>3. s[2 + k] = LogChar(s[1 + k], Hex(d), args)
      BY <1>1, <1>6, <3>1, <3>2
    <3>4. CASE zero
      <4>1. s[2 + k] = LogChar(OtherScan(TRUE, -1), Hex(d), args)
        BY <1>8, <3>3, <3>4
      <4>2. d \in 0 .. 9 /\ -1 \in Int /\ TRUE \in BOOLEAN
        OBVIOUS
      <4> DEFINE x == (IF -1 < 0 THEN 0 ELSE 10 * (-1)) + d
      <4>3. LogChar(OtherScan(TRUE, -1), Hex(d), args) = OtherScan(TRUE, x)
        BY <4>2, DigitAdded, Zenon
      <4>4. x = d
        BY <4>2
      <4> HIDE DEF x
      <4> QED BY <3>1, <3>4, <4>1, <4>3, <4>4
    <3>5. CASE ~zero
      <4>1. s[2 + k] = LogChar(FirstScan, Hex(d), args)
        BY <1>8, <3>3, <3>5
      <4> QED BY <3>1, <3>5, <4>1, FirstDigitRead
    <3> QED BY <3>4, <3>5
  <2> DEFINE S == {j \in 0 .. l - 1 : s[2 + k + j] = OtherScan(zero, q[j + 1])}
  <2>4. 0 \in S
    <3>1. 0 \in 0 .. l - 1 /\ 2 + k + 0 = 2 + k /\ 0 + 1 = 1
      BY <1>1, <2>2
    <3> QED BY <2>3, <3>1
  <2>5. ASSUME NEW j \in 0 .. l - 1 - 1, j \in S PROVE j + 1 \in S
    <3> DEFINE y == j + 1
               a == 2 + k + j
               before == q[y]
    <3>1. /\ y \in 1 .. l - 1 /\ y \in 0 .. l - 1 /\ a \in 0 .. 1 + k + l
          /\ a + 1 = 2 + k + y /\ a + 1 = 1 + k + (y + 1) /\ y + 1 \in 1 .. l
      BY <1>1, <2>2
    <3>2. s[a] = OtherScan(zero, before)
      BY <2>5
    <3> HIDE DEF y, a
    <3>3. PICK d \in 0 .. 9 : before \in Nat /\ w[y + 1] = Hex(d) /\ q[y + 1] = 10 * before + d
      BY <2>2, <3>1
    <3>4. s[a + 1] = LogChar(OtherScan(zero, before), Hex(d), args)
      BY <1>1, <1>6, <3>1, <3>2, <3>3
    <3> HIDE DEF before
    <3> DEFINE x == (IF before < 0 THEN 0 ELSE 10 * before) + d
    <3>5. before \in Int /\ x = 10 * before + d
      BY <3>3
    <3>6. LogChar(OtherScan(zero, before), Hex(d), args) = OtherScan(zero, x)
      BY <3>5, DigitAdded, Zenon
    <3> HIDE DEF x
    <3>7. s[2 + k + y] = OtherScan(zero, q[y + 1])
      BY <3>1, <3>3, <3>4, <3>5, <3>6
    <3> QED BY <3>1, <3>7 DEF y
  <2> HIDE DEF S
  <2>6. \A j \in 0 .. l - 1 : j \in S
    <3>1. l - 1 \in Nat
      BY <2>2
    <3> QED BY <2>4, <2>5, <3>1, UpTo
  <2>7. l - 1 \in 0 .. l - 1 /\ 2 + k + (l - 1) = 1 + k + l /\ l - 1 + 1 = l
    BY <1>1, <2>2
  <2>8. s[2 + k + (l - 1)] = OtherScan(zero, q[l - 1 + 1])
    BY <2>6, <2>7 DEF S
  <2> QED BY <2>2, <2>7, <2>8
<1>10. s[2 + k + l].out = <<>> \o Conversion(letter, args[1], FormatOf(zero, Before(width)))
  <2>1. 1 + k + l \in 0 .. 1 + k + l /\ 1 + k + l + 1 = 2 + k + l
    BY <1>1
  <2>2. s[2 + k + l] = LogChar(s[1 + k + l], letter, args)
    BY <1>1, <1>6, <2>1
  <2>3. CASE width = 0
    <3>1. Before(width) = -1 /\ 1 + k + l = 1 + k
      BY <1>1, <1>2, <2>3 DEF Before
    <3>2. CASE zero
      <4>1. s[2 + k + l] = LogChar(OtherScan(TRUE, -1), letter, args)
        BY <1>8, <2>2, <3>1, <3>2
      <4>2. TRUE \in BOOLEAN /\ -1 \in Int
        OBVIOUS
      <4>3. LogChar(OtherScan(TRUE, -1), letter, args).out
              = <<>> \o Conversion(letter, args[1], FormatOf(TRUE, -1))
        BY <4>2, LetterRead, Zenon
      <4> QED BY <3>1, <3>2, <4>1, <4>3
    <3>3. CASE ~zero
      <4>1. s[2 + k + l] = LogChar(FirstScan, letter, args)
        BY <1>8, <2>2, <3>1, <3>3
      <4>2. LogChar(FirstScan, letter, args).out
              = <<>> \o Conversion(letter, args[1], FormatOf(FALSE, -1))
        BY LetterReadFirst, Zenon
      <4> QED BY <3>1, <3>3, <4>1, <4>2
    <3> QED BY <3>2, <3>3
  <2>4. CASE width # 0
    <3>1. width > 0 /\ width \in Int /\ Before(width) = width
      BY <2>4, WordFits DEF Before, Bases
    <3>2. s[2 + k + l] = LogChar(OtherScan(zero, width), letter, args)
      BY <1>9, <2>2, <3>1
    <3>3. LogChar(OtherScan(zero, width), letter, args).out
            = <<>> \o Conversion(letter, args[1], FormatOf(zero, width))
      BY <3>1, LetterRead, Zenon
    <3> QED BY <3>1, <3>2, <3>3
  <2> QED BY <2>3, <2>4
<1> QED BY <1>5, <1>10 DEF fmt

LEMMA LetterConverts ==
  ASSUME NEW letter \in {"d", "u", "o", "x"}, NEW f \in Formatting, f.base = 10, f.signed, NEW v
  PROVE  \E g \in Formatting :
           /\ Conversion(letter, v, f) = PrintInteger(v, g)
           /\ g.base = CASE letter = "o" -> 8 [] letter = "x" -> 16 [] OTHER -> 10
           /\ g.signed <=> letter = "d"
           /\ g.before = f.before
<1>1. CASE letter = "d"
  <2>1. Conversion(letter, v, f) = PrintInteger(v, f)
    BY <1>1 DEF Conversion
  <2> QED BY <1>1, <2>1
<1>2. CASE letter = "u"
  <2> DEFINE g == [f EXCEPT !.signed = FALSE]
  <2>1. g \in Formatting /\ g.base = f.base /\ g.before = f.before /\ g.signed = FALSE
    BY DEF Formatting
  <2>2. Conversion(letter, v, f) = PrintInteger(v, g)
    BY <1>2 DEF Conversion
  <2> HIDE DEF g
  <2> QED BY <1>2, <2>1, <2>2
<1>3. CASE letter = "o"
  <2> DEFINE e == [f EXCEPT !.signed = FALSE]
             g == [f EXCEPT !.signed = FALSE, !.base = 8]
  <2>1. e \in Formatting /\ e.before = f.before /\ e.signed = FALSE
    BY DEF Formatting
  <2>2. g = [e EXCEPT !.base = 8]
    OBVIOUS
  <2>3. Conversion(letter, v, f) = PrintInteger(v, g)
    BY <1>3 DEF Conversion
  <2> HIDE DEF e, g
  <2>4. g \in Formatting /\ g.base = 8 /\ g.before = e.before /\ g.signed = e.signed
    BY <2>1, <2>2 DEF Formatting, Bases
  <2> QED BY <1>3, <2>1, <2>3, <2>4
<1>4. CASE letter = "x"
  <2> DEFINE e == [f EXCEPT !.signed = FALSE]
             g == [f EXCEPT !.signed = FALSE, !.base = 16]
  <2>1. e \in Formatting /\ e.before = f.before /\ e.signed = FALSE
    BY DEF Formatting
  <2>2. g = [e EXCEPT !.base = 16]
    OBVIOUS
  <2>3. Conversion(letter, v, f) = PrintInteger(v, g)
    BY <1>4 DEF Conversion
  <2> HIDE DEF e, g
  <2>4. g \in Formatting /\ g.base = 16 /\ g.before = e.before /\ g.signed = e.signed
    BY <2>1, <2>2 DEF Formatting, Bases
  <2> QED BY <1>4, <2>1, <2>3, <2>4
<1> QED BY <1>1, <1>2, <1>3, <1>4

(* What the log prints for an integer reads back as it is, is negative     *)
(* when it should be, and as wide as it should be (alt_log_printf.c:       *)
(* 127-297), for every word, conversion and width.                         *)
THEOREM EveryIntegerReadsBack ==
  ASSUME NEW v \in 0 .. Word - 1, NEW letter \in {"d", "u", "o", "x"}, NEW zero \in BOOLEAN,
         NEW width \in 0 .. Word \div 2 - 1
  PROVE  IntegerReadsBack(v, letter, zero, width)
<1> DEFINE fmt == OneInteger(letter, zero, width)
           args == <<v>>
           out == alt_log_private_printf(fmt, args)
           base == CASE letter = "o" -> 8 [] letter = "x" -> 16 [] OTHER -> 10
           minus == letter = "d" /\ v >= Word \div 2
           number == IF minus THEN Word - v ELSE v
           f == FormatOf(zero, Before(width))
           n == Len(Numeral(number, base))
<1>1. f \in Formatting /\ f.base = 10 /\ f.signed /\ f.before = Before(width)
  <2>1. Before(width) \in Int
    BY DEF Before
  <2> QED BY <2>1 DEF FormatOf, Formatting, Bases
<1>2. args[1] = v
  OBVIOUS
<1> HIDE DEF f, args
<1>3. PICK g \in Formatting :
           /\ Conversion(letter, v, f) = PrintInteger(v, g)
           /\ g.base = base
           /\ g.signed <=> letter = "d"
           /\ g.before = f.before
  BY <1>1, LetterConverts
<1> DEFINE printed == PrintInteger(v, g)
<1>4. out = <<>> \o printed
  <2>1. width \in 0 .. Word - 1
    BY TwoInAWord
  <2> QED BY <1>2, <1>3, <2>1, OneIntegerScanned DEF f
<1>5. Magnitude(v, g.signed) = number /\ (Negative(v, g.signed) <=> minus)
  BY <1>3 DEF Magnitude, Negative
<1>6. Prints(printed, g.base, Magnitude(v, g.signed), Negative(v, g.signed), g.before)
  BY IntegerPrinted
<1> HIDE DEF out, printed
<1>7. /\ printed \in Seq(Printable)
      /\ Value(printed, base) = number
      /\ (\E i \in 1 .. Len(printed) : printed[i] = "-") <=> minus
      /\ Len(printed) = IF Before(width) > n + Signs(Negative(v, g.signed)) THEN Before(width)
                     ELSE n + Signs(Negative(v, g.signed))
  BY <1>1, <1>3, <1>5, <1>6 DEF Prints
<1>8. Signs(Negative(v, g.signed)) = IF minus THEN 1 ELSE 0
  BY <1>5 DEF Signs
<1>9. out = printed
  BY <1>4, <1>7, ConcatEmptySeq
<1>10. n \in Nat \ {0}
  <2>1. number \in 0 .. Word - 1 /\ base \in Bases
    BY TwoInAWord DEF Bases
  <2> HIDE DEF number, base
  <2> QED BY <2>1, NumeralIs
<1> HIDE DEF base, n
<1>11. Len(out) = IF width > n + (IF minus THEN 1 ELSE 0) THEN width
                  ELSE n + (IF minus THEN 1 ELSE 0)
  <2> DEFINE g1 == IF minus THEN 1 ELSE 0
             b == Before(width)
  <2>1. g1 \in {0, 1}
    OBVIOUS
  <2>2. b = IF width > 0 THEN width ELSE -1
    BY DEF Before
  <2> HIDE DEF g1, b
  <2>3. Len(printed) = IF b > n + g1 THEN b ELSE n + g1
    BY <1>7, <1>8 DEF g1, b
  <2>4. Len(printed) = IF width > n + g1 THEN width ELSE n + g1
    BY <1>10, <2>1, <2>2, <2>3
  <2> QED BY <1>9, <2>4 DEF g1
<1>12. /\ Value(out, base) = number
       /\ (\E i \in 1 .. Len(out) : out[i] = "-") <=> minus
  BY <1>7, <1>9
<1> QED BY <1>11, <1>12, Zenon
    DEF IntegerReadsBack, out, base, n, args, OneInteger, Zeros, WidthDigits

(* The digits that alt_printf looks for are those that the log counts.     *)
LEMMA FirstDigit ==
  ASSUME NEW v \in 1 .. Word - 1
  PROVE  LET n == Places(v, 16) IN
         /\ n - 1 \in 0 .. Digits - 1
         /\ Digit(v, n - 1) # 0
         /\ \A j \in n .. Digits - 1 : Digit(v, j) = 0
<1> DEFINE n == Places(v, 16)
<1>1. Digits \in Nat \ {0} /\ Word \in Nat /\ v \in 0 .. Word - 1 /\ v \in Nat \ {0} /\ 16 \in Bases
  BY FormatterAssumption, WordFits DEF Bases
<1>2. n \in 1 .. 2 * Digits /\ 16 ^ n > v /\ 16 ^ (n - 1) <= v
  BY <1>1, PlacesAre
<1> HIDE DEF n
<1>3. n <= Digits
  <2> SUFFICES ASSUME n > Digits PROVE FALSE
    BY <1>1, <1>2
  <2>1. Digits \in 0 .. 2 * Digits /\ n - 1 \in 0 .. 2 * Digits /\ Digits <= n - 1
    BY <1>1, <1>2
  <2>2. 16 ^ Digits <= 16 ^ (n - 1)
    BY <1>1, <2>1, PowersRise
  <2>3. 16 ^ (n - 1) \in Nat /\ 16 ^ Digits = Word
    BY <1>1, <2>1, Radix DEF Word
  <2> QED BY <1>1, <1>2, <2>2, <2>3
<1>4. Digit(v, n - 1) # 0
  <2> DEFINE p == 16 ^ (n - 1)
             q == v \div p
  <2>1. n - 1 \in 0 .. 2 * Digits - 1 /\ n - 1 \in 0 .. 2 * Digits /\ n - 1 + 1 = n
    BY <1>1, <1>2
  <2>2. p \in Nat \ {0} /\ 16 ^ n = 16 * p
    <3>1. p \in Nat \ {0} /\ 16 ^ (n - 1 + 1) = 16 * p
      BY <1>1, <2>1, Radix
    <3> QED BY <2>1, <3>1
  <2>3. v < 16 * p /\ p <= v
    BY <1>2, <2>2
  <2> HIDE DEF p
  <2>4. q \in 1 .. 15
    BY <1>1, <2>2, <2>3
  <2> HIDE DEF q
  <2>5. q % 16 = q
    BY <2>4
  <2> QED BY <2>4, <2>5 DEF Digit, q, p
<1>5. ASSUME NEW j \in n .. Digits - 1 PROVE Digit(v, j) = 0
  <2> DEFINE p == 16 ^ j
             t == 16 ^ n
  <2>1. j \in 0 .. 2 * Digits /\ n \in 0 .. 2 * Digits /\ n <= j
    BY <1>1, <1>2
  <2>2. p \in Nat \ {0} /\ t \in Nat /\ t <= p /\ v < t
    BY <1>1, <1>2, <2>1, PowersRise, Radix
  <2> HIDE DEF p, t
  <2>3. v < p
    BY <1>1, <2>2
  <2>4. v \in Int /\ v = p * 0 + v /\ v \in 0 .. p - 1
    BY <1>1, <2>2, <2>3
  <2>5. v \div p = 0
    BY <2>2, <2>4, DivisionUnique
  <2>6. 0 % 16 = 0
    OBVIOUS
  <2> QED BY <2>5, <2>6 DEF Digit, p
<1>6. n - 1 \in 0 .. Digits - 1
  BY <1>1, <1>2, <1>3
<1> QED BY <1>4, <1>5, <1>6 DEF n

LEMMA HexIs == ASSUME NEW v \in 0 .. Word - 1 PROVE PrintHex(v) = Numeral(v, 16)
<1> DEFINE n == Places(v, 16)
<1>1. Digits \in Nat \ {0} /\ Word \in Nat /\ 16 \in Bases
  BY FormatterAssumption, WordFits DEF Bases
<1>2. Numeral(v, 16) = [i \in 1 .. n |-> Hex(Digit(v, n - i))]
  BY DEF Numeral, Digit
<1>3. CASE v = 0
  <2>1. n = 1
    BY <1>1, <1>3, PlacesAre
  <2> HIDE DEF n
  <2>2. \A i \in 1 .. 1 : Hex(Digit(v, n - i)) = "0"
    <3> TAKE i \in 1 .. 1
    <3>1. n - i = 0 /\ 16 ^ 0 = 1
      BY <1>1, <2>1, Radix
    <3>2. Digit(v, n - i) = 0
      BY <1>3, <3>1 DEF Digit
    <3> QED BY <3>2, HexesAre
  <2>3. Numeral(v, 16) = [i \in 1 .. 1 |-> "0"]
    BY <1>2, <2>1, <2>2
  <2>4. [i \in 1 .. 1 |-> "0"] = <<"0">>
    OBVIOUS
  <2> QED BY <1>3, <2>3, <2>4 DEF PrintHex
<1>4. CASE v # 0
  <2> DEFINE Leads(k) == Digit(v, k) # 0 /\ \A j \in k + 1 .. Digits - 1 : Digit(v, j) = 0
             first == CHOOSE k \in 0 .. Digits - 1 : Leads(k)
  <2>1. v \in 1 .. Word - 1
    BY <1>1, <1>4
  <2>2. /\ n - 1 \in 0 .. Digits - 1 /\ Digit(v, n - 1) # 0
        /\ \A j \in n .. Digits - 1 : Digit(v, j) = 0
    BY <2>1, FirstDigit
  <2>3. n \in Int
    BY <1>1, PlacesAre
  <2> HIDE DEF n
  <2>4. n - 1 + 1 = n
    BY <2>3
  <2>5. Leads(n - 1)
    BY <2>2, <2>4
  <2>6. first \in 0 .. Digits - 1 /\ Leads(first)
    <3>1. \E k \in 0 .. Digits - 1 : Leads(k)
      BY <2>2, <2>5
    <3> HIDE DEF Leads
    <3> QED BY <3>1
  <2>7. PrintHex(v) = [i \in 1 .. first + 1 |-> Hex(Digit(v, first + 1 - i))]
    <3>1. PrintHex(v) = HexDigits(v, Digits - 1)
      BY <1>4 DEF PrintHex
    <3>2. HexDigits(v, Digits - 1) = [i \in 1 .. first + 1 |-> Hex(Digit(v, first + 1 - i))]
      BY DEF HexDigits
    <3> QED BY <3>1, <3>2, Zenon
  <2> HIDE DEF first
  <2>8. first = n - 1
    <3>1. ~(first < n - 1)
      <4> SUFFICES ASSUME first < n - 1 PROVE FALSE
        OBVIOUS
      <4>1. n - 1 \in first + 1 .. Digits - 1
        BY <1>1, <2>2, <2>3, <2>6
      <4> QED BY <2>2, <2>6, <4>1
    <3>2. ~(first > n - 1)
      <4> SUFFICES ASSUME first > n - 1 PROVE FALSE
        OBVIOUS
      <4>1. first \in n .. Digits - 1
        BY <1>1, <2>2, <2>3, <2>6
      <4> QED BY <2>2, <2>6, <4>1
    <3> QED BY <2>3, <2>6, <3>1, <3>2
  <2>9. first + 1 = n /\ \A i \in 1 .. n : first + 1 - i = n - i
    BY <2>3, <2>8
  <2>10. [i \in 1 .. first + 1 |-> Hex(Digit(v, first + 1 - i))]
           = [i \in 1 .. n |-> Hex(Digit(v, n - i))]
    BY <2>9
  <2> QED BY <1>2, <2>7, <2>10
<1> QED BY <1>3, <1>4

LEMMA PiecesAgree ==
  ASSUME NEW c \in {"c", "x", "s"}, NEW v \in 0 .. Word - 1
  PROVE  /\ Conversion(c, v, Fresh) = Piece(c, v) /\ Piece(c, v) \in Seq(Printable)
         /\ Consumes(c) = 1 /\ Takes(c) = 1
<1>1. Consumes(c) = 1 /\ Takes(c) = 1
  BY DEF Consumes, Takes
<1>2. Fresh.before = -1 /\ Fresh.zero = FALSE
  BY DEF Fresh
<1>3. Blank \in Printable
  BY DEF Printable, Letter
<1>4. CASE c = "c"
  <2>1. Char[v] \in Printable
    BY FormatterAssumption DEF Printable
  <2>2. Fresh.before - 1 \in Int /\ Fresh.before - 1 <= 0
    BY <1>2
  <2>3. Repeat(Blank, Fresh.before - 1) = <<>>
    BY <1>3, <2>2, RepeatIs
  <2>4. Conversion(c, v, Fresh) = Append(Repeat(Blank, Fresh.before - 1), Char[v])
    BY <1>4 DEF Conversion
  <2>5. Piece(c, v) = <<Char[v]>>
    BY <1>4 DEF Piece
  <2>6. Append(<<>>, Char[v]) = <<Char[v]>> /\ <<Char[v]>> \in Seq(Printable)
    BY <2>1
  <2> QED BY <1>1, <2>3, <2>4, <2>5, <2>6
<1>5. CASE c = "s"
  <2>1. Text[v] \in Seq(STRING)
    BY FormatterAssumption
  <2>2. Text[v] \in Seq(Printable) /\ Len(Text[v]) \in Nat
    BY <2>1 DEF Printable
  <2>3. Fresh.before - Len(Text[v]) \in Int /\ Fresh.before - Len(Text[v]) <= 0
    BY <1>2, <2>2
  <2>4. Repeat(Blank, Fresh.before - Len(Text[v])) = <<>>
    BY <1>3, <2>3, RepeatIs
  <2>5. Conversion(c, v, Fresh) = Repeat(Blank, Fresh.before - Len(Text[v])) \o Text[v]
    BY <1>5 DEF Conversion
  <2>6. Piece(c, v) = Text[v]
    BY <1>5 DEF Piece
  <2> QED BY <1>1, <2>2, <2>4, <2>5, <2>6, ConcatEmptySeq
<1>6. CASE c = "x"
  <2> DEFINE e == [Fresh EXCEPT !.signed = FALSE]
             g == [Fresh EXCEPT !.signed = FALSE, !.base = 16]
             s == Numeral(v, 16)
             n == Places(v, 16)
  <2>1. Fresh \in Formatting
    BY DEF Fresh, Formatting, Bases
  <2>2. g = [e EXCEPT !.base = 16]
    OBVIOUS
  <2>3. Conversion(c, v, Fresh) = PrintInteger(v, g)
    BY <1>6 DEF Conversion
  <2>4. e \in Formatting /\ e.before = -1 /\ e.signed = FALSE /\ e.zero = FALSE
    BY <1>2, <2>1 DEF Formatting
  <2> HIDE DEF e, g
  <2>5. /\ g \in Formatting /\ g.base = 16 /\ g.before = -1 /\ g.signed = FALSE
        /\ g.zero = FALSE
    BY <2>2, <2>4 DEF Formatting, Bases
  <2>6. n \in Nat /\ s \in Seq(Printable)
    BY NumeralIs DEF Bases
  <2>7. Magnitude(v, FALSE) = v /\ Negative(v, FALSE) = FALSE
    BY DEF Magnitude, Negative
  <2> DEFINE pad == -1 - n - Len(<<>>)
  <2>8. PrintInteger(v, g) = Repeat(Blank, pad) \o <<>> \o s
    BY <2>5, <2>7 DEF PrintInteger
  <2>9. pad \in Int /\ pad <= 0
    BY <2>6
  <2> HIDE DEF pad, s
  <2>10. Repeat(Blank, pad) = <<>>
    BY <1>3, <2>9, RepeatIs
  <2>11. <<>> \o <<>> \o s = s
    BY <2>6, ConcatEmptySeq
  <2>12. Piece(c, v) = s
    BY <1>6, HexIs DEF Piece, s
  <2> QED BY <1>1, <2>3, <2>6, <2>8, <2>10, <2>11, <2>12
<1> QED BY <1>4, <1>5, <1>6

(* What alt_printf does with a format.                                     *)
PrintStart == [escape |-> FALSE, out |-> <<>>, arg |-> 1]

IsPrint(s, fmt, args, n) ==
  s = [i \in 0 .. n |-> IF i = 0 THEN [escape |-> FALSE, out |-> <<>>, arg |-> 1]
                        ELSE FmtChar(s[i - 1], fmt[i], args)]

LEMMA PrintTo ==
  ASSUME NEW fmt, NEW args, NEW n \in Nat
  PROVE  \A k \in 0 .. n : \E s : IsPrint(s, fmt, args, k)
<1> DEFINE S == {k \in 0 .. n : \E s : IsPrint(s, fmt, args, k)}
<1>1. 0 \in S
  <2> DEFINE s == [i \in 0 .. 0 |-> PrintStart]
  <2>1. IsPrint(s, fmt, args, 0)
    BY DEF IsPrint, PrintStart
  <2> QED BY <2>1
<1>2. ASSUME NEW k \in 0 .. n - 1, k \in S PROVE k + 1 \in S
  <2>1. PICK s : IsPrint(s, fmt, args, k)
    BY <1>2
  <2> DEFINE t == [i \in 0 .. k + 1 |-> IF i = k + 1 THEN FmtChar(s[k], fmt[k + 1], args) ELSE s[i]]
  <2>2. ASSUME NEW i \in 0 .. k + 1
        PROVE  t[i] = IF i = 0 THEN PrintStart ELSE FmtChar(t[i - 1], fmt[i], args)
    <3>1. CASE i = k + 1
      <4>1. i - 1 = k /\ k \in 0 .. k + 1 /\ k # k + 1 /\ i # 0
        BY <3>1
      <4>2. t[i] = FmtChar(s[k], fmt[i], args) /\ t[i - 1] = s[k]
        BY <3>1, <4>1
      <4> HIDE DEF t
      <4> QED BY <4>1, <4>2
    <3>2. CASE i = 0
      <4>1. t[i] = s[i] /\ i \in 0 .. k
        BY <3>2
      <4> HIDE DEF t
      <4> QED BY <2>1, <3>2, <4>1 DEF IsPrint, PrintStart
    <3>3. CASE i # k + 1 /\ i # 0
      <4>1. i \in 0 .. k /\ i - 1 \in 0 .. k + 1 /\ i - 1 # k + 1
        BY <3>3
      <4>2. t[i] = s[i] /\ t[i - 1] = s[i - 1]
        BY <3>3, <4>1
      <4> HIDE DEF t
      <4> QED BY <2>1, <3>3, <4>1, <4>2 DEF IsPrint
    <3> QED BY <3>1, <3>2, <3>3
  <2>3. t = [i \in 0 .. k + 1 |-> t[i]]
    OBVIOUS
  <2> HIDE DEF t
  <2>4. IsPrint(t, fmt, args, k + 1)
    BY <2>2, <2>3 DEF IsPrint, PrintStart
  <2>5. k + 1 \in 0 .. n
    OBVIOUS
  <2> QED BY <2>4, <2>5
<1> HIDE DEF S
<1>3. \A k \in 0 .. n : k \in S
  BY <1>1, <1>2, UpTo
<1> QED BY <1>3 DEF S

LEMMA PrintIs ==
  ASSUME NEW fmt, NEW args, Len(fmt) \in Nat
  PROVE  \E s : /\ alt_printf(fmt, args) = s[Len(fmt)].out
                /\ s[0] = PrintStart
                /\ \A i \in 1 .. Len(fmt) : s[i] = FmtChar(s[i - 1], fmt[i], args)
<1> DEFINE n == Len(fmt)
           s == CHOOSE s : IsPrint(s, fmt, args, n)
<1>1. IsPrint(s, fmt, args, n)
  <2>1. n \in 0 .. n
    OBVIOUS
  <2>2. \E t : IsPrint(t, fmt, args, n)
    BY <2>1, PrintTo
  <2> QED BY <2>2
<1>2. alt_printf(fmt, args) = s[n].out
  BY DEF alt_printf, IsPrint
<1> HIDE DEF s
<1>3. s[0] = PrintStart
  <2>1. 0 \in 0 .. n
    OBVIOUS
  <2> QED BY <1>1, <2>1 DEF IsPrint, PrintStart
<1>4. \A i \in 1 .. n : s[i] = FmtChar(s[i - 1], fmt[i], args)
  <2> TAKE i \in 1 .. n
  <2>1. i \in 0 .. n /\ i # 0
    OBVIOUS
  <2> QED BY <1>1, <2>1 DEF IsPrint
<1> QED BY <1>2, <1>3, <1>4

(* Which characters follow a percent sign that is not itself escaped.      *)

IsEscape(s, fmt, n) ==
  s = [i \in 0 .. n |-> IF i = 0 THEN FALSE
                        ELSE (fmt[i] = "%" /\ ~s[i - 1])]

LEMMA EscapeTo ==
  ASSUME NEW fmt, NEW n \in Nat
  PROVE  \A k \in 0 .. n : \E s : IsEscape(s, fmt, k)
<1> DEFINE S == {k \in 0 .. n : \E s : IsEscape(s, fmt, k)}
<1>1. 0 \in S
  <2> DEFINE s == [i \in 0 .. 0 |-> FALSE]
  <2>1. IsEscape(s, fmt, 0)
    BY DEF IsEscape
  <2> QED BY <2>1
<1>2. ASSUME NEW k \in 0 .. n - 1, k \in S PROVE k + 1 \in S
  <2>1. PICK s : IsEscape(s, fmt, k)
    BY <1>2
  <2> DEFINE t == [i \in 0 .. k + 1 |-> IF i = k + 1 THEN (fmt[k + 1] = "%" /\ ~s[k]) ELSE s[i]]
  <2>2. ASSUME NEW i \in 0 .. k + 1
        PROVE  t[i] = IF i = 0 THEN FALSE ELSE (fmt[i] = "%" /\ ~t[i - 1])
    <3>1. CASE i = k + 1
      <4>1. i - 1 = k /\ k \in 0 .. k + 1 /\ k # k + 1 /\ i # 0
        BY <3>1
      <4>2. t[i] = (fmt[i] = "%" /\ ~s[k]) /\ t[i - 1] = s[k]
        BY <3>1, <4>1
      <4> HIDE DEF t
      <4> QED BY <4>1, <4>2
    <3>2. CASE i = 0
      <4>1. t[i] = s[i] /\ i \in 0 .. k
        BY <3>2
      <4> HIDE DEF t
      <4> QED BY <2>1, <3>2, <4>1 DEF IsEscape
    <3>3. CASE i # k + 1 /\ i # 0
      <4>1. i \in 0 .. k /\ i - 1 \in 0 .. k + 1 /\ i - 1 # k + 1
        BY <3>3
      <4>2. t[i] = s[i] /\ t[i - 1] = s[i - 1]
        BY <3>3, <4>1
      <4> HIDE DEF t
      <4> QED BY <2>1, <3>3, <4>1, <4>2 DEF IsEscape
    <3> QED BY <3>1, <3>2, <3>3
  <2>3. t = [i \in 0 .. k + 1 |-> t[i]]
    OBVIOUS
  <2> HIDE DEF t
  <2>4. IsEscape(t, fmt, k + 1)
    BY <2>2, <2>3 DEF IsEscape
  <2>5. k + 1 \in 0 .. n
    OBVIOUS
  <2> QED BY <2>4, <2>5
<1> HIDE DEF S
<1>3. \A k \in 0 .. n : k \in S
  BY <1>1, <1>2, UpTo
<1> QED BY <1>3 DEF S

LEMMA EscapeIs ==
  ASSUME NEW fmt, Len(fmt) \in Nat
  PROVE  \E s : /\ Common(fmt) <=>
                     \A i \in 1 .. Len(fmt) : s[i - 1] => fmt[i] \in {"%", "c", "x", "s"}
                /\ s[0] = FALSE
                /\ \A i \in 1 .. Len(fmt) : s[i] = (fmt[i] = "%" /\ ~s[i - 1])
<1> DEFINE n == Len(fmt)
           s == CHOOSE s : IsEscape(s, fmt, n)
<1>1. IsEscape(s, fmt, n)
  <2>1. n \in 0 .. n
    OBVIOUS
  <2>2. \E t : IsEscape(t, fmt, n)
    BY <2>1, EscapeTo
  <2> QED BY <2>2
<1>2. Common(fmt) <=> \A i \in 1 .. n : s[i - 1] => fmt[i] \in {"%", "c", "x", "s"}
  BY DEF Common, IsEscape
<1> HIDE DEF s
<1>3. s[0] = FALSE
  <2>1. 0 \in 0 .. n
    OBVIOUS
  <2> QED BY <1>1, <2>1 DEF IsEscape
<1>4. \A i \in 1 .. n : s[i] = (fmt[i] = "%" /\ ~s[i - 1])
  <2> TAKE i \in 1 .. n
  <2>1. i \in 0 .. n /\ i # 0
    OBVIOUS
  <2> QED BY <1>1, <2>1 DEF IsEscape
<1> QED BY <1>2, <1>3, <1>4

(* The two go through the same characters, arguments and output.           *)
PrintState == [escape : BOOLEAN, out : Seq(Printable), arg : Nat]
ScanState == [state : {"chars", "firstFmtChar", "otherFmtChar"}, f : Formatting,
              out : Seq(Printable), arg : Nat]

Alike(p, s, i) ==
  /\ p \in PrintState /\ s \in ScanState
  /\ p.out = s.out /\ p.arg = s.arg /\ p.arg >= 1
  /\ p.escape => s.state = "firstFmtChar" /\ s.f = Fresh /\ 2 * p.arg <= i + 1
  /\ ~p.escape => s.state = "chars" /\ 2 * p.arg <= i + 2

LEMMA FreshIs == Fresh \in Formatting
BY DEF Fresh, Formatting, Bases

LEMMA StartAlike == Alike(PrintStart, LogStart, 0) /\ PrintStart.escape = FALSE
<1>1. PrintStart \in PrintState /\ LogStart \in ScanState
  <2>1. <<>> \in Seq(Printable)
    OBVIOUS
  <2> QED BY <2>1, FreshIs DEF PrintStart, PrintState, LogStart, ScanState
<1>2. /\ PrintStart.out = LogStart.out /\ PrintStart.arg = LogStart.arg /\ PrintStart.arg = 1
      /\ PrintStart.escape = FALSE /\ LogStart.state = "chars"
  BY DEF PrintStart, LogStart
<1> QED BY <1>1, <1>2 DEF Alike

LEMMA CharAlike ==
  ASSUME NEW p, NEW s, NEW i \in Nat, NEW c \in Printable, NEW args,
         Alike(p, s, i), ~p.escape
  PROVE  LET q == FmtChar(p, c, args) IN
         /\ Alike(q, LogChar(s, c, args), i + 1)
         /\ q.escape = (c = "%" /\ ~p.escape)
<1> DEFINE q == FmtChar(p, c, args)
           r == LogChar(s, c, args)
<1>1. /\ p \in PrintState /\ s \in ScanState /\ p.out = s.out /\ p.arg = s.arg /\ p.arg >= 1
      /\ p.escape = FALSE /\ s.state = "chars" /\ 2 * p.arg <= i + 2
  BY DEF Alike, PrintState
<1>2. r = Chars(s, c)
  BY <1>1 DEF LogChar
<1>3. CASE c = "%"
  <2> DEFINE t == [s EXCEPT !.state = "firstFmtChar"]
  <2>1. q = [p EXCEPT !.escape = TRUE] /\ r = [s EXCEPT !.state = "firstFmtChar", !.f = Fresh]
    BY <1>1, <1>2, <1>3 DEF FmtChar, Chars
  <2>2. q \in PrintState /\ q.escape = TRUE /\ q.out = p.out /\ q.arg = p.arg
    BY <1>1, <2>1 DEF PrintState
  <2>3. t \in ScanState /\ t.state = "firstFmtChar" /\ t.out = s.out /\ t.arg = s.arg
    BY <1>1 DEF ScanState
  <2>4. r = [t EXCEPT !.f = Fresh]
    BY <2>1
  <2> HIDE DEF t, q, r
  <2>5. /\ r \in ScanState /\ r.state = t.state /\ r.f = Fresh /\ r.out = t.out
        /\ r.arg = t.arg
    BY <2>3, <2>4, FreshIs DEF ScanState
  <2>6. 2 * q.arg <= i + 1 + 1
    BY <1>1, <2>2 DEF PrintState
  <2>7. Alike(q, r, i + 1)
    BY <1>1, <2>2, <2>3, <2>5, <2>6 DEF Alike
  <2> QED BY <1>1, <1>3, <2>2, <2>7 DEF q, r
<1>4. CASE c # "%"
  <2>1. q = [p EXCEPT !.out = Append(p.out, c)] /\ r = [s EXCEPT !.out = Append(s.out, c)]
    BY <1>1, <1>2, <1>4 DEF FmtChar, Chars
  <2> DEFINE out == Append(p.out, c)
  <2>2. out \in Seq(Printable) /\ Append(s.out, c) = out
    BY <1>1, AppendProperties DEF PrintState
  <2> HIDE DEF out, q, r
  <2>3. q = [p EXCEPT !.out = out] /\ r = [s EXCEPT !.out = out]
    BY <2>1, <2>2, Zenon DEF out
  <2>4. q \in PrintState /\ q.escape = p.escape /\ q.out = out /\ q.arg = p.arg
    BY <1>1, <2>2, <2>3 DEF PrintState
  <2>5. r \in ScanState /\ r.state = s.state /\ r.out = out /\ r.arg = s.arg
    BY <1>1, <2>2, <2>3 DEF ScanState
  <2>6. 2 * q.arg <= i + 1 + 2
    BY <1>1, <2>4 DEF PrintState
  <2>7. Alike(q, r, i + 1)
    BY <1>1, <2>4, <2>5, <2>6 DEF Alike
  <2> QED BY <1>1, <1>4, <2>4, <2>7 DEF q, r
<1> QED BY <1>3, <1>4

LEMMA EscapedAlike ==
  ASSUME NEW p, NEW s, NEW i \in Nat, NEW c \in {"%", "c", "x", "s"}, NEW args,
         Alike(p, s, i), p.escape,
         \A a \in 1 .. (i + 1) \div 2 : args[a] \in 0 .. Word - 1
  PROVE  LET q == FmtChar(p, c, args) IN
         /\ Alike(q, LogChar(s, c, args), i + 1)
         /\ q.escape = (c = "%" /\ ~p.escape)
<1> DEFINE q == FmtChar(p, c, args)
           r == LogChar(s, c, args)
           v == args[p.arg]
           x == p.out \o Piece(c, v)
           y == p.arg + Takes(c)
<1>1. /\ p \in PrintState /\ s \in ScanState /\ p.out = s.out /\ p.arg = s.arg /\ p.arg >= 1
      /\ p.escape = TRUE /\ s.state = "firstFmtChar" /\ s.f = Fresh /\ 2 * p.arg <= i + 1
      /\ p.out \in Seq(Printable) /\ p.arg \in Nat
  BY DEF Alike, PrintState
<1>2. v \in 0 .. Word - 1
  <2> DEFINE a == p.arg
  <2>1. a \in Nat /\ a >= 1 /\ 2 * a <= i + 1
    BY <1>1
  <2> HIDE DEF a
  <2>2. a \in 1 .. (i + 1) \div 2
    BY <2>1
  <2> QED BY <2>2 DEF a
<1>3. q = [escape |-> FALSE, out |-> x, arg |-> y]
  BY <1>1 DEF FmtChar
<1>4. r = FirstFmtChar(s, c, args)
  BY <1>1 DEF LogChar
<1> HIDE DEF q, r, v
<1>5. /\ x \in Seq(Printable) /\ y \in {p.arg, p.arg + 1}
      /\ r = [s EXCEPT !.state = "chars", !.out = x, !.arg = y]
  <2>1. CASE c = "%"
    <3>1. "%" \in Printable
      BY DEF Printable, Letter
    <3>2. Piece(c, v) = <<"%">> /\ Takes(c) = 0
      BY <2>1 DEF Piece, Takes
    <3>3. x = Append(p.out, "%") /\ x \in Seq(Printable)
      BY <1>1, <3>1, <3>2, AppendProperties, AppendIsConcat
    <3>4. y = p.arg
      BY <1>1, <3>2
    <3>5. r = [s EXCEPT !.state = "chars", !.out = Append(@, c)]
      BY <1>4, <2>1 DEF FirstFmtChar
    <3> QED BY <1>1, <2>1, <3>3, <3>4, <3>5
  <2>2. CASE c \in {"c", "x", "s"}
    <3> DEFINE t == [s EXCEPT !.state = "otherFmtChar"]
    <3>1. r = OtherFmtChar(t, c, args)
      <4>1. c # "0" /\ c # "%"
        BY <2>2
      <4> QED BY <1>4, <4>1 DEF FirstFmtChar
    <3>2. t \in ScanState /\ t.f = Fresh /\ t.out = p.out /\ t.arg = p.arg
      BY <1>1 DEF ScanState
    <3> HIDE DEF t
    <3>3. r = [t EXCEPT !.state = "chars",
                        !.out = t.out \o Conversion(c, args[t.arg], t.f),
                        !.arg = t.arg + Consumes(c)]
      <4>1. c \notin Decimal /\ c # "." /\ c # "l"
        BY <2>2, LettersAre
      <4> QED BY <3>1, <4>1 DEF OtherFmtChar
    <3>4. /\ Conversion(c, v, Fresh) = Piece(c, v) /\ Piece(c, v) \in Seq(Printable)
          /\ Consumes(c) = 1 /\ Takes(c) = 1
      BY <1>2, <2>2, PiecesAgree
    <3>5. x \in Seq(Printable)
      BY <1>1, <3>4, ConcatProperties
    <3>6. t.out \o Conversion(c, args[t.arg], t.f) = x /\ t.arg + Consumes(c) = y
      BY <3>2, <3>4 DEF v
    <3> HIDE DEF x, y
    <3>7. r = [t EXCEPT !.state = "chars", !.out = x, !.arg = y]
      BY <3>3, <3>6, Zenon
    <3>8. [t EXCEPT !.state = "chars", !.out = x, !.arg = y]
            = [s EXCEPT !.state = "chars", !.out = x, !.arg = y]
      BY <1>1 DEF t, ScanState
    <3> QED BY <3>4, <3>5, <3>7, <3>8 DEF y
  <2> QED BY <2>1, <2>2
<1> HIDE DEF x, y
<1>6. q \in PrintState /\ q.escape = FALSE /\ q.out = x /\ q.arg = y
  BY <1>1, <1>3, <1>5 DEF PrintState
<1>7. r \in ScanState /\ r.state = "chars" /\ r.out = x /\ r.arg = y
  <2> DEFINE t == [s EXCEPT !.state = "chars"]
             u == [t EXCEPT !.out = x]
  <2>1. y \in Nat
    BY <1>1, <1>5
  <2>2. t \in ScanState /\ t.state = "chars"
    BY <1>1 DEF ScanState
  <2>3. r = [u EXCEPT !.arg = y]
    BY <1>5
  <2> HIDE DEF t
  <2>4. u \in ScanState /\ u.state = "chars" /\ u.out = x
    BY <1>5, <2>2 DEF ScanState
  <2> HIDE DEF u
  <2> QED BY <2>1, <2>3, <2>4 DEF ScanState
<1>8. y >= 1 /\ 2 * y <= i + 1 + 2
  BY <1>1, <1>5
<1>9. Alike(q, r, i + 1)
  BY <1>6, <1>7, <1>8 DEF Alike
<1>10. q.escape = (c = "%" /\ ~p.escape)
  BY <1>1, <1>6
<1> QED BY <1>9, <1>10 DEF q, r

(* A format that both functions know all of prints the same through either *)
(* (alt_printf.c:49-127, alt_log_printf.c:114-341), for every format and   *)
(* every list of words: a format of n characters takes n / 2 at most.      *)
THEOREM EveryFormatPrintsAlike ==
  ASSUME NEW fmt \in Seq(Printable), NEW args,
         \A a \in 1 .. Len(fmt) \div 2 : args[a] \in 0 .. Word - 1
  PROVE  PrintfsAgree(fmt, args)
<1> DEFINE n == Len(fmt)
<1>1. n \in Nat
  OBVIOUS
<1> SUFFICES ASSUME Common(fmt)
             PROVE  alt_printf(fmt, args) = alt_log_private_printf(fmt, args)
  BY DEF PrintfsAgree
<1>2. PICK p : /\ alt_printf(fmt, args) = p[n].out /\ p[0] = PrintStart
               /\ \A i \in 1 .. n : p[i] = FmtChar(p[i - 1], fmt[i], args)
  BY <1>1, PrintIs
<1>3. PICK s : /\ alt_log_private_printf(fmt, args) = s[n].out /\ s[0] = LogStart
               /\ \A i \in 1 .. n : s[i] = LogChar(s[i - 1], fmt[i], args)
  <2>1. PICK s : /\ alt_log_private_printf(fmt, args) = s[Len(fmt)].out /\ s[0] = LogStart
                 /\ \A i \in 1 .. Len(fmt) : s[i] = LogChar(s[i - 1], fmt[i], args)
    BY <1>1, ScanIs, SMTT(60)
  <2> QED BY <2>1, Zenon
<1>4. PICK e : /\ Common(fmt) <=> \A i \in 1 .. n : e[i - 1] => fmt[i] \in {"%", "c", "x", "s"}
               /\ e[0] = FALSE
               /\ \A i \in 1 .. n : e[i] = (fmt[i] = "%" /\ ~e[i - 1])
  BY <1>1, EscapeIs, Zenon
<1> DEFINE S == {i \in 0 .. n : Alike(p[i], s[i], i) /\ e[i] = p[i].escape}
<1>5. 0 \in S
  <2>1. Alike(p[0], s[0], 0) /\ e[0] = p[0].escape
    BY <1>2, <1>3, <1>4, StartAlike
  <2>2. 0 \in 0 .. n
    BY <1>1
  <2> QED BY <2>1, <2>2
<1>6. ASSUME NEW i \in 0 .. n - 1, i \in S PROVE i + 1 \in S
  <2> DEFINE j == i + 1
             c == fmt[j]
             q == FmtChar(p[i], c, args)
             r == LogChar(s[i], c, args)
  <2>1. j \in 1 .. n /\ j - 1 = i /\ i \in Nat /\ j \in 0 .. n /\ c \in Printable
    BY <1>1
  <2>2. Alike(p[i], s[i], i) /\ e[i] = p[i].escape
    BY <1>6
  <2> HIDE DEF j
  <2>3. p[j] = q /\ s[j] = r /\ e[j] = (c = "%" /\ ~e[i])
    BY <1>2, <1>3, <1>4, <2>1
  <2>4. e[i] => c \in {"%", "c", "x", "s"}
    BY <1>4, <2>1
  <2> HIDE DEF c
  <2>5. Alike(q, r, i + 1) /\ q.escape = (c = "%" /\ ~p[i].escape)
    <3>1. CASE p[i].escape
      <4>1. c \in {"%", "c", "x", "s"}
        BY <2>2, <2>4, <3>1
      <4>2. \A a \in 1 .. (i + 1) \div 2 : args[a] \in 0 .. Word - 1
        <5> TAKE a \in 1 .. (i + 1) \div 2
        <5>1. a \in 1 .. n \div 2
          BY <1>1
        <5> QED BY <5>1
      <4> QED BY <2>1, <2>2, <3>1, <4>1, <4>2, EscapedAlike
    <3>2. CASE ~p[i].escape
      BY <2>1, <2>2, <3>2, CharAlike
    <3> QED BY <3>1, <3>2
  <2> HIDE DEF q, r
  <2>6. Alike(p[j], s[j], j) /\ e[j] = p[j].escape
    BY <2>2, <2>3, <2>5 DEF j
  <2> QED BY <2>1, <2>6 DEF j
<1> HIDE DEF S
<1>7. \A i \in 0 .. n : i \in S
  BY <1>1, <1>5, <1>6, UpTo
<1>8. n \in 0 .. n
  BY <1>1
<1> QED BY <1>2, <1>3, <1>7, <1>8 DEF S, Alike

(* The echo of a write fits alt_log_write_buf[ALT_LOG_WRITE_ECHO_LEN + 2], *)
(* ends in NUL and holds no Ctrl-D (alt_log_printf.c:440-462), whatever is *)
(* written and however much of it is echoed.                               *)
THEOREM EveryEchoFits ==
  ASSUME NEW S, NEW line \in Seq(S), NEW echo \in Nat
  PROVE  EchoFits(line, echo)
<1> DEFINE length == IF echo > Len(line) THEN Len(line) ELSE echo
           kept == [i \in 1 .. length - 1 |-> IF line[i] = "^D" THEN "D" ELSE line[i]]
           end == <<"\n", "\r", "NUL">>
           out == Echo(line, echo)
           Ends == {"\n", "\r", "NUL"}
           Kept == (S \cup {"D"}) \ {"^D"}
           Echoed == Kept \cup Ends
<1>1. length \in Nat /\ length <= echo /\ length <= Len(line)
  OBVIOUS
<1>2. out = IF length < 2 THEN <<>> ELSE kept \o end
  BY DEF Echo
<1>3. CASE length < 2
  <2>1. out = <<>> /\ Len(out) = 0
    BY <1>2, <1>3
  <2> QED BY <2>1 DEF EchoFits
<1>4. CASE length >= 2
  <2>1. kept \in Seq(Echoed) /\ Len(kept) = length - 1
    <3> DEFINE n == length - 1
    <3>1. n \in Nat /\ n <= Len(line)
      BY <1>1, <1>4
    <3>2. ASSUME NEW i \in 1 .. n PROVE kept[i] \in Echoed
      <4>1. line[i] \in S
        BY <3>1
      <4>2. kept[i] = IF line[i] = "^D" THEN "D" ELSE line[i]
        OBVIOUS
      <4>3. "D" # "^D"
        OBVIOUS
      <4> QED BY <4>1, <4>2, <4>3
    <3>3. kept = [i \in 1 .. n |-> kept[i]]
      OBVIOUS
    <3> HIDE DEF kept, n
    <3>4. kept \in [1 .. n -> Echoed]
      BY <3>2, <3>3
    <3>5. kept \in Seq(Echoed) /\ Len(kept) = n
      BY <3>1, <3>4
    <3> QED BY <3>5 DEF n
  <2>2. end \in Seq(Echoed) /\ Len(end) = 3 /\ end[3] = "NUL"
    OBVIOUS
  <2>3. \A x \in Echoed : x # "^D"
    OBVIOUS
  <2>4. out = kept \o end
    BY <1>2, <1>4
  <2> HIDE DEF kept, end, out, Echoed, length
  <2>5. /\ out \in Seq(Echoed) /\ Len(out) = length + 2
        /\ \A i \in 1 .. length + 2 : out[i] = IF i <= length - 1 THEN kept[i] ELSE end[i - (length - 1)]
    <3>1. length - 1 + 3 = length + 2
      BY <1>1
    <3>2. /\ kept \o end \in Seq(Echoed) /\ Len(kept \o end) = Len(kept) + Len(end)
          /\ \A i \in 1 .. Len(kept) + Len(end) :
               (kept \o end)[i] = IF i <= Len(kept) THEN kept[i] ELSE end[i - Len(kept)]
      BY <2>1, <2>2, ConcatProperties, Zenon
    <3>3. Len(kept) + Len(end) = length + 2
      BY <2>1, <2>2, <3>1
    <3> QED BY <2>1, <2>4, <3>2, <3>3, Zenon
  <2>6. out[Len(out)] = "NUL"
    <3> DEFINE i == length + 2
    <3>1. i \in 1 .. length + 2 /\ ~(i <= length - 1) /\ i - (length - 1) = 3 /\ Len(out) = i
      BY <1>1, <2>5
    <3> HIDE DEF i
    <3> QED BY <2>2, <2>5, <3>1
  <2>7. \A i \in 1 .. Len(out) : out[i] # "^D"
    BY <2>3, <2>5
  <2>8. Len(out) <= echo + 2
    BY <1>1, <2>5
  <2> QED BY <2>6, <2>7, <2>8 DEF EchoFits, out
<1> QED BY <1>1, <1>3, <1>4

PrintInv ==
  call # NoCall =>
    /\ call[1] = "printf" =>
         /\ call[2] \in Seq(Printable)
         /\ \A a \in 1 .. Len(call[2]) \div 2 : call[3][a] \in 0 .. Word - 1
    /\ call[1] = "integer" =>
         /\ call[2] \in 0 .. Word - 1 /\ call[3] \in {"d", "u", "o", "x"}
         /\ call[4] \in BOOLEAN /\ call[5] \in 0 .. Word \div 2 - 1
    /\ call[1] = "echo" => call[2] \in Seq({"a", "^D"}) /\ call[3] \in Nat

LEMMA FormatsAre == \A fmt \in Formats : fmt \in Seq(Printable) /\ Len(fmt) <= 5
<1>1. {"%", "x", "c", "s", "a"} \subseteq Printable
  BY DEF Printable, Letter
<1> DEFINE Few == {"%", "x", "c", "s", "a"}
<1> HIDE DEF Few
<1>2. ASSUME NEW n \in 0 .. 5, NEW fmt \in [1 .. n -> Few], Few \subseteq Printable
      PROVE  fmt \in Seq(Printable) /\ Len(fmt) <= 5
  <2>1. fmt \in [1 .. n -> Printable]
    BY <1>2
  <2>2. fmt \in Seq(Printable) /\ Len(fmt) = n
    BY <2>1
  <2> QED BY <2>2
<1> QED BY <1>1, <1>2 DEF Formats, Few

LEMMA EchoesAre == \A line \in Echoes : line \in Seq({"a", "^D"})
<1> DEFINE Few == {"a", "^D"}
<1> HIDE DEF Few
<1>1. ASSUME NEW n \in 0 .. 4, NEW line \in [1 .. n -> Few] PROVE line \in Seq(Few)
  OBVIOUS
<1> QED BY <1>1 DEF Echoes, Few

LEMMA NextPrintInv == Cases => PrintInv'
<1> SUFFICES ASSUME Cases PROVE PrintInv'
  OBVIOUS
<1>1. CASE call'[1] \in {"sleep", "file", "address"}
  BY <1>1 DEF PrintInv
<1>2. ASSUME NEW fmt \in Formats, NEW v \in 0 .. Word - 1, NEW w \in 0 .. Word - 1,
             call' = <<"printf", fmt, <<v, w, v, w, v, w>> >>
      PROVE  PrintInv'
  <2> DEFINE args == <<v, w, v, w, v, w>>
  <2>1. fmt \in Seq(Printable) /\ Len(fmt) <= 5
    BY FormatsAre
  <2>2. \A a \in 1 .. Len(fmt) \div 2 : a = 1 \/ a = 2
    <3> DEFINE n == Len(fmt)
    <3>1. n \in 0 .. 5
      <4>1. n \in Nat
        BY <2>1, LenProperties
      <4>2. n <= 5
        BY <2>1
      <4> HIDE DEF n
      <4> QED BY <4>1, <4>2
    <3> HIDE DEF n
    <3>2. \A a \in 1 .. n \div 2 : a = 1 \/ a = 2
      BY <3>1
    <3> QED BY <3>2 DEF n
  <2>3. args[1] = v /\ args[2] = w
    OBVIOUS
  <2> HIDE DEF args
  <2>4. call'[1] = "printf" /\ call'[2] = fmt /\ call'[3] = args
    BY <1>2 DEF args
  <2>5. \A a \in 1 .. Len(fmt) \div 2 : args[a] \in 0 .. Word - 1
    BY <2>2, <2>3
  <2> QED BY <2>1, <2>4, <2>5 DEF PrintInv
<1>3. ASSUME NEW v \in 0 .. Word - 1, NEW letter \in {"d", "u", "o", "x"}, NEW zero \in BOOLEAN,
             NEW width \in {0, 1, 4, 10} \cap 0 .. Word \div 2 - 1,
             call' = <<"integer", v, letter, zero, width>>
      PROVE  PrintInv'
  BY <1>3 DEF PrintInv
<1>4. ASSUME NEW line \in Echoes, NEW echo \in 1 .. 3, call' = <<"echo", line, echo>>
      PROVE  PrintInv'
  BY <1>4, EchoesAre DEF PrintInv
<1> QED BY <1>1, <1>2, <1>3, <1>4 DEF Cases

(* What the two printf functions and the echo of a write print is right,   *)
(* for words of any size (alt_printf.c:49-127, alt_log_printf.c:114-341,   *)
(* 440-462).                                                               *)
THEOREM PrintingIsRight == LibrarySpec => []PrintsRight
<1> DEFINE Inv == part = "calls" => PrintInv
<1>1. LibraryInit => Inv
  BY DEF LibraryInit, PrintInv
<1>2. Inv /\ [LibraryNext]_vars => Inv'
  <2> SUFFICES ASSUME Inv, [LibraryNext]_vars, part' = "calls" PROVE PrintInv'
    OBVIOUS
  <2>1. part = "calls" /\ (Cases \/ UNCHANGED call)
    BY DEF LibraryNext, vars
  <2>2. UNCHANGED call => PrintInv'
    BY <2>1 DEF PrintInv
  <2> QED BY <2>1, <2>2, NextPrintInv
<1>3. Inv => PrintsRight
  <2> SUFFICES ASSUME PrintInv, call # NoCall, part = "calls" PROVE PrintsRight
    BY DEF PrintsRight
  <2>1. CASE call[1] = "printf"
    <3>1. PrintfsAgree(call[2], call[3])
      BY <2>1, EveryFormatPrintsAlike DEF PrintInv
    <3> QED BY <2>1, <3>1 DEF PrintsRight
  <2>2. CASE call[1] = "integer"
    <3>1. IntegerReadsBack(call[2], call[3], call[4], call[5])
      BY <2>2, EveryIntegerReadsBack DEF PrintInv
    <3> QED BY <2>2, <3>1 DEF PrintsRight
  <2>3. CASE call[1] = "echo"
    <3>1. EchoFits(call[2], call[3])
      BY <2>3, EveryEchoFits DEF PrintInv
    <3> QED BY <2>3, <3>1 DEF PrintsRight
  <2>4. CASE call[1] \notin {"printf", "integer", "echo"}
    BY <2>4 DEF PrintsRight
  <2> QED BY <2>1, <2>2, <2>3, <2>4
<1> QED BY <1>1, <1>2, <1>3, PTL DEF LibrarySpec
=============================================================================
