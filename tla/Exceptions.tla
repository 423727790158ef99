------------------------------ MODULE Exceptions ------------------------------
(***************************************************************************)
(* What becomes of the instruction at which the processor enters the       *)
(* exception vector.  The entry code cannot ask the processor why it is    *)
(* there: it tests for an interrupt, then tries the handlers that are      *)
(* linked in, one after the other, and each decides whether the            *)
(* instruction is issued again or skipped.  The program masks interrupts   *)
(* in critical sections, in which instructions still raise exceptions.     *)
(***************************************************************************)
EXTENDS Integers, Sequences

CONSTANTS
  Program,       \* sequences of instructions
  Linked,        \* the sets of handlers built in: subsets of
                 \* {"muldiv", "trap", "api"}
  MaxInterrupts, \* bound: interrupts that arrive
  MaxSections    \* bound: critical sections nested in each other

Instruction == {"plain", "mul", "trap", "illegal"}

ASSUME ExceptionAssumption ==
  /\ Program \subseteq Seq(Instruction)
  /\ Linked \subseteq SUBSET {"muldiv", "trap", "api"}
  /\ MaxInterrupts \in Nat /\ MaxSections \in Nat

VARIABLES
  linked,
  program,
  pc,           \* the next instruction
  done,         \* done[i]: times instruction i has been executed or emulated
  skipped,      \* instructions a registered handler chose to skip
  alt_instruction_exception_handler,   \* registered or not
  pending,      \* an interrupt is pending
  arrived,      \* interrupts so far
  ea, saved,    \* the return address, and the copy at 72(sp)
  PIE,          \* interrupts are enabled: the bit of the status register
  estatus, savedStatus,  \* the bit when the exception came, and its copy at 68(sp)
  contexts,     \* what the program's critical sections restore, the innermost last
  stage         \* where the exception code is: "none" outside it

maskvars == <<PIE, estatus, savedStatus, contexts>>

exceptionvars == <<linked, program, pc, done, skipped, alt_instruction_exception_handler,
                   pending, arrived, ea, saved, stage, maskvars>>

Kind == program[pc]

ExceptionInit ==
  /\ linked \in Linked
  /\ program \in Program
  /\ pc = 1
  /\ done = [i \in DOMAIN program |-> 0]
  /\ skipped = {}
  /\ alt_instruction_exception_handler \in {FALSE} \cup {"api" \in linked}
  /\ pending = FALSE /\ arrived = 0
  /\ ea = 0 /\ saved = 0
  /\ PIE = TRUE /\ estatus = TRUE /\ savedStatus = TRUE /\ contexts = <<>>
  /\ stage = "none"

Arrive ==
  /\ arrived < MaxInterrupts /\ ~pending
  /\ pending' = TRUE /\ arrived' = arrived + 1
  /\ UNCHANGED <<linked, program, pc, done, skipped, alt_instruction_exception_handler,
                 ea, saved, stage, maskvars>>

(* A device takes its interrupt back before it is served.                  *)
Withdraw ==
  /\ pending
  /\ pending' = FALSE
  /\ UNCHANGED <<linked, program, pc, done, skipped, alt_instruction_exception_handler,
                 arrived, ea, saved, stage, maskvars>>

Execute ==
  /\ stage = "none" /\ pc \in DOMAIN program
  /\ Kind = "plain"
  /\ done' = [done EXCEPT ![pc] = @ + 1]
  /\ pc' = pc + 1
  /\ UNCHANGED <<linked, program, skipped, alt_instruction_exception_handler, pending,
                 arrived, ea, saved, stage, maskvars>>

(* A critical section, which may lie in another.                           *)
alt_irq_disable_all ==
  /\ stage = "none" /\ Len(contexts) < MaxSections
  /\ contexts' = Append(contexts, PIE)
  /\ PIE' = FALSE
  /\ UNCHANGED <<linked, program, pc, done, skipped, alt_instruction_exception_handler,
                 pending, arrived, ea, saved, estatus, savedStatus, stage>>

alt_irq_enable_all ==
  /\ stage = "none" /\ contexts # <<>>
  /\ PIE' = contexts[Len(contexts)]
  /\ contexts' = SubSeq(contexts, 1, Len(contexts) - 1)
  /\ UNCHANGED <<linked, program, pc, done, skipped, alt_instruction_exception_handler,
                 pending, arrived, ea, saved, estatus, savedStatus, stage>>

(* The processor enters the vector with ea behind the instruction, which   *)
(* has not been executed, and interrupts masked.  The code plans to issue  *)
(* the instruction again.                                                  *)
alt_exception ==
  /\ stage = "none" /\ pc \in DOMAIN program
  /\ (PIE /\ pending) \/ Kind # "plain"
  /\ ea' = pc + 1
  /\ saved' = pc
  /\ estatus' = PIE /\ savedStatus' = PIE /\ PIE' = FALSE
  /\ stage' = "irqtest"
  /\ UNCHANGED <<linked, program, pc, done, skipped, alt_instruction_exception_handler,
                 pending, arrived, contexts>>

(* (Mutant: only ipending is looked at.)                                   *)
IrqTestPending ==
  /\ stage = "irqtest" /\ pending
  /\ stage' = "irq"
  /\ UNCHANGED <<linked, program, pc, done, skipped, alt_instruction_exception_handler,
                 pending, arrived, ea, saved, maskvars>>

(* An interrupt that is pending now, and was not masked at the entry, is   *)
(* served whatever the reason for the entry was.                           *)
IrqTest ==
  /\ stage = "irqtest" /\ estatus /\ pending
  /\ stage' = "irq"
  /\ UNCHANGED <<linked, program, pc, done, skipped, alt_instruction_exception_handler,
                 pending, arrived, ea, saved, maskvars>>

(* Interrupts that nest in the handler leave ea and estatus as they like.  *)
alt_irq_handler ==
  /\ stage = "irq"
  /\ pending' = FALSE
  /\ ea' \in {0, ea} /\ estatus' \in BOOLEAN
  /\ stage' = "exit"
  /\ UNCHANGED <<linked, program, pc, done, skipped, alt_instruction_exception_handler,
                 arrived, saved, PIE, savedStatus, contexts>>

NotIrq ==
  /\ stage = "irqtest" /\ ~(estatus /\ pending)
  /\ saved' = ea
  /\ stage' = "muldiv"
  /\ UNCHANGED <<linked, program, pc, done, skipped, alt_instruction_exception_handler,
                 pending, arrived, ea, maskvars>>

(* The code is passed through whether or not a handler is linked there.    *)
Emulate ==
  /\ stage = "muldiv"
  /\ IF "muldiv" \in linked /\ program[ea - 1] = "mul"
     THEN /\ done' = [done EXCEPT ![ea - 1] = @ + 1]
          /\ stage' = "exit"
     ELSE /\ stage' = "trap"
          /\ UNCHANGED done
  /\ UNCHANGED <<linked, program, pc, skipped, alt_instruction_exception_handler, pending,
                 arrived, ea, saved, maskvars>>

(* The trap handler is a break into the debugger, which goes on behind it. *)
Trap ==
  /\ stage = "trap"
  /\ IF "trap" \in linked /\ program[ea - 1] = "trap"
     THEN /\ done' = [done EXCEPT ![ea - 1] = @ + 1]
          /\ stage' = "exit"
     ELSE /\ stage' = "unknown"
          /\ UNCHANGED done
  /\ UNCHANGED <<linked, program, pc, skipped, alt_instruction_exception_handler, pending,
                 arrived, ea, saved, maskvars>>

(* The registered handler, which may leave the instruction to be issued    *)
(* again, and may have removed the reason (here: it has).  Without one the *)
(* processor breaks or hangs.                                              *)
alt_instruction_exception_entry ==
  /\ stage = "unknown"
  /\ IF ~alt_instruction_exception_handler
     THEN /\ stage' = "hang"
          /\ UNCHANGED <<program, saved, skipped>>
     ELSE \/ /\ skipped' = skipped \cup {ea - 1}
             /\ stage' = "exit"
             /\ UNCHANGED <<program, saved>>
          \/ /\ program' = [program EXCEPT ![ea - 1] = "plain"]
             /\ saved' = ea - 1
             /\ stage' = "exit"
             /\ UNCHANGED skipped
  /\ UNCHANGED <<linked, pc, done, alt_instruction_exception_handler, pending, arrived, ea,
                 maskvars>>

alt_instruction_exception_register(registered) ==
  /\ stage = "none" /\ "api" \in linked
  /\ alt_instruction_exception_handler' = registered
  /\ UNCHANGED <<linked, program, pc, done, skipped, pending, arrived, ea, saved, stage, maskvars>>

(* eret puts estatus back into the status register.                        *)
ExceptionExit ==
  /\ stage = "exit"
  /\ ea' = saved /\ pc' = saved
  /\ estatus' = savedStatus /\ PIE' = savedStatus
  /\ stage' = "none"
  /\ UNCHANGED <<linked, program, done, skipped, alt_instruction_exception_handler, pending,
                 arrived, saved, savedStatus, contexts>>

ExceptionNext ==
  \/ Arrive \/ Withdraw \/ Execute
  \/ alt_irq_disable_all \/ alt_irq_enable_all
  \/ alt_exception \/ IrqTest \/ alt_irq_handler \/ NotIrq \/ Emulate \/ Trap
  \/ alt_instruction_exception_entry \/ ExceptionExit
  \/ \E registered \in BOOLEAN : alt_instruction_exception_register(registered)
-----------------------------------------------------------------------------
(* Each instruction is executed or emulated exactly once, or skipped by a  *)
(* registered handler: an interrupt that arrives while the entry code runs *)
(* for another reason makes it neither lost nor executed twice, and one    *)
(* that is withdrawn between the entry and the test does not lose the      *)
(* instruction at which it was taken, unless the registered handler skips  *)
(* it (alt_exception_entry.S, alt_irq_entry.S,                             *)
(* alt_instruction_exception_entry.c:67-160).                              *)
ExecutedOnce ==
  stage \in {"none", "irqtest", "irq", "hang"} =>
    \A i \in DOMAIN program :
      IF i < pc
      THEN done[i] = 1 <=> i \notin skipped
      ELSE done[i] = 0 /\ i \notin skipped

(* A critical section of the program is never interrupted, not by way of   *)
(* an exception of one of its own instructions either, at which the entry  *)
(* code finds an interrupt pending (alt_irq_entry.S:79-82); and when the   *)
(* program goes on interrupts are masked just in its critical sections,    *)
(* whatever has nested in the exception (alt_exception_entry.S:305-309).   *)
CriticalUninterrupted ==
  /\ stage = "irq" => contexts = <<>>
  /\ stage = "none" => (PIE <=> contexts = <<>>)

(* The processor stops only at an instruction that nothing linked in or    *)
(* registered can handle, or at an interrupt that has gone away.           *)
HangIsUnhandled ==
  stage = "hang" =>
    /\ ~alt_instruction_exception_handler
    /\ ~(Kind = "mul" /\ "muldiv" \in linked)
    /\ ~(Kind = "trap" /\ "trap" \in linked)
=============================================================================
