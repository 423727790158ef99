-------------------------------- MODULE Stack --------------------------------
(***************************************************************************)
(* The program's stack and the heap that grows towards it, as they are     *)
(* checked with ALT_STACK_CHECK: et holds the limit of the stack in use,   *)
(* functions compare the stack pointer with it, sbrk() moves it, and with  *)
(* ALT_EXCEPTION_STACK an exception keeps it elsewhere while it uses a     *)
(* stack of its own.  A report of an overflow breaks into the debugger and *)
(* the program does not go on.                                             *)
(***************************************************************************)
EXTENDS Integers

CONSTANTS
  Top,            \* where the stack starts and the heap must end
  Alignment,      \* sbrk() returns blocks aligned to this
  Frame,          \* bytes the exception code puts on the stack
  Increments,     \* what sbrk() is called with
  NoLimit         \* NULL, or the limit of another stack

ASSUME StackAssumption ==
  /\ Top \in Nat /\ Alignment \in Nat \ {0} /\ Frame \in Nat
  /\ Increments \subseteq Nat /\ NoLimit \notin Nat

VARIABLES
  ALT_EXCEPTION_STACK,              \* fixed when the program is built
  brk,                              \* heap_end: where the heap ends
  sp, et,                           \* of the program, or of an exception on its stack
  alt_exception_old_stack_limit,
  exception,                        \* an exception is being handled
  overflow,                         \* reported: by whom
  unaligned                         \* history: sbrk() has allocated so many bytes

stackvars == <<ALT_EXCEPTION_STACK, brk, sp, et, alt_exception_old_stack_limit,
               exception, overflow, unaligned>>

(* Nothing was allocated yet: the heap starts at 0.                        *)
StackInit ==
  /\ ALT_EXCEPTION_STACK \in BOOLEAN
  /\ brk = 0
  /\ sp = Top /\ et = 0
  /\ alt_exception_old_stack_limit = NoLimit
  /\ exception = FALSE
  /\ overflow = "none"
  /\ unaligned = FALSE

OnOwnStack == exception /\ ALT_EXCEPTION_STACK

(* A function is entered or left, by the program or by a handler that uses *)
(* its stack.  The compiler has put the test there.                        *)
Enter(pointer) ==
  /\ overflow = "none" /\ ~OnOwnStack
  /\ pointer < sp
  /\ IF pointer < et THEN overflow' = "function" /\ UNCHANGED sp
     ELSE sp' = pointer /\ UNCHANGED overflow
  /\ UNCHANGED <<ALT_EXCEPTION_STACK, brk, et, alt_exception_old_stack_limit, exception,
                 unaligned>>

Leave(pointer) ==
  /\ overflow = "none" /\ ~exception
  /\ pointer > sp
  /\ sp' = pointer
  /\ UNCHANGED <<ALT_EXCEPTION_STACK, brk, et, alt_exception_old_stack_limit, exception,
                 overflow, unaligned>>

(* What sbrk() has made of the limits when the heap ends at new: the limit *)
(* moves if it was where the heap ended, if the stack pointer is above.    *)
(* (Mutant: the limit moves, the stack pointer is not compared with it.)   *)
CheckStackMoves(prev_heap_end, new) ==
  IF ~OnOwnStack /\ et = prev_heap_end
  THEN et' = new /\ UNCHANGED <<overflow, alt_exception_old_stack_limit>>
  ELSE UNCHANGED <<et, overflow, alt_exception_old_stack_limit>>

CheckStack(prev_heap_end, new) ==
  IF ~OnOwnStack /\ et = prev_heap_end
  THEN /\ overflow' = IF sp <= new THEN "sbrk" ELSE "none"
       /\ et' = new
       /\ UNCHANGED alt_exception_old_stack_limit
  ELSE /\ IF OnOwnStack /\ alt_exception_old_stack_limit = prev_heap_end
          THEN /\ overflow' = IF alt_exception_old_stack_limit <= new THEN "exception" ELSE "none"
               /\ alt_exception_old_stack_limit' = new
          ELSE UNCHANGED <<overflow, alt_exception_old_stack_limit>>
       /\ UNCHANGED et

Sbrk(incr) ==
  LET prev_heap_end == ((brk + Alignment - 1) \div Alignment) * Alignment
  IN  /\ overflow = "none"
      /\ IF prev_heap_end + incr > Top
         THEN brk' = prev_heap_end
              /\ UNCHANGED <<et, overflow, alt_exception_old_stack_limit, unaligned>>
         ELSE /\ brk' = prev_heap_end + incr
              /\ unaligned' = (unaligned \/ incr % Alignment # 0)
              /\ CheckStack(prev_heap_end, brk')
      /\ UNCHANGED <<ALT_EXCEPTION_STACK, sp, exception>>

(* The exception code switches to its stack, or makes room on this one.    *)
EnterException ==
  /\ overflow = "none" /\ ~exception
  /\ exception' = TRUE
  /\ IF ALT_EXCEPTION_STACK
     THEN /\ alt_exception_old_stack_limit' = et
          /\ et' = NoLimit
          /\ UNCHANGED <<sp, overflow>>
     ELSE /\ IF sp - Frame < et
             THEN overflow' = "entry" /\ UNCHANGED sp
             ELSE sp' = sp - Frame /\ UNCHANGED overflow
          /\ UNCHANGED <<et, alt_exception_old_stack_limit>>
  /\ UNCHANGED <<ALT_EXCEPTION_STACK, brk, unaligned>>

(* The handlers have left their functions.                                 *)
LeaveException(pointer) ==
  /\ overflow = "none" /\ exception
  /\ exception' = FALSE
  /\ IF ALT_EXCEPTION_STACK
     THEN /\ et' = alt_exception_old_stack_limit
          /\ alt_exception_old_stack_limit' = NoLimit
          /\ UNCHANGED sp
     ELSE /\ pointer >= sp + Frame
          /\ sp' = pointer
          /\ UNCHANGED <<et, alt_exception_old_stack_limit>>
  /\ UNCHANGED <<ALT_EXCEPTION_STACK, brk, overflow, unaligned>>

StackNext ==
  \/ \E pointer \in 0 .. Top : Enter(pointer) \/ Leave(pointer) \/ LeaveException(pointer)
  \/ \E incr \in Increments : Sbrk(incr)
  \/ EnterException

StackSpec == StackInit /\ [][StackNext]_stackvars
-----------------------------------------------------------------------------
Limit == IF OnOwnStack THEN alt_exception_old_stack_limit ELSE et

(* As long as nobody has allocated a number of bytes that is not aligned,  *)
(* the limit of the program's stack is where the heap ends, wherever       *)
(* sbrk() is called from, and no overflow goes unreported: heap and stack  *)
(* do not overlap.  (After one the limit stays behind, because sbrk()      *)
(* compares it with the end of the heap after rounding that up:            *)
(* alt_sbrk.c:79, 109; alt_exception_entry.S:83-115, 319-346.)             *)
HeapMeetsNoStack ==
  overflow = "none" /\ ~unaligned => brk = Limit /\ brk <= sp

(* Whatever is allocated, from the program or from an exception, the limit *)
(* is never above the end of the heap: no function and no entry to an      *)
(* exception is stopped that had room above it (alt_stack.h:105-118,       *)
(* alt_sbrk.c:109-131).                                                    *)
LimitInHeap == Limit <= brk

(* VIOLATED.  alt_sbrk.c:116-119 says that sbrk() on the exception stack   *)
(* compares the heap's end against the stack that was switched away from.  *)
(* Line 124 compares it with the limit of that stack, which is where the   *)
(* heap ended, so that an overflow is reported of any stack.               *)
ExceptionReportIsTrue == overflow = "exception" => sp <= brk
=============================================================================
