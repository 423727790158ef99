------------------------------ MODULE Interrupts ------------------------------
(***************************************************************************)
(* The interrupt layer of the HAL on a Nios II with its internal interrupt *)
(* controller: registration of handlers, enabling and disabling of single  *)
(* interrupts, the critical section, the dispatch loop, and handlers that  *)
(* let more urgent interrupts in (alt_irq_interruptible).                  *)
(*                                                                         *)
(* An interrupt's number is its priority, 0 the most urgent.  frame[0] is  *)
(* the program; frame[d] for 1 <= d <= depth is the handler that runs on   *)
(* top of frame[d - 1].  Only the topmost frame takes steps, each of them  *)
(* one access to a register or a variable the frames share; devices raise  *)
(* their requests at any time.                                             *)
(***************************************************************************)
EXTENDS Integers, FiniteSets

CONSTANTS
  NIRQ,            \* ALT_NIRQ (32)
  Tag,             \* names a handler routine, and the context it goes with
  NULL,
  NestedMasking    \* handlers call alt_ic_irq_enable/disable and register
                   \* while some handler has let more urgent interrupts in

Irq == 0 .. NIRQ - 1

ASSUME InterruptAssumption ==
  /\ NIRQ \in Nat /\ NIRQ >= 1
  /\ NULL \notin Tag /\ NULL \notin Irq /\ NULL \notin {"register", "mask"}
  /\ NestedMasking \in BOOLEAN

VARIABLES
  request,             \* devices asking for service
  pie, ienable,        \* status.PIE and the ienable register
  alt_irq_active,      \* interrupts that are enabled
  alt_priority_mask,   \* interrupts more urgent than the handlers that let them in
  handler, context,    \* the two columns of the table alt_irq
  frame, depth

registers == <<pie, ienable>>
masks     == <<alt_irq_active, alt_priority_mask>>
table     == <<handler, context>>
stack     == <<frame, depth>>
irqvars      == <<request, registers, masks, table, stack>>

(* A frame: its place; the interrupt it serves (NULL: none); what it has   *)
(* called; the arguments of its call and the contexts that                 *)
(* alt_irq_disable_all has returned to it; the priority mask it has to     *)
(* restore if it has let interrupts in.                                    *)
Frame ==
  [pc     : {"boot", "run", "entered", "pending", "serve", "context", "mask",
             "active", "ienable", "unmask", "leave"},
   irq    : Irq \cup {NULL},
   call   : {NULL, "register", "mask"},
   id     : Irq, isr : Tag \cup {NULL}, on : BOOLEAN,
   outer  : BOOLEAN, inner : BOOLEAN,
   open   : BOOLEAN, old : SUBSET Irq]

Idle ==
  [pc |-> "run", irq |-> NULL, call |-> NULL, id |-> 0, isr |-> NULL, on |-> FALSE,
   outer |-> FALSE, inner |-> FALSE, open |-> FALSE, old |-> {}]

top == frame[depth]

(* The topmost frame changes to f. *)
Becomes(f) ==
  /\ frame' = [frame EXCEPT ![depth] = f]
  /\ UNCHANGED depth

Pending == request \cap ienable

IrqInit ==
  /\ request = {}
  /\ pie = FALSE /\ ienable = {}
  /\ alt_irq_active = {} /\ alt_priority_mask = Irq
  /\ handler = [i \in Irq |-> NULL] /\ context = [i \in Irq |-> NULL]
  /\ frame = [d \in 0 .. NIRQ |-> IF d = 0 THEN [Idle EXCEPT !.pc = "boot"] ELSE Idle]
  /\ depth = 0

(* alt_irq_init: the program clears ienable and turns interrupts on. *)
alt_irq_init ==
  /\ top.pc = "boot"
  /\ ienable' = {} /\ pie' = TRUE
  /\ Becomes(Idle)
  /\ UNCHANGED <<request, masks, table>>

Raise(i) ==
  /\ i \notin request
  /\ request' = request \cup {i}
  /\ UNCHANGED <<registers, masks, table, stack>>

-----------------------------------------------------------------------------
(* Calls, of the program or of a handler. *)
MayMask == NestedMasking \/ alt_priority_mask = Irq

(* alt_irq_disable_all and alt_irq_enable_all: the context is the old PIE. *)
(* (Mutants: interrupts stay on; they are always turned back on.)          *)
DisableAllLeavesOn == UNCHANGED pie

DisableAll == pie' = FALSE

EnableAllAlways(saved) == pie' = TRUE

EnableAll(saved) == pie' = saved

(* alt_iic_isr_register: handler and context are stored inside the         *)
(* critical section, then the interrupt is enabled, or disabled if the     *)
(* handler is NULL (which only the program passes: a handler that did      *)
(* could undo a registration the program is about to enable).              *)
RegisterCall(i, isr) ==
  /\ top.pc = "run" /\ MayMask
  /\ isr = NULL => depth = 0
  /\ DisableAll
  /\ Becomes([top EXCEPT !.pc = "serve", !.call = "register", !.id = i, !.isr = isr,
                         !.on = (isr # NULL), !.outer = pie])
  /\ UNCHANGED <<request, ienable, masks, table>>

RegisterHandler ==
  /\ top.pc = "serve"
  /\ handler' = [handler EXCEPT ![top.id] = top.isr]
  /\ Becomes([top EXCEPT !.pc = "context"])
  /\ UNCHANGED <<request, registers, masks, context>>

RegisterContext ==
  /\ top.pc = "context"
  /\ context' = [context EXCEPT ![top.id] = top.isr]
  /\ Becomes([top EXCEPT !.pc = "mask"])
  /\ UNCHANGED <<request, registers, masks, handler>>

RegisterReturn ==
  /\ top.pc = "leave"
  /\ EnableAll(top.outer)
  /\ Becomes([Idle EXCEPT !.irq = top.irq, !.open = top.open, !.old = top.old])
  /\ UNCHANGED <<request, ienable, masks, table>>

(* alt_ic_irq_enable and alt_ic_irq_disable, called directly.  A handler   *)
(* has been registered for an interrupt that is enabled.                   *)
MaskCall(i, on) ==
  /\ top.pc = "run" /\ MayMask
  /\ on => handler[i] # NULL
  /\ Becomes([top EXCEPT !.pc = "mask", !.call = "mask", !.id = i, !.on = on])
  /\ UNCHANGED <<request, registers, masks, table>>

(* alt_irq_enable and alt_irq_disable, whoever has called them. *)
MaskEnter ==
  /\ top.pc = "mask"
  /\ DisableAll
  /\ Becomes([top EXCEPT !.pc = "active", !.inner = pie])
  /\ UNCHANGED <<request, ienable, masks, table>>

MaskActive ==
  /\ top.pc = "active"
  /\ alt_irq_active' = IF top.on THEN alt_irq_active \cup {top.id}
                                 ELSE alt_irq_active \ {top.id}
  /\ Becomes([top EXCEPT !.pc = "ienable"])
  /\ UNCHANGED <<request, registers, alt_priority_mask, table>>

MaskWrite ==
  /\ top.pc = "ienable"
  /\ ienable' = alt_irq_active
  /\ Becomes([top EXCEPT !.pc = "unmask"])
  /\ UNCHANGED <<request, pie, masks, table>>

MaskReturn ==
  /\ top.pc = "unmask"
  /\ EnableAll(top.inner)
  /\ Becomes(IF top.call = "register" THEN [top EXCEPT !.pc = "leave"]
             ELSE [Idle EXCEPT !.irq = top.irq, !.open = top.open, !.old = top.old])
  /\ UNCHANGED <<request, ienable, masks, table>>

-----------------------------------------------------------------------------
(* Interrupt entry: the processor takes an interrupt while PIE is set,     *)
(* which clears PIE; alt_exception saves the registers, finds PIE set in   *)
(* the saved status and an interrupt pending, and calls alt_irq_handler.   *)
(* (Mutant: PIE is left set.)                                              *)
EnterLeavesOn ==
  /\ pie /\ Pending # {} /\ depth < NIRQ
  /\ depth' = depth + 1
  /\ frame' = [frame EXCEPT ![depth + 1] = [Idle EXCEPT !.pc = "entered"]]
  /\ UNCHANGED <<request, registers, masks, table>>

Enter ==
  /\ pie /\ Pending # {} /\ depth < NIRQ
  /\ pie' = FALSE
  /\ depth' = depth + 1
  /\ frame' = [frame EXCEPT ![depth + 1] = [Idle EXCEPT !.pc = "entered"]]
  /\ UNCHANGED <<request, ienable, masks, table>>

(* alt_irq_handler reads what is pending and calls the most urgent         *)
(* handler, which clears the condition its device has asked for.           *)
(* (Mutant: the scan starts from the other end.)                           *)
LeastUrgent(i, set) == \A j \in set : j <= i

MostUrgent(i, set) == \A j \in set : i <= j

Dispatch(i) ==
  /\ top.pc \in {"entered", "pending"}
  /\ i \in Pending /\ MostUrgent(i, Pending)
  /\ request' = request \ {i}
  /\ Becomes([top EXCEPT !.pc = "run", !.irq = i])
  /\ UNCHANGED <<registers, masks, table>>

(* The handler returns; pending interrupts are read again. *)
HandlerReturn ==
  /\ depth > 0 /\ top.pc = "run" /\ ~ top.open
  /\ Becomes([top EXCEPT !.pc = "pending", !.irq = NULL])
  /\ UNCHANGED <<request, registers, masks, table>>

(* After a handler nothing is pending any more: eret restores PIE.  The    *)
(* first pass has no such test; its scan does not end if nothing is.       *)
Leave ==
  /\ top.pc = "pending" /\ depth > 0
  /\ Pending = {}
  /\ pie' = TRUE
  /\ depth' = depth - 1
  /\ frame' = [frame EXCEPT ![depth] = Idle]
  /\ UNCHANGED <<request, ienable, masks, table>>

(* alt_irq_interruptible(irq) and alt_irq_non_interruptible(old), called   *)
(* by a handler.  (Mutant: the handler's own interrupt is let in too.)     *)
UpTo(i) == 0 .. i

Above(i) == 0 .. i - 1

alt_irq_interruptible ==
  /\ depth > 0 /\ top.pc = "run" /\ ~ top.open
  /\ alt_priority_mask' = Above(top.irq)
  /\ ienable' = alt_irq_active \cap alt_priority_mask'
  /\ pie' = TRUE
  /\ Becomes([top EXCEPT !.open = TRUE, !.old = alt_priority_mask])
  /\ UNCHANGED <<request, alt_irq_active, table>>

(* (Mutant: every enabled interrupt is let in again.) *)
alt_irq_non_interruptible_all ==
  /\ top.open /\ top.pc = "run"
  /\ pie' = FALSE
  /\ alt_priority_mask' = top.old
  /\ ienable' = alt_irq_active
  /\ Becomes([top EXCEPT !.open = FALSE, !.old = {}])
  /\ UNCHANGED <<request, alt_irq_active, table>>

alt_irq_non_interruptible ==
  /\ top.open /\ top.pc = "run"
  /\ pie' = FALSE
  /\ alt_priority_mask' = top.old
  /\ ienable' = top.old \cap alt_irq_active
  /\ Becomes([top EXCEPT !.open = FALSE, !.old = {}])
  /\ UNCHANGED <<request, alt_irq_active, table>>

-----------------------------------------------------------------------------
InCall ==
  \/ alt_irq_init
  \/ RegisterHandler \/ RegisterContext \/ RegisterReturn
  \/ MaskEnter \/ MaskActive \/ MaskWrite \/ MaskReturn

InHandler ==
  \/ Enter
  \/ \E i \in Irq : Dispatch(i)
  \/ HandlerReturn \/ Leave
  \/ alt_irq_non_interruptible

Choice ==
  \/ \E i \in Irq : Raise(i)
  \/ \E i \in Irq, isr \in Tag \cup {NULL} : RegisterCall(i, isr)
  \/ \E i \in Irq, on \in BOOLEAN : MaskCall(i, on)
  \/ alt_irq_interruptible

IrqNext == InCall \/ InHandler \/ Choice

(* The processor executes: a call that has begun runs on, an interrupt     *)
(* that is enabled is taken, a handler returns in the end.                 *)
IrqSpec ==
  /\ IrqInit /\ [][IrqNext]_irqvars
  /\ WF_irqvars(InCall)
  /\ SF_irqvars(Enter)
  /\ WF_irqvars(\E i \in Irq : Dispatch(i)) /\ WF_irqvars(Leave)
  /\ SF_irqvars(HandlerReturn) /\ SF_irqvars(alt_irq_non_interruptible)

-----------------------------------------------------------------------------
IrqTypeOK ==
  /\ request \subseteq Irq
  /\ pie \in BOOLEAN /\ ienable \subseteq Irq
  /\ alt_irq_active \subseteq Irq /\ alt_priority_mask \subseteq Irq
  /\ handler \in [Irq -> Tag \cup {NULL}]
  /\ context \in [Irq -> Tag \cup {NULL}]
  /\ frame \in [0 .. NIRQ -> Frame]
  /\ depth \in 0 .. NIRQ

(* Handlers nest by urgency only: an interrupt is served on top of a less  *)
(* urgent one that has let it in (alt_legacy_irq.h:103-106), never on top  *)
(* of itself, through any sequence of registrations, maskings and loops of *)
(* the dispatcher.                                                         *)
NestedByUrgency ==
  \A c, d \in 1 .. depth :
    /\ c < d /\ frame[d].irq # NULL
    => frame[c].irq # NULL /\ frame[c].open /\ frame[d].irq < frame[c].irq

(* The handler called is never NULL and gets the context it was registered *)
(* with, although the two are stored one after the other and a second      *)
(* registration may replace them at any time (alt_iic_isr_register.c:84-99).*)
CalledWithOwnContext ==
  \A i \in Pending :
    pie \/ top.pc \in {"entered", "pending"} => handler[i] # NULL /\ context[i] = handler[i]

(* The first pass of the dispatcher finds an interrupt to serve: between   *)
(* the test at the entry (alt_irq_entry.S) and alt_irq_handler.c:128       *)
(* nobody disables or serves it, or the scan at 141-155 would not end.     *)
ScanEnds == top.pc = "entered" => Pending # {}

(* Whoever sets and clears bits, the hardware mask is the enabled          *)
(* interrupts less those held off by a running handler.                    *)
EnableAgrees ==
  top.pc # "ienable" => ienable = alt_irq_active \cap alt_priority_mask

(* The most urgent interrupt is served once it is requested and enabled,   *)
(* whatever other devices ask for (alt_irq_handler.c:121-128: latency).    *)
Waiting0 == 0 \in request \cap alt_irq_active
UrgentServed == Waiting0 ~> ~ Waiting0

-----------------------------------------------------------------------------
(* The inductive invariant behind NestedByUrgency, CalledWithOwnContext,   *)
(* ScanEnds and EnableAgrees, for NestedMasking = FALSE, in parts.         *)

CallPcs == {"serve", "context", "mask", "active", "ienable", "unmask", "leave"}
OwnPcs  == {"serve", "context", "leave"}   \* of alt_iic_isr_register alone

(* Where frame c can be, and what those below the top are: they have let   *)
(* interrupts in.                                                          *)
FrameOK(f, c) ==
  /\ f.call = NULL <=> f.pc \notin CallPcs
  /\ f.pc \in OwnPcs => f.call = "register"
  /\ f.call = "register" => (f.on <=> f.isr # NULL) /\ (f.isr = NULL => c = 0)
  /\ f.open => c > 0 /\ f.irq # NULL /\ f.pc = "run"
  /\ f.pc = "boot" => c = 0
  /\ c = 0 => f.pc \notin {"entered", "pending"} /\ f.irq = NULL
  /\ c > 0 => (f.irq = NULL <=> f.pc \in {"entered", "pending"})

LetsIn(f, c) ==
  /\ f.pc \in {"run", "mask"} /\ f.call # "register"
  /\ c > 0 => f.open

FrameInv ==
  /\ \A c \in 0 .. depth : FrameOK(frame[c], c)
  /\ \A c \in 0 .. depth - 1 : LetsIn(frame[c], c)

(* The interrupts frame c leaves enabled while it has let none in itself,  *)
(* and what this makes of the priority mask.                               *)
Below(c) == IF c <= 1 THEN Irq ELSE Above(frame[c - 1].irq)

LevelInv ==
  /\ \A c \in 1 .. depth : frame[c].open => frame[c].old = Below(c)
  /\ alt_priority_mask = IF top.open THEN Above(top.irq) ELSE Below(depth)
  /\ top.pc \in CallPcs => alt_priority_mask = Irq

(* PIE is set while the program is outside critical sections and while a   *)
(* handler has let interrupts in; what a call will restore is the same.    *)
PieInv ==
  /\ depth = 0 => (pie <=> top.pc = "run" \/ (top.pc = "mask" /\ top.call = "mask"))
  /\ depth > 0 => (pie <=> top.open)
  /\ top.call = "register" => (top.outer <=> depth = 0)
  /\ top.pc \in {"active", "ienable", "unmask"} =>
       (top.inner <=> depth = 0 /\ top.call = "mask")

(* The table and the masks part only where a registration is under way.    *)
Removing(i, pcs) ==
  top.call = "register" /\ top.id = i /\ ~ top.on /\ top.pc \in pcs

EnablesOwned(f) == f.call = "mask" /\ f.on => handler[f.id] # NULL

TableInv ==
  /\ \A c \in 0 .. depth : EnablesOwned(frame[c])
  /\ \A i \in Irq : context[i] = handler[i] \/ (top.pc = "context" /\ top.id = i)
  /\ top.call = "register" /\ top.pc # "serve" => handler[top.id] = top.isr
  /\ \A i \in alt_irq_active :
       handler[i] # NULL \/ Removing(i, {"context", "mask", "active"})
  /\ \A i \in ienable :
       handler[i] # NULL \/ Removing(i, {"context", "mask", "active", "ienable"})
  /\ top.pc = "boot" => alt_irq_active = {}

IInv ==
  /\ IrqTypeOK /\ FrameInv /\ LevelInv /\ PieInv /\ TableInv
  /\ NestedByUrgency /\ ScanEnds /\ EnableAgrees

-----------------------------------------------------------------------------
(* A statement of the sources that the code does not meet. *)

(* alt_legacy_irq.h:103-104: alt_irq_interruptible() "is used to allow     *)
(* higer priority interrupts to interrupt the current ISR."                *)
OnlyMoreUrgent ==
  \A d \in 1 .. depth - 1 : frame[d + 1].irq # NULL => frame[d + 1].irq < frame[d].irq

=============================================================================
