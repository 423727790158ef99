--------------------------- MODULE InterruptProofs ---------------------------
(***************************************************************************)
(* The interrupt layer's invariants, for any number of interrupts and any  *)
(* handlers, as long as no handler changes single interrupts while more    *)
(* urgent ones are let in (NestedMasking = FALSE; the run "preempted"      *)
(* shows why).                                                             *)
(***************************************************************************)
EXTENDS Interrupts, TLAPS

(* The fields of the topmost frame. *)
LEMMA TopFacts ==
  ASSUME IrqTypeOK
  PROVE  /\ top \in Frame /\ top = frame[depth]
         /\ top.pc \in {"boot", "run", "entered", "pending", "serve", "context", "mask",
                        "active", "ienable", "unmask", "leave"}
         /\ top.irq \in Irq \cup {NULL} /\ top.call \in {NULL, "register", "mask"}
         /\ top.id \in Irq /\ top.isr \in Tag \cup {NULL}
         /\ top.on \in BOOLEAN /\ top.outer \in BOOLEAN /\ top.inner \in BOOLEAN
         /\ top.open \in BOOLEAN /\ top.old \subseteq Irq
BY DEF IrqTypeOK, top, Frame

LEMMA IdleFrame == Idle \in Frame
BY InterruptAssumption DEF InterruptAssumption, Idle, Frame, Irq

(* A step that changes the topmost frame only. *)
LEMMA BecomesFacts ==
  ASSUME IrqTypeOK, NEW f \in Frame, Becomes(f)
  PROVE  /\ depth' = depth /\ depth \in 0 .. NIRQ /\ NIRQ \in Nat
         /\ frame' \in [0 .. NIRQ -> Frame] /\ top' = f
         /\ \A c \in 0 .. NIRQ : frame'[c] = IF c = depth THEN f ELSE frame[c]
BY InterruptAssumption DEF InterruptAssumption, IrqTypeOK, Becomes, top

LEMMA BecomesFrameInv ==
  ASSUME IrqTypeOK, FrameInv, NEW f \in Frame, Becomes(f), FrameOK(f, depth)
  PROVE  FrameInv'
<1>1. \A c \in 0 .. depth : FrameOK(frame[c], c)' = FrameOK(frame'[c], c)
  BY DEF FrameOK
<1>2. \A c \in 0 .. depth - 1 : LetsIn(frame[c], c)' = LetsIn(frame'[c], c)
  BY DEF LetsIn
<1> QED BY <1>1, <1>2, BecomesFacts DEF FrameInv

LEMMA BecomesNested ==
  ASSUME IrqTypeOK, NestedByUrgency, NEW f \in Frame, Becomes(f),
         f.open = top.open, f.irq = top.irq
  PROVE  NestedByUrgency'
BY BecomesFacts, TopFacts DEF NestedByUrgency

LEMMA BecomesLevel ==
  ASSUME IrqTypeOK, LevelInv, NEW f \in Frame, Becomes(f),
         f.open = top.open, f.irq = top.irq, f.open => f.old = top.old,
         f.pc \in CallPcs => alt_priority_mask = Irq,
         alt_priority_mask' = alt_priority_mask
  PROVE  LevelInv'
<1>1. \A c \in 0 .. depth : Below(c)' = Below(c)
  BY BecomesFacts DEF Below, Irq, Above
<1>2. alt_priority_mask' = IF f.open THEN Above(f.irq) ELSE Below(depth)'
  BY <1>1, BecomesFacts DEF LevelInv
<1>3. \A c \in 1 .. depth : frame'[c].open => frame'[c].old = Below(c)'
  BY <1>1, BecomesFacts, TopFacts DEF LevelInv
<1>4. top'.pc \in CallPcs => alt_priority_mask' = Irq
  BY BecomesFacts
<1>5. Irq' = Irq /\ (\A i : Above(i)' = Above(i)) /\ CallPcs' = CallPcs
  BY DEF Irq, Above, CallPcs
<1> QED BY <1>1, <1>2, <1>3, <1>4, <1>5, BecomesFacts DEF LevelInv, Above

LEMMA BecomesOwned ==
  ASSUME IrqTypeOK, TableInv, NEW f \in Frame, Becomes(f), EnablesOwned(f),
         handler' = handler
  PROVE  \A c \in 0 .. depth' : EnablesOwned(frame[c])'
BY BecomesFacts DEF TableInv, EnablesOwned

(* The steps of a call. *)
LEMMA InitStep ==
  ASSUME ~ NestedMasking, IInv, alt_irq_init
  PROVE  IInv'
<1> DEFINE f == Idle
<1>1. IrqTypeOK /\ FrameInv /\ LevelInv /\ PieInv /\ TableInv
      /\ NestedByUrgency /\ ScanEnds /\ EnableAgrees
  BY DEF IInv
<1>2. /\ f \in Frame
      /\ f.pc = "run" /\ f.irq = NULL /\ f.call = NULL /\ f.id = 0
      /\ f.isr = NULL /\ (f.on <=> FALSE) /\ f.outer = FALSE /\ f.inner = FALSE
      /\ f.open = FALSE /\ f.old = {}
  BY <1>1, TopFacts, IdleFrame DEF Frame, Idle
<1> HIDE DEF f
<1>3. Becomes(f) /\ (\A d \in 0 .. NIRQ : d = depth => f = top')
  BY <1>1, <1>2, BecomesFacts DEF alt_irq_init, f
<1>4. FrameOK(top, depth)
  BY <1>1, TopFacts DEF FrameInv, IrqTypeOK
<1>5. FrameOK(f, depth)
  BY <1>1, <1>2, <1>4, TopFacts DEF alt_irq_init, FrameOK, CallPcs, OwnPcs, IrqTypeOK
<1>6. FrameInv'
  BY <1>1, <1>2, <1>3, <1>5, BecomesFrameInv
<1>7. f.pc \in CallPcs => alt_priority_mask = Irq
  BY <1>1, <1>2, TopFacts DEF alt_irq_init, MayMask, LevelInv, CallPcs
<1>8. NestedByUrgency' /\ LevelInv'
  BY <1>1, <1>2, <1>3, <1>4, <1>7, TopFacts, BecomesNested, BecomesLevel DEF alt_irq_init, masks, FrameOK
<1>9. IrqTypeOK'
  BY <1>1, <1>2, <1>3, BecomesFacts, TopFacts
  DEF IrqTypeOK, alt_irq_init, DisableAll, EnableAll, registers, masks, table, Irq
<1>10. top' = f /\ depth' = depth
  BY <1>1, <1>2, <1>3, BecomesFacts
<1>11. PieInv'
  BY <1>1, <1>2, <1>4, <1>7, <1>10, TopFacts, InterruptAssumption
  DEF InterruptAssumption, PieInv, alt_irq_init, FrameOK, DisableAll, EnableAll, registers, CallPcs, OwnPcs
<1>b. EnablesOwned(top)
  BY <1>1, TopFacts DEF TableInv, IrqTypeOK
<1>12. \A c \in 0 .. depth' : EnablesOwned(frame[c])'
  <2>1. EnablesOwned(f)
    BY <1>1, <1>2, <1>b DEF EnablesOwned, alt_irq_init
  <2> QED BY <1>1, <1>2, <1>3, <2>1, BecomesOwned DEF alt_irq_init, table
<1>13. TableInv'
  BY <1>1, <1>2, <1>4, <1>b, <1>10, <1>12, TopFacts, InterruptAssumption
  DEF InterruptAssumption, TableInv, Removing, EnablesOwned, alt_irq_init, table, masks, registers, FrameOK, CallPcs, OwnPcs, IrqTypeOK
<1>14. ScanEnds' /\ EnableAgrees'
  BY <1>1, <1>2, <1>7, <1>10, TopFacts
  DEF ScanEnds, EnableAgrees, alt_irq_init, TableInv, masks, registers, CallPcs, IrqTypeOK, Irq
<1> QED BY <1>6, <1>8, <1>9, <1>11, <1>13, <1>14 DEF IInv

LEMMA RegisterCallStep ==
  ASSUME ~ NestedMasking, IInv, NEW i \in Irq, NEW isr \in Tag \cup {NULL}, RegisterCall(i, isr)
  PROVE  IInv'
<1> DEFINE f == [top EXCEPT !.pc = "serve", !.call = "register", !.id = i, !.isr = isr,
                           !.on = (isr # NULL), !.outer = pie]
<1>1. IrqTypeOK /\ FrameInv /\ LevelInv /\ PieInv /\ TableInv
      /\ NestedByUrgency /\ ScanEnds /\ EnableAgrees
  BY DEF IInv
<1>2. /\ f \in Frame
      /\ f.pc = "serve" /\ f.irq = top.irq /\ f.call = "register" /\ f.id = i
      /\ f.isr = isr /\ (f.on <=> isr # NULL) /\ f.outer = pie /\ f.inner = top.inner
      /\ f.open = top.open /\ f.old = top.old
  <2>1. top \in Frame /\ pie \in BOOLEAN
    BY <1>1, TopFacts DEF IrqTypeOK
  <2>2. f.outer = pie /\ (f.on <=> isr # NULL)
    BY <2>1 DEF Frame
  <2>3. f \in Frame
    BY <2>1 DEF Frame
  <2> QED BY <2>1, <2>2, <2>3 DEF Frame
<1> HIDE DEF f
<1>3. Becomes(f) /\ (\A d \in 0 .. NIRQ : d = depth => f = top')
  BY <1>1, <1>2, BecomesFacts DEF RegisterCall, f
<1>4. FrameOK(top, depth)
  BY <1>1, TopFacts DEF FrameInv, IrqTypeOK
<1>a. ~ top.open
  BY <1>1, <1>4, TopFacts, InterruptAssumption
  DEF InterruptAssumption, RegisterCall, MayMask, LevelInv, Above, Irq, FrameOK
<1>5. FrameOK(f, depth)
  BY <1>1, <1>2, <1>4, <1>a, TopFacts, InterruptAssumption DEF InterruptAssumption, RegisterCall, FrameOK, CallPcs, OwnPcs, IrqTypeOK
<1>6. FrameInv'
  BY <1>1, <1>2, <1>3, <1>5, BecomesFrameInv
<1>7. f.pc \in CallPcs => alt_priority_mask = Irq
  BY <1>1, <1>2, TopFacts DEF RegisterCall, MayMask, LevelInv, CallPcs
<1>8. NestedByUrgency' /\ LevelInv'
  BY <1>1, <1>2, <1>3, <1>7, BecomesNested, BecomesLevel DEF RegisterCall, masks
<1>9. IrqTypeOK'
  BY <1>1, <1>2, <1>3, BecomesFacts, TopFacts
  DEF IrqTypeOK, RegisterCall, DisableAll, EnableAll, registers, masks, table, Irq
<1>10. top' = f /\ depth' = depth
  BY <1>1, <1>2, <1>3, BecomesFacts
<1>11. PieInv'
  <2>1. top.pc = "run" /\ pie' = FALSE
    BY DEF RegisterCall, DisableAll
  <2>2. (pie <=> depth = 0) /\ pie \in BOOLEAN
    BY <1>1, <1>a, <2>1, BecomesFacts, <1>2, <1>3 DEF PieInv, IrqTypeOK
  <2>3. f.outer <=> depth = 0
    BY <1>2, <2>2
  <2> QED BY <1>2, <1>10, <1>a, <2>1, <2>3 DEF PieInv
<1>b. EnablesOwned(top)
  BY <1>1, TopFacts DEF TableInv, IrqTypeOK
<1>12. \A c \in 0 .. depth' : EnablesOwned(frame[c])'
  <2>1. EnablesOwned(f)
    BY <1>1, <1>2, <1>b DEF EnablesOwned, RegisterCall
  <2> QED BY <1>1, <1>2, <1>3, <2>1, BecomesOwned DEF RegisterCall, table
<1>13. TableInv'
  BY <1>1, <1>2, <1>4, <1>b, <1>10, <1>12, TopFacts
  DEF TableInv, Removing, EnablesOwned, RegisterCall, table, masks, registers, FrameOK, CallPcs, OwnPcs, IrqTypeOK
<1>14. ScanEnds' /\ EnableAgrees'
  BY <1>1, <1>2, <1>7, <1>10, TopFacts
  DEF ScanEnds, EnableAgrees, RegisterCall, masks, registers, CallPcs, IrqTypeOK, Irq
<1> QED BY <1>6, <1>8, <1>9, <1>11, <1>13, <1>14 DEF IInv

LEMMA RegisterHandlerStep ==
  ASSUME ~ NestedMasking, IInv, RegisterHandler
  PROVE  IInv'
<1> DEFINE f == [top EXCEPT !.pc = "context"]
<1>1. IrqTypeOK /\ FrameInv /\ LevelInv /\ PieInv /\ TableInv
      /\ NestedByUrgency /\ ScanEnds /\ EnableAgrees
  BY DEF IInv
<1>2. /\ f \in Frame
      /\ f.pc = "context" /\ f.irq = top.irq /\ f.call = top.call /\ f.id = top.id
      /\ f.isr = top.isr /\ (f.on <=> top.on) /\ f.outer = top.outer /\ f.inner = top.inner
      /\ f.open = top.open /\ f.old = top.old
  BY <1>1, TopFacts, IdleFrame DEF Frame, Idle
<1> HIDE DEF f
<1>3. Becomes(f) /\ (\A d \in 0 .. NIRQ : d = depth => f = top')
  BY <1>1, <1>2, BecomesFacts DEF RegisterHandler, f
<1>4. FrameOK(top, depth)
  BY <1>1, TopFacts DEF FrameInv, IrqTypeOK
<1>5. FrameOK(f, depth)
  BY <1>1, <1>2, <1>4, TopFacts DEF RegisterHandler, FrameOK, CallPcs, OwnPcs, IrqTypeOK
<1>6. FrameInv'
  BY <1>1, <1>2, <1>3, <1>5, BecomesFrameInv
<1>7. f.pc \in CallPcs => alt_priority_mask = Irq
  BY <1>1, <1>2, TopFacts DEF RegisterHandler, MayMask, LevelInv, CallPcs
<1>8. NestedByUrgency' /\ LevelInv'
  BY <1>1, <1>2, <1>3, <1>7, BecomesNested, BecomesLevel DEF RegisterHandler, masks
<1>9. IrqTypeOK'
  BY <1>1, <1>2, <1>3, BecomesFacts, TopFacts
  DEF IrqTypeOK, RegisterHandler, DisableAll, EnableAll, registers, masks, table, Irq
<1>10. top' = f /\ depth' = depth
  BY <1>1, <1>2, <1>3, BecomesFacts
<1>11. PieInv'
  BY <1>1, <1>2, <1>4, <1>7, <1>10, TopFacts
  DEF PieInv, RegisterHandler, FrameOK, DisableAll, EnableAll, registers, CallPcs, OwnPcs
<1>b. EnablesOwned(top)
  BY <1>1, TopFacts DEF TableInv, IrqTypeOK
<1>12. \A c \in 0 .. depth' : EnablesOwned(frame[c])'
  <2>1. top.isr = NULL => depth = 0
    BY <1>4 DEF RegisterHandler, FrameOK, OwnPcs
  <2>2. handler' = [handler EXCEPT ![top.id] = top.isr]
    BY DEF RegisterHandler
  <2>3. f.call = "register"
    BY <1>2, <1>4 DEF RegisterHandler, FrameOK, OwnPcs
  <2> SUFFICES ASSUME NEW c \in 0 .. depth', frame'[c].call = "mask", frame'[c].on
               PROVE  handler'[frame'[c].id] # NULL
    BY DEF EnablesOwned
  <2>4. c \in 0 .. depth - 1 /\ frame'[c] = frame[c] /\ frame[c] \in Frame /\ top.isr # NULL
    BY <1>1, <1>2, <1>3, <2>1, <2>3, BecomesFacts DEF IrqTypeOK
  <2>5. handler[frame[c].id] # NULL
    BY <1>1, <2>4, BecomesFacts, <1>3, <1>2 DEF TableInv, EnablesOwned, IrqTypeOK
  <2> QED BY <1>1, <2>2, <2>4, <2>5, TopFacts DEF Frame, IrqTypeOK
<1>13. TableInv'
  BY <1>1, <1>2, <1>4, <1>b, <1>10, <1>12, TopFacts
  DEF TableInv, Removing, EnablesOwned, RegisterHandler, table, masks, registers, FrameOK, CallPcs, OwnPcs, IrqTypeOK
<1>14. ScanEnds' /\ EnableAgrees'
  BY <1>1, <1>2, <1>7, <1>10, TopFacts
  DEF ScanEnds, EnableAgrees, RegisterHandler, masks, registers, CallPcs, IrqTypeOK, Irq
<1> QED BY <1>6, <1>8, <1>9, <1>11, <1>13, <1>14 DEF IInv

LEMMA RegisterContextStep ==
  ASSUME ~ NestedMasking, IInv, RegisterContext
  PROVE  IInv'
<1> DEFINE f == [top EXCEPT !.pc = "mask"]
<1>1. IrqTypeOK /\ FrameInv /\ LevelInv /\ PieInv /\ TableInv
      /\ NestedByUrgency /\ ScanEnds /\ EnableAgrees
  BY DEF IInv
<1>2. /\ f \in Frame
      /\ f.pc = "mask" /\ f.irq = top.irq /\ f.call = top.call /\ f.id = top.id
      /\ f.isr = top.isr /\ (f.on <=> top.on) /\ f.outer = top.outer /\ f.inner = top.inner
      /\ f.open = top.open /\ f.old = top.old
  BY <1>1, TopFacts, IdleFrame DEF Frame, Idle
<1> HIDE DEF f
<1>3. Becomes(f) /\ (\A d \in 0 .. NIRQ : d = depth => f = top')
  BY <1>1, <1>2, BecomesFacts DEF RegisterContext, f
<1>4. FrameOK(top, depth)
  BY <1>1, TopFacts DEF FrameInv, IrqTypeOK
<1>5. FrameOK(f, depth)
  BY <1>1, <1>2, <1>4, TopFacts DEF RegisterContext, FrameOK, CallPcs, OwnPcs, IrqTypeOK
<1>6. FrameInv'
  BY <1>1, <1>2, <1>3, <1>5, BecomesFrameInv
<1>7. f.pc \in CallPcs => alt_priority_mask = Irq
  BY <1>1, <1>2, TopFacts DEF RegisterContext, MayMask, LevelInv, CallPcs
<1>8. NestedByUrgency' /\ LevelInv'
  BY <1>1, <1>2, <1>3, <1>7, BecomesNested, BecomesLevel DEF RegisterContext, masks
<1>9. IrqTypeOK'
  BY <1>1, <1>2, <1>3, BecomesFacts, TopFacts
  DEF IrqTypeOK, RegisterContext, DisableAll, EnableAll, registers, masks, table, Irq
<1>10. top' = f /\ depth' = depth
  BY <1>1, <1>2, <1>3, BecomesFacts
<1>11. PieInv'
  BY <1>1, <1>2, <1>4, <1>7, <1>10, TopFacts
  DEF PieInv, RegisterContext, FrameOK, DisableAll, EnableAll, registers, CallPcs, OwnPcs
<1>b. EnablesOwned(top)
  BY <1>1, TopFacts DEF TableInv, IrqTypeOK
<1>12. \A c \in 0 .. depth' : EnablesOwned(frame[c])'
  <2>1. EnablesOwned(f)
    BY <1>1, <1>2, <1>b DEF EnablesOwned, RegisterContext
  <2> QED BY <1>1, <1>2, <1>3, <2>1, BecomesOwned DEF RegisterContext, table
<1>13. TableInv'
  BY <1>1, <1>2, <1>4, <1>b, <1>10, <1>12, TopFacts
  DEF TableInv, Removing, EnablesOwned, RegisterContext, table, masks, registers, FrameOK, CallPcs, OwnPcs, IrqTypeOK
<1>14. ScanEnds' /\ EnableAgrees'
  BY <1>1, <1>2, <1>7, <1>10, TopFacts
  DEF ScanEnds, EnableAgrees, RegisterContext, masks, registers, CallPcs, IrqTypeOK, Irq
<1> QED BY <1>6, <1>8, <1>9, <1>11, <1>13, <1>14 DEF IInv

LEMMA RegisterReturnStep ==
  ASSUME ~ NestedMasking, IInv, RegisterReturn
  PROVE  IInv'
<1> DEFINE f == [Idle EXCEPT !.irq = top.irq, !.open = top.open, !.old = top.old]
<1>1. IrqTypeOK /\ FrameInv /\ LevelInv /\ PieInv /\ TableInv
      /\ NestedByUrgency /\ ScanEnds /\ EnableAgrees
  BY DEF IInv
<1>2. /\ f \in Frame
      /\ f.pc = "run" /\ f.irq = top.irq /\ f.call = NULL /\ f.id = 0
      /\ f.isr = NULL /\ (f.on <=> FALSE) /\ f.outer = FALSE /\ f.inner = FALSE
      /\ f.open = top.open /\ f.old = top.old
  BY <1>1, TopFacts, IdleFrame DEF Frame, Idle
<1> HIDE DEF f
<1>3. Becomes(f) /\ (\A d \in 0 .. NIRQ : d = depth => f = top')
  BY <1>1, <1>2, BecomesFacts DEF RegisterReturn, f
<1>4. FrameOK(top, depth)
  BY <1>1, TopFacts DEF FrameInv, IrqTypeOK
<1>5. FrameOK(f, depth)
  BY <1>1, <1>2, <1>4, TopFacts DEF RegisterReturn, FrameOK, CallPcs, OwnPcs, IrqTypeOK
<1>6. FrameInv'
  BY <1>1, <1>2, <1>3, <1>5, BecomesFrameInv
<1>7. f.pc \in CallPcs => alt_priority_mask = Irq
  BY <1>1, <1>2, TopFacts DEF RegisterReturn, MayMask, LevelInv, CallPcs
<1>8. NestedByUrgency' /\ LevelInv'
  BY <1>1, <1>2, <1>3, <1>7, BecomesNested, BecomesLevel DEF RegisterReturn, masks
<1>9. IrqTypeOK'
  BY <1>1, <1>2, <1>3, BecomesFacts, TopFacts
  DEF IrqTypeOK, RegisterReturn, DisableAll, EnableAll, registers, masks, table, Irq
<1>10. top' = f /\ depth' = depth
  BY <1>1, <1>2, <1>3, BecomesFacts
<1>11. PieInv'
  BY <1>1, <1>2, <1>4, <1>7, <1>10, TopFacts
  DEF PieInv, RegisterReturn, FrameOK, DisableAll, EnableAll, registers, CallPcs, OwnPcs
<1>b. EnablesOwned(top)
  BY <1>1, TopFacts DEF TableInv, IrqTypeOK
<1>12. \A c \in 0 .. depth' : EnablesOwned(frame[c])'
  <2>1. EnablesOwned(f)
    BY <1>1, <1>2, <1>b DEF EnablesOwned, RegisterReturn
  <2> QED BY <1>1, <1>2, <1>3, <2>1, BecomesOwned DEF RegisterReturn, table
<1>13. TableInv'
  BY <1>1, <1>2, <1>4, <1>b, <1>10, <1>12, TopFacts
  DEF TableInv, Removing, EnablesOwned, RegisterReturn, table, masks, registers, FrameOK, CallPcs, OwnPcs, IrqTypeOK
<1>14. ScanEnds' /\ EnableAgrees'
  BY <1>1, <1>2, <1>7, <1>10, TopFacts
  DEF ScanEnds, EnableAgrees, RegisterReturn, masks, registers, CallPcs, IrqTypeOK, Irq
<1> QED BY <1>6, <1>8, <1>9, <1>11, <1>13, <1>14 DEF IInv

LEMMA MaskCallStep ==
  ASSUME ~ NestedMasking, IInv, NEW i \in Irq, NEW on \in BOOLEAN, MaskCall(i, on)
  PROVE  IInv'
<1> DEFINE f == [top EXCEPT !.pc = "mask", !.call = "mask", !.id = i, !.on = on]
<1>1. IrqTypeOK /\ FrameInv /\ LevelInv /\ PieInv /\ TableInv
      /\ NestedByUrgency /\ ScanEnds /\ EnableAgrees
  BY DEF IInv
<1>2. /\ f \in Frame
      /\ f.pc = "mask" /\ f.irq = top.irq /\ f.call = "mask" /\ f.id = i
      /\ f.isr = top.isr /\ (f.on <=> on) /\ f.outer = top.outer /\ f.inner = top.inner
      /\ f.open = top.open /\ f.old = top.old
  BY <1>1, TopFacts, IdleFrame DEF Frame, Idle, MaskCall
<1> HIDE DEF f
<1>3. Becomes(f) /\ (\A d \in 0 .. NIRQ : d = depth => f = top')
  BY <1>1, <1>2, BecomesFacts DEF MaskCall, f
<1>4. FrameOK(top, depth)
  BY <1>1, TopFacts DEF FrameInv, IrqTypeOK
<1>a. ~ top.open
  BY <1>1, <1>4, TopFacts, InterruptAssumption
  DEF InterruptAssumption, MaskCall, MayMask, LevelInv, Above, Irq, FrameOK
<1>5. FrameOK(f, depth)
  BY <1>1, <1>2, <1>4, <1>a, TopFacts, InterruptAssumption DEF InterruptAssumption, MaskCall, FrameOK, CallPcs, OwnPcs, IrqTypeOK
<1>6. FrameInv'
  BY <1>1, <1>2, <1>3, <1>5, BecomesFrameInv
<1>7. f.pc \in CallPcs => alt_priority_mask = Irq
  BY <1>1, <1>2, TopFacts DEF MaskCall, MayMask, LevelInv, CallPcs
<1>8. NestedByUrgency' /\ LevelInv'
  BY <1>1, <1>2, <1>3, <1>7, BecomesNested, BecomesLevel DEF MaskCall, masks
<1>9. IrqTypeOK'
  BY <1>1, <1>2, <1>3, BecomesFacts, TopFacts
  DEF IrqTypeOK, MaskCall, DisableAll, EnableAll, registers, masks, table, Irq
<1>10. top' = f /\ depth' = depth
  BY <1>1, <1>2, <1>3, BecomesFacts
<1>11. PieInv'
  BY <1>1, <1>2, <1>4, <1>a, <1>7, <1>10, TopFacts
  DEF PieInv, MaskCall, FrameOK, DisableAll, EnableAll, registers, CallPcs, OwnPcs
<1>b. EnablesOwned(top)
  BY <1>1, TopFacts DEF TableInv, IrqTypeOK
<1>12. \A c \in 0 .. depth' : EnablesOwned(frame[c])'
  <2>1. EnablesOwned(f)
    BY <1>1, <1>2, <1>b DEF EnablesOwned, MaskCall
  <2> QED BY <1>1, <1>2, <1>3, <2>1, BecomesOwned DEF MaskCall, table
<1>13. TableInv'
  BY <1>1, <1>2, <1>4, <1>b, <1>10, <1>12, TopFacts
  DEF TableInv, Removing, EnablesOwned, MaskCall, table, masks, registers, FrameOK, CallPcs, OwnPcs, IrqTypeOK
<1>14. ScanEnds' /\ EnableAgrees'
  BY <1>1, <1>2, <1>7, <1>10, TopFacts
  DEF ScanEnds, EnableAgrees, MaskCall, masks, registers, CallPcs, IrqTypeOK, Irq
<1> QED BY <1>6, <1>8, <1>9, <1>11, <1>13, <1>14 DEF IInv

LEMMA MaskEnterStep ==
  ASSUME ~ NestedMasking, IInv, MaskEnter
  PROVE  IInv'
<1> DEFINE f == [top EXCEPT !.pc = "active", !.inner = pie]
<1>1. IrqTypeOK /\ FrameInv /\ LevelInv /\ PieInv /\ TableInv
      /\ NestedByUrgency /\ ScanEnds /\ EnableAgrees
  BY DEF IInv
<1>2. /\ f \in Frame
      /\ f.pc = "active" /\ f.irq = top.irq /\ f.call = top.call /\ f.id = top.id
      /\ f.isr = top.isr /\ (f.on <=> top.on) /\ f.outer = top.outer /\ (f.inner <=> pie)
      /\ f.open = top.open /\ f.old = top.old
  BY <1>1, TopFacts, IdleFrame DEF Frame, Idle, IrqTypeOK
<1> HIDE DEF f
<1>3. Becomes(f) /\ (\A d \in 0 .. NIRQ : d = depth => f = top')
  BY <1>1, <1>2, BecomesFacts DEF MaskEnter, f
<1>4. FrameOK(top, depth)
  BY <1>1, TopFacts DEF FrameInv, IrqTypeOK
<1>5. FrameOK(f, depth)
  BY <1>1, <1>2, <1>4, TopFacts DEF MaskEnter, FrameOK, CallPcs, OwnPcs, IrqTypeOK
<1>6. FrameInv'
  BY <1>1, <1>2, <1>3, <1>5, BecomesFrameInv
<1>7. f.pc \in CallPcs => alt_priority_mask = Irq
  BY <1>1, <1>2, TopFacts DEF MaskEnter, MayMask, LevelInv, CallPcs
<1>8. NestedByUrgency' /\ LevelInv'
  BY <1>1, <1>2, <1>3, <1>7, BecomesNested, BecomesLevel DEF MaskEnter, masks
<1>9. IrqTypeOK'
  BY <1>1, <1>2, <1>3, BecomesFacts, TopFacts
  DEF IrqTypeOK, MaskEnter, DisableAll, EnableAll, registers, masks, table, Irq
<1>10. top' = f /\ depth' = depth
  BY <1>1, <1>2, <1>3, BecomesFacts
<1>11. PieInv'
  <2>1. top.pc = "mask" /\ pie' = FALSE
    BY DEF MaskEnter, DisableAll
  <2>2. (pie <=> depth = 0 /\ top.call = "mask") /\ ~ top.open
    BY <1>1, <1>4, <2>1, TopFacts DEF PieInv, IrqTypeOK, FrameOK
  <2>3. f.inner <=> depth = 0 /\ top.call = "mask"
    BY <1>2, <2>2
  <2> QED BY <1>1, <1>2, <1>10, <2>1, <2>2, <2>3 DEF PieInv
<1>b. EnablesOwned(top)
  BY <1>1, TopFacts DEF TableInv, IrqTypeOK
<1>12. \A c \in 0 .. depth' : EnablesOwned(frame[c])'
  <2>1. EnablesOwned(f)
    BY <1>1, <1>2, <1>b DEF EnablesOwned, MaskEnter
  <2> QED BY <1>1, <1>2, <1>3, <2>1, BecomesOwned DEF MaskEnter, table
<1>13. TableInv'
  BY <1>1, <1>2, <1>4, <1>b, <1>10, <1>12, TopFacts
  DEF TableInv, Removing, EnablesOwned, MaskEnter, table, masks, registers, FrameOK, CallPcs, OwnPcs, IrqTypeOK
<1>14. ScanEnds' /\ EnableAgrees'
  BY <1>1, <1>2, <1>7, <1>10, TopFacts
  DEF ScanEnds, EnableAgrees, MaskEnter, masks, registers, CallPcs, IrqTypeOK, Irq
<1> QED BY <1>6, <1>8, <1>9, <1>11, <1>13, <1>14 DEF IInv

LEMMA MaskActiveStep ==
  ASSUME ~ NestedMasking, IInv, MaskActive
  PROVE  IInv'
<1> DEFINE f == [top EXCEPT !.pc = "ienable"]
<1>1. IrqTypeOK /\ FrameInv /\ LevelInv /\ PieInv /\ TableInv
      /\ NestedByUrgency /\ ScanEnds /\ EnableAgrees
  BY DEF IInv
<1>2. /\ f \in Frame
      /\ f.pc = "ienable" /\ f.irq = top.irq /\ f.call = top.call /\ f.id = top.id
      /\ f.isr = top.isr /\ (f.on <=> top.on) /\ f.outer = top.outer /\ f.inner = top.inner
      /\ f.open = top.open /\ f.old = top.old
  BY <1>1, TopFacts, IdleFrame DEF Frame, Idle
<1> HIDE DEF f
<1>3. Becomes(f) /\ (\A d \in 0 .. NIRQ : d = depth => f = top')
  BY <1>1, <1>2, BecomesFacts DEF MaskActive, f
<1>4. FrameOK(top, depth)
  BY <1>1, TopFacts DEF FrameInv, IrqTypeOK
<1>5. FrameOK(f, depth)
  BY <1>1, <1>2, <1>4, TopFacts DEF MaskActive, FrameOK, CallPcs, OwnPcs, IrqTypeOK
<1>6. FrameInv'
  BY <1>1, <1>2, <1>3, <1>5, BecomesFrameInv
<1>7. f.pc \in CallPcs => alt_priority_mask = Irq
  BY <1>1, <1>2, TopFacts DEF MaskActive, MayMask, LevelInv, CallPcs
<1>8. NestedByUrgency' /\ LevelInv'
  BY <1>1, <1>2, <1>3, <1>7, BecomesNested, BecomesLevel DEF MaskActive, masks
<1>9. IrqTypeOK'
  BY <1>1, <1>2, <1>3, BecomesFacts, TopFacts
  DEF IrqTypeOK, MaskActive, DisableAll, EnableAll, registers, masks, table, Irq
<1>10. top' = f /\ depth' = depth
  BY <1>1, <1>2, <1>3, BecomesFacts
<1>11. PieInv'
  BY <1>1, <1>2, <1>4, <1>7, <1>10, TopFacts
  DEF PieInv, MaskActive, FrameOK, DisableAll, EnableAll, registers, CallPcs, OwnPcs
<1>b. EnablesOwned(top)
  BY <1>1, TopFacts DEF TableInv, IrqTypeOK
<1>12. \A c \in 0 .. depth' : EnablesOwned(frame[c])'
  <2>1. EnablesOwned(f)
    BY <1>1, <1>2, <1>b DEF EnablesOwned, MaskActive
  <2> QED BY <1>1, <1>2, <1>3, <2>1, BecomesOwned DEF MaskActive, table
<1>13. TableInv'
  BY <1>1, <1>2, <1>4, <1>b, <1>10, <1>12, TopFacts
  DEF TableInv, Removing, EnablesOwned, MaskActive, table, masks, registers, FrameOK, CallPcs, OwnPcs, IrqTypeOK
<1>14. ScanEnds' /\ EnableAgrees'
  BY <1>1, <1>2, <1>7, <1>10, TopFacts
  DEF ScanEnds, EnableAgrees, MaskActive, masks, registers, CallPcs, IrqTypeOK, Irq
<1> QED BY <1>6, <1>8, <1>9, <1>11, <1>13, <1>14 DEF IInv

LEMMA MaskWriteStep ==
  ASSUME ~ NestedMasking, IInv, MaskWrite
  PROVE  IInv'
<1> DEFINE f == [top EXCEPT !.pc = "unmask"]
<1>1. IrqTypeOK /\ FrameInv /\ LevelInv /\ PieInv /\ TableInv
      /\ NestedByUrgency /\ ScanEnds /\ EnableAgrees
  BY DEF IInv
<1>2. /\ f \in Frame
      /\ f.pc = "unmask" /\ f.irq = top.irq /\ f.call = top.call /\ f.id = top.id
      /\ f.isr = top.isr /\ (f.on <=> top.on) /\ f.outer = top.outer /\ f.inner = top.inner
      /\ f.open = top.open /\ f.old = top.old
  BY <1>1, TopFacts, IdleFrame DEF Frame, Idle
<1> HIDE DEF f
<1>3. Becomes(f) /\ (\A d \in 0 .. NIRQ : d = depth => f = top')
  BY <1>1, <1>2, BecomesFacts DEF MaskWrite, f
<1>4. FrameOK(top, depth)
  BY <1>1, TopFacts DEF FrameInv, IrqTypeOK
<1>5. FrameOK(f, depth)
  BY <1>1, <1>2, <1>4, TopFacts DEF MaskWrite, FrameOK, CallPcs, OwnPcs, IrqTypeOK
<1>6. FrameInv'
  BY <1>1, <1>2, <1>3, <1>5, BecomesFrameInv
<1>7. f.pc \in CallPcs => alt_priority_mask = Irq
  BY <1>1, <1>2, TopFacts DEF MaskWrite, MayMask, LevelInv, CallPcs
<1>8. NestedByUrgency' /\ LevelInv'
  BY <1>1, <1>2, <1>3, <1>7, BecomesNested, BecomesLevel DEF MaskWrite, masks
<1>9. IrqTypeOK'
  BY <1>1, <1>2, <1>3, BecomesFacts, TopFacts
  DEF IrqTypeOK, MaskWrite, DisableAll, EnableAll, registers, masks, table, Irq
<1>10. top' = f /\ depth' = depth
  BY <1>1, <1>2, <1>3, BecomesFacts
<1>11. PieInv'
  BY <1>1, <1>2, <1>4, <1>7, <1>10, TopFacts
  DEF PieInv, MaskWrite, FrameOK, DisableAll, EnableAll, registers, CallPcs, OwnPcs
<1>b. EnablesOwned(top)
  BY <1>1, TopFacts DEF TableInv, IrqTypeOK
<1>12. \A c \in 0 .. depth' : EnablesOwned(frame[c])'
  <2>1. EnablesOwned(f)
    BY <1>1, <1>2, <1>b DEF EnablesOwned, MaskWrite
  <2> QED BY <1>1, <1>2, <1>3, <2>1, BecomesOwned DEF MaskWrite, table
<1>13. TableInv'
  BY <1>1, <1>2, <1>4, <1>b, <1>10, <1>12, TopFacts
  DEF TableInv, Removing, EnablesOwned, MaskWrite, table, masks, registers, FrameOK, CallPcs, OwnPcs, IrqTypeOK
<1>14. ScanEnds' /\ EnableAgrees'
  BY <1>1, <1>2, <1>7, <1>10, TopFacts
  DEF ScanEnds, EnableAgrees, MaskWrite, masks, registers, CallPcs, IrqTypeOK, Irq
<1> QED BY <1>6, <1>8, <1>9, <1>11, <1>13, <1>14 DEF IInv

LEMMA MaskReturnToRegister ==
  ASSUME ~ NestedMasking, IInv, MaskReturn, top.call = "register"
  PROVE  IInv'
<1> DEFINE f == [top EXCEPT !.pc = "leave"]
<1>1. IrqTypeOK /\ FrameInv /\ LevelInv /\ PieInv /\ TableInv
      /\ NestedByUrgency /\ ScanEnds /\ EnableAgrees
  BY DEF IInv
<1>2. /\ f \in Frame
      /\ f.pc = "leave" /\ f.irq = top.irq /\ f.call = top.call /\ f.id = top.id
      /\ f.isr = top.isr /\ (f.on <=> top.on) /\ f.outer = top.outer /\ f.inner = top.inner
      /\ f.open = top.open /\ f.old = top.old
  BY <1>1, TopFacts, IdleFrame DEF Frame, Idle
<1> HIDE DEF f
<1>3. Becomes(f) /\ (\A d \in 0 .. NIRQ : d = depth => f = top')
  BY <1>1, <1>2, BecomesFacts DEF MaskReturn, f
<1>4. FrameOK(top, depth)
  BY <1>1, TopFacts DEF FrameInv, IrqTypeOK
<1>5. FrameOK(f, depth)
  BY <1>1, <1>2, <1>4, TopFacts DEF MaskReturn, FrameOK, CallPcs, OwnPcs, IrqTypeOK
<1>6. FrameInv'
  BY <1>1, <1>2, <1>3, <1>5, BecomesFrameInv
<1>7. f.pc \in CallPcs => alt_priority_mask = Irq
  BY <1>1, <1>2, TopFacts DEF MaskReturn, MayMask, LevelInv, CallPcs
<1>8. NestedByUrgency' /\ LevelInv'
  BY <1>1, <1>2, <1>3, <1>7, BecomesNested, BecomesLevel DEF MaskReturn, masks
<1>9. IrqTypeOK'
  BY <1>1, <1>2, <1>3, BecomesFacts, TopFacts
  DEF IrqTypeOK, MaskReturn, DisableAll, EnableAll, registers, masks, table, Irq
<1>10. top' = f /\ depth' = depth
  BY <1>1, <1>2, <1>3, BecomesFacts
<1>11. PieInv'
  BY <1>1, <1>2, <1>4, <1>7, <1>10, TopFacts
  DEF PieInv, MaskReturn, FrameOK, DisableAll, EnableAll, registers, CallPcs, OwnPcs
<1>b. EnablesOwned(top)
  BY <1>1, TopFacts DEF TableInv, IrqTypeOK
<1>12. \A c \in 0 .. depth' : EnablesOwned(frame[c])'
  <2>1. EnablesOwned(f)
    BY <1>1, <1>2, <1>b DEF EnablesOwned, MaskReturn
  <2> QED BY <1>1, <1>2, <1>3, <2>1, BecomesOwned DEF MaskReturn, table
<1>13. TableInv'
  BY <1>1, <1>2, <1>4, <1>b, <1>10, <1>12, TopFacts
  DEF TableInv, Removing, EnablesOwned, MaskReturn, table, masks, registers, FrameOK, CallPcs, OwnPcs, IrqTypeOK
<1>14. ScanEnds' /\ EnableAgrees'
  BY <1>1, <1>2, <1>7, <1>10, TopFacts
  DEF ScanEnds, EnableAgrees, MaskReturn, masks, registers, CallPcs, IrqTypeOK, Irq
<1> QED BY <1>6, <1>8, <1>9, <1>11, <1>13, <1>14 DEF IInv

LEMMA MaskReturnToCaller ==
  ASSUME ~ NestedMasking, IInv, MaskReturn, top.call # "register"
  PROVE  IInv'
<1> DEFINE f == [Idle EXCEPT !.irq = top.irq, !.open = top.open, !.old = top.old]
<1>1. IrqTypeOK /\ FrameInv /\ LevelInv /\ PieInv /\ TableInv
      /\ NestedByUrgency /\ ScanEnds /\ EnableAgrees
  BY DEF IInv
<1>2. /\ f \in Frame
      /\ f.pc = "run" /\ f.irq = top.irq /\ f.call = NULL /\ f.id = 0
      /\ f.isr = NULL /\ (f.on <=> FALSE) /\ f.outer = FALSE /\ f.inner = FALSE
      /\ f.open = top.open /\ f.old = top.old
  BY <1>1, TopFacts, IdleFrame DEF Frame, Idle
<1> HIDE DEF f
<1>3. Becomes(f) /\ (\A d \in 0 .. NIRQ : d = depth => f = top')
  BY <1>1, <1>2, BecomesFacts DEF MaskReturn, f
<1>4. FrameOK(top, depth)
  BY <1>1, TopFacts DEF FrameInv, IrqTypeOK
<1>5. FrameOK(f, depth)
  BY <1>1, <1>2, <1>4, TopFacts, InterruptAssumption DEF InterruptAssumption, MaskReturn, FrameOK, CallPcs, OwnPcs, IrqTypeOK
<1>6. FrameInv'
  BY <1>1, <1>2, <1>3, <1>5, BecomesFrameInv
<1>7. f.pc \in CallPcs => alt_priority_mask = Irq
  BY <1>1, <1>2, TopFacts DEF MaskReturn, MayMask, LevelInv, CallPcs
<1>8. NestedByUrgency' /\ LevelInv'
  BY <1>1, <1>2, <1>3, <1>7, BecomesNested, BecomesLevel DEF MaskReturn, masks
<1>9. IrqTypeOK'
  BY <1>1, <1>2, <1>3, BecomesFacts, TopFacts
  DEF IrqTypeOK, MaskReturn, DisableAll, EnableAll, registers, masks, table, Irq
<1>10. top' = f /\ depth' = depth
  BY <1>1, <1>2, <1>3, BecomesFacts
<1>11. PieInv'
  <2>1. top.pc = "unmask" /\ pie' = top.inner /\ top.call = "mask"
    BY <1>4, TopFacts, <1>1 DEF MaskReturn, EnableAll, FrameOK, CallPcs
  <2>2. top.inner <=> depth = 0
    BY <1>1, <2>1 DEF PieInv
  <2>3. pie' <=> depth = 0
    BY <2>1, <2>2
  <2> QED BY <1>1, <1>2, <1>4, <1>10, <2>1, <2>3, InterruptAssumption
    DEF InterruptAssumption, PieInv, FrameOK
<1>b. EnablesOwned(top)
  BY <1>1, TopFacts DEF TableInv, IrqTypeOK
<1>12. \A c \in 0 .. depth' : EnablesOwned(frame[c])'
  <2>1. EnablesOwned(f)
    BY <1>1, <1>2, <1>b DEF EnablesOwned, MaskReturn
  <2> QED BY <1>1, <1>2, <1>3, <2>1, BecomesOwned DEF MaskReturn, table
<1>13. TableInv'
  BY <1>1, <1>2, <1>4, <1>b, <1>10, <1>12, TopFacts, InterruptAssumption
  DEF InterruptAssumption, TableInv, Removing, EnablesOwned, MaskReturn, table, masks, registers, FrameOK, CallPcs, OwnPcs, IrqTypeOK
<1>14. ScanEnds' /\ EnableAgrees'
  BY <1>1, <1>2, <1>7, <1>10, TopFacts
  DEF ScanEnds, EnableAgrees, MaskReturn, masks, registers, CallPcs, IrqTypeOK, Irq
<1> QED BY <1>6, <1>8, <1>9, <1>11, <1>13, <1>14 DEF IInv

(* Requests, dispatching and nesting. *)
LEMMA SameInv ==
  ASSUME IrqTypeOK /\ FrameInv /\ LevelInv /\ PieInv /\ TableInv /\ NestedByUrgency /\ EnableAgrees,
         UNCHANGED <<registers, masks, table, stack>>
  PROVE  FrameInv' /\ LevelInv' /\ PieInv' /\ TableInv' /\ NestedByUrgency' /\ EnableAgrees'
<1>1. /\ pie' = pie /\ ienable' = ienable /\ alt_irq_active' = alt_irq_active
      /\ alt_priority_mask' = alt_priority_mask /\ handler' = handler /\ context' = context
      /\ frame' = frame /\ depth' = depth
  BY DEF registers, masks, table, stack
<1>2. FrameInv'
  BY <1>1 DEF FrameInv, FrameOK, LetsIn
<1>3. LevelInv'
  BY <1>1 DEF LevelInv, Below, Above, top
<1>4. PieInv'
  BY <1>1 DEF PieInv, top
<1>5. TableInv'
  BY <1>1 DEF TableInv, Removing, EnablesOwned, top
<1>6. NestedByUrgency' /\ EnableAgrees'
  BY <1>1 DEF NestedByUrgency, EnableAgrees, top
<1> QED BY <1>2, <1>3, <1>4, <1>5, <1>6

LEMMA RaiseStep ==
  ASSUME IInv, NEW i \in Irq, Raise(i)
  PROVE  IInv'
<1>1. IrqTypeOK' /\ ScanEnds'
  BY DEF IInv, IrqTypeOK, ScanEnds, Raise, Pending, registers, masks, table, stack, top, Irq
<1> QED BY <1>1, SameInv DEF IInv, Raise

LEMMA StutterStep ==
  ASSUME IInv, UNCHANGED irqvars
  PROVE  IInv'
<1>1. IrqTypeOK' /\ ScanEnds'
  BY DEF IInv, IrqTypeOK, ScanEnds, irqvars, Pending, registers, masks, table, stack, top, Irq
<1> QED BY <1>1, SameInv DEF IInv, irqvars

(* The interrupt served is more urgent than every handler below. *)
LEMMA DispatchStep ==
  ASSUME IInv, NEW i \in Irq, Dispatch(i)
  PROVE  IInv'
<1> DEFINE f == [top EXCEPT !.pc = "run", !.irq = i]
<1>1. IrqTypeOK /\ FrameInv /\ LevelInv /\ PieInv /\ TableInv
      /\ NestedByUrgency /\ ScanEnds /\ EnableAgrees
  BY DEF IInv
<1>2. /\ f \in Frame
      /\ f.pc = "run" /\ f.irq = i /\ f.call = top.call /\ f.id = top.id
      /\ f.on = top.on /\ f.open = top.open /\ f.old = top.old
  BY <1>1, TopFacts DEF Frame
<1> HIDE DEF f
<1>3. Becomes(f) /\ top.pc \in {"entered", "pending"}
  BY DEF Dispatch, f
<1>4. FrameOK(top, depth)
  BY <1>1, TopFacts DEF FrameInv, IrqTypeOK
<1>5. /\ depth > 0 /\ ~ top.open /\ ~ f.open /\ top.call = NULL
      /\ top.call # "register" /\ top.call # "mask"
  BY <1>1, <1>2, <1>3, <1>4, TopFacts, InterruptAssumption
  DEF InterruptAssumption, FrameOK, CallPcs, IrqTypeOK
<1>6. FrameInv'
  <2>1. FrameOK(f, depth)
    BY <1>2, <1>5, InterruptAssumption DEF InterruptAssumption, FrameOK, CallPcs, OwnPcs, Irq
  <2> QED BY <1>1, <1>2, <1>3, <2>1, BecomesFrameInv
<1>7. top' = f /\ depth' = depth /\ depth \in 0 .. NIRQ /\ NIRQ \in Nat
      /\ \A c \in 0 .. NIRQ : frame'[c] = IF c = depth THEN f ELSE frame[c]
  BY <1>1, <1>2, <1>3, BecomesFacts
<1>8. i \in alt_priority_mask /\ alt_priority_mask = Below(depth)
  BY <1>1, <1>3, <1>5, TopFacts DEF Dispatch, Pending, EnableAgrees, LevelInv
<1>9. NestedByUrgency'
  <2> SUFFICES ASSUME NEW c \in 1 .. depth, NEW d \in 1 .. depth,
                      c < d, frame'[d].irq # NULL
               PROVE  frame'[c].irq # NULL /\ frame'[c].open /\ frame'[d].irq < frame'[c].irq
    BY <1>7 DEF NestedByUrgency
  <2>1. CASE d # depth
    BY <1>1, <1>7, <2>1 DEF NestedByUrgency, IrqTypeOK
  <2>2. CASE d = depth
    <3>1. i \in Above(frame[depth - 1].irq) /\ depth > 1
      BY <1>8, <2>2, <1>7 DEF Below
    <3>2. frame[depth - 1].open /\ frame[depth - 1].irq # NULL
      <4>1. LetsIn(frame[depth - 1], depth - 1) /\ FrameOK(frame[depth - 1], depth - 1)
        BY <1>1, <1>7, <3>1 DEF FrameInv
      <4> QED BY <1>7, <3>1, <4>1 DEF LetsIn, FrameOK
    <3>3. frame[depth - 1].irq \in Irq /\ i < frame[depth - 1].irq
      <4>1. frame[depth - 1] \in Frame
        BY <1>1, <1>7, <3>1 DEF IrqTypeOK
      <4>2. frame[depth - 1].irq \in Irq
        BY <3>2, <4>1 DEF Frame
      <4> QED BY <3>1, <4>2, InterruptAssumption DEF InterruptAssumption, Above, Irq
    <3>4. CASE c = depth - 1
      BY <1>2, <1>7, <2>2, <3>2, <3>3, <3>4
    <3>5. CASE c < depth - 1
      <4>1. frame[c].irq # NULL /\ frame[c].open /\ frame[depth - 1].irq < frame[c].irq
        BY <1>1, <1>7, <3>1, <3>2, <3>5 DEF NestedByUrgency
      <4>2. frame[c].irq \in Irq
        BY <1>1, <1>7, <4>1 DEF IrqTypeOK, Frame
      <4> QED BY <1>2, <1>7, <2>2, <3>3, <4>1, <4>2, InterruptAssumption
        DEF InterruptAssumption, Irq
    <3> QED BY <2>2, <3>4, <3>5, <1>7
  <2> QED BY <2>1, <2>2
<1>10. LevelInv'
  <2>1. alt_priority_mask' = alt_priority_mask /\ Irq' = Irq
    BY DEF Dispatch, masks, Irq
  <2>2. \A c \in 0 .. depth : Below(c)' = Below(c)
    BY <1>7 DEF Below, Irq, Above
  <2> QED BY <1>1, <1>2, <1>5, <1>7, <1>8, <2>1, <2>2 DEF LevelInv, CallPcs
<1>11. PieInv'
  BY <1>1, <1>2, <1>5, <1>7 DEF PieInv, Dispatch, registers
<1>12. IrqTypeOK'
  BY <1>1, <1>2, <1>3, BecomesFacts, TopFacts DEF IrqTypeOK, Dispatch, registers, masks, table, Irq
<1>13. TableInv'
  <2>1. \A c \in 0 .. depth' : EnablesOwned(frame[c])'
    BY <1>1, <1>2, <1>3, <1>5, BecomesOwned DEF EnablesOwned, Dispatch, table
  <2> QED BY <1>1, <1>2, <1>3, <1>5, <1>7, <2>1
    DEF TableInv, Removing, Dispatch, table, masks, registers
<1>14. ScanEnds' /\ EnableAgrees'
  BY <1>1, <1>2, <1>3, <1>7 DEF ScanEnds, EnableAgrees, Dispatch, masks, registers
<1> QED BY <1>6, <1>9, <1>10, <1>11, <1>12, <1>13, <1>14 DEF IInv

LEMMA HandlerReturnStep ==
  ASSUME IInv, HandlerReturn
  PROVE  IInv'
<1> DEFINE f == [top EXCEPT !.pc = "pending", !.irq = NULL]
<1>1. IrqTypeOK /\ FrameInv /\ LevelInv /\ PieInv /\ TableInv
      /\ NestedByUrgency /\ ScanEnds /\ EnableAgrees
  BY DEF IInv
<1>2. /\ f \in Frame
      /\ f.pc = "pending" /\ f.irq = NULL /\ f.call = top.call /\ f.id = top.id
      /\ f.on = top.on /\ f.open = top.open /\ f.old = top.old
  BY <1>1, TopFacts DEF Frame
<1> HIDE DEF f
<1>3. Becomes(f) /\ top.pc = "run" /\ depth > 0 /\ ~ top.open
  BY DEF HandlerReturn, f
<1>4. FrameOK(top, depth)
  BY <1>1, TopFacts DEF FrameInv, IrqTypeOK
<1>5. top.call = NULL /\ top.call # "register" /\ top.call # "mask" /\ ~ f.open
  BY <1>1, <1>2, <1>3, <1>4, TopFacts, InterruptAssumption
  DEF InterruptAssumption, FrameOK, CallPcs, IrqTypeOK
<1>6. FrameInv'
  <2>1. FrameOK(f, depth)
    BY <1>2, <1>3, <1>5, InterruptAssumption DEF InterruptAssumption, FrameOK, CallPcs, OwnPcs, Irq
  <2> QED BY <1>1, <1>2, <1>3, <2>1, BecomesFrameInv
<1>7. top' = f /\ depth' = depth /\ depth \in 0 .. NIRQ /\ NIRQ \in Nat
      /\ \A c \in 0 .. NIRQ : frame'[c] = IF c = depth THEN f ELSE frame[c]
  BY <1>1, <1>2, <1>3, BecomesFacts
<1>9. NestedByUrgency'
  BY <1>1, <1>2, <1>7 DEF NestedByUrgency
<1>10. LevelInv'
  <2>1. alt_priority_mask' = alt_priority_mask /\ Irq' = Irq
    BY DEF HandlerReturn, masks, Irq
  <2>2. \A c \in 0 .. depth : Below(c)' = Below(c)
    BY <1>7 DEF Below, Irq, Above
  <2> QED BY <1>1, <1>2, <1>3, <1>5, <1>7, <2>1, <2>2 DEF LevelInv, CallPcs
<1>11. PieInv'
  BY <1>1, <1>2, <1>3, <1>5, <1>7 DEF PieInv, HandlerReturn, registers
<1>12. IrqTypeOK'
  BY <1>1, <1>2, <1>3, BecomesFacts, TopFacts DEF IrqTypeOK, HandlerReturn, registers, masks, table, Irq
<1>13. TableInv'
  <2>1. \A c \in 0 .. depth' : EnablesOwned(frame[c])'
    BY <1>1, <1>2, <1>3, <1>5, BecomesOwned DEF EnablesOwned, HandlerReturn, table
  <2> QED BY <1>1, <1>2, <1>3, <1>5, <1>7, <2>1
    DEF TableInv, Removing, HandlerReturn, table, masks, registers
<1>14. ScanEnds' /\ EnableAgrees'
  BY <1>1, <1>2, <1>3, <1>7 DEF ScanEnds, EnableAgrees, HandlerReturn, masks, registers
<1> QED BY <1>6, <1>9, <1>10, <1>11, <1>12, <1>13, <1>14 DEF IInv

(* The interrupted frame has let the interrupt in. *)
LEMMA EnterStep ==
  ASSUME IInv, Enter
  PROVE  IInv'
<1> DEFINE f == [Idle EXCEPT !.pc = "entered"]
<1>1. IrqTypeOK /\ FrameInv /\ LevelInv /\ PieInv /\ TableInv
      /\ NestedByUrgency /\ ScanEnds /\ EnableAgrees
  BY DEF IInv
<1>2. f \in Frame /\ f.pc = "entered" /\ f.irq = NULL /\ f.call = NULL /\ f.open = FALSE
  BY IdleFrame DEF Frame, Idle
<1> HIDE DEF f
<1>3. /\ depth \in 0 .. NIRQ - 1 /\ NIRQ \in Nat /\ depth' = depth + 1 /\ pie /\ pie' = FALSE
      /\ top' = f /\ frame' \in [0 .. NIRQ -> Frame]
      /\ \A c \in 0 .. NIRQ : frame'[c] = IF c = depth + 1 THEN f ELSE frame[c]
  BY <1>1, <1>2, InterruptAssumption DEF InterruptAssumption, IrqTypeOK, Enter, top, f
<1>4. FrameOK(top, depth) /\ top = frame[depth]
  BY <1>1, TopFacts DEF FrameInv, IrqTypeOK
<1>5. /\ depth > 0 => top.open /\ top.pc = "run" /\ top.irq # NULL
      /\ depth = 0 => top.pc = "run" \/ (top.pc = "mask" /\ top.call = "mask")
  BY <1>1, <1>3, <1>4 DEF PieInv, FrameOK
<1>6. LetsIn(top, depth) /\ top.call # "register"
  BY <1>1, <1>4, <1>5, TopFacts, InterruptAssumption
  DEF InterruptAssumption, LetsIn, FrameOK, CallPcs, IrqTypeOK
<1>7. FrameInv'
  <2>1. FrameOK(f, depth + 1)
    BY <1>2, <1>3, InterruptAssumption DEF InterruptAssumption, FrameOK, CallPcs, OwnPcs
  <2>2. \A c \in 0 .. depth' : FrameOK(frame'[c], c)
    BY <1>1, <1>3, <2>1 DEF FrameInv
  <2>3. \A c \in 0 .. depth' - 1 : LetsIn(frame'[c], c)
    BY <1>1, <1>3, <1>4, <1>6 DEF FrameInv
  <2>4. \A c \in 0 .. depth' : FrameOK(frame[c], c)' = FrameOK(frame'[c], c)
    BY DEF FrameOK
  <2>5. \A c \in 0 .. depth' : LetsIn(frame[c], c)' = LetsIn(frame'[c], c)
    BY DEF LetsIn
  <2> QED BY <1>3, <2>2, <2>3, <2>4, <2>5 DEF FrameInv
<1>8. LevelInv'
  <2>1. alt_priority_mask' = alt_priority_mask
    BY DEF Enter, masks
  <2>2. \A c \in 0 .. depth + 1 : Below(c)' = Below(c)
    BY <1>3 DEF Below, Irq, Above
  <2>3. Below(depth + 1) = alt_priority_mask
    BY <1>1, <1>3, <1>4, <1>5 DEF LevelInv, Below, FrameOK
  <2> QED BY <1>1, <1>2, <1>3, <2>1, <2>2, <2>3 DEF LevelInv, CallPcs
<1>9. PieInv' /\ ScanEnds' /\ EnableAgrees'
  <2>1. Pending' = Pending /\ Pending # {}
    BY DEF Enter, Pending
  <2>2. ienable = alt_irq_active \cap alt_priority_mask
    BY <1>1, <1>3, <1>5 DEF EnableAgrees
  <2>3. /\ ienable' = ienable /\ alt_irq_active' = alt_irq_active
        /\ alt_priority_mask' = alt_priority_mask
    BY DEF Enter, masks
  <2> QED BY <1>2, <1>3, <2>1, <2>2, <2>3, InterruptAssumption
    DEF InterruptAssumption, PieInv, ScanEnds, EnableAgrees
<1>10. IrqTypeOK'
  <2>1. /\ request' = request /\ ienable' = ienable /\ alt_irq_active' = alt_irq_active
        /\ alt_priority_mask' = alt_priority_mask /\ handler' = handler /\ context' = context
    BY DEF Enter, masks, table
  <2>2. pie' \in BOOLEAN
    BY <1>3, Zenon
  <2>3. depth' \in 0 .. NIRQ
    BY <1>3
  <2> QED BY <1>1, <1>3, <2>1, <2>2, <2>3 DEF IrqTypeOK, Irq
<1>11. TableInv'
  <2>1. handler' = handler /\ context' = context /\ alt_irq_active' = alt_irq_active
        /\ ienable' = ienable
    BY DEF Enter, masks, table
  <2>2. \A c \in 0 .. depth' : EnablesOwned(frame'[c])
    BY <1>1, <1>2, <1>3, InterruptAssumption DEF InterruptAssumption, TableInv, EnablesOwned
  <2>3. \A c \in 0 .. depth' : EnablesOwned(frame[c])' = EnablesOwned(frame'[c])
    BY <2>1 DEF EnablesOwned
  <2> QED BY <1>1, <1>2, <1>3, <1>5, <1>6, <2>1, <2>2, <2>3, InterruptAssumption
    DEF InterruptAssumption, TableInv, Removing
<1>12. NestedByUrgency'
  BY <1>1, <1>2, <1>3 DEF NestedByUrgency
<1> QED BY <1>7, <1>8, <1>9, <1>10, <1>11, <1>12 DEF IInv

LEMMA LeaveStep ==
  ASSUME IInv, Leave
  PROVE  IInv'
<1>1. IrqTypeOK /\ FrameInv /\ LevelInv /\ PieInv /\ TableInv
      /\ NestedByUrgency /\ ScanEnds /\ EnableAgrees
  BY DEF IInv
<1> DEFINE u == frame[depth - 1]
<1>2. /\ depth \in 1 .. NIRQ /\ NIRQ \in Nat /\ depth' = depth - 1 /\ pie' = TRUE
      /\ top' = u /\ u \in Frame /\ frame' \in [0 .. NIRQ -> Frame] /\ top.pc = "pending"
      /\ \A c \in 0 .. depth - 1 : frame'[c] = frame[c]
  BY <1>1, IdleFrame, InterruptAssumption DEF InterruptAssumption, IrqTypeOK, Leave, top
<1>3. FrameOK(top, depth) /\ FrameOK(u, depth - 1) /\ LetsIn(u, depth - 1)
  BY <1>1, <1>2, TopFacts DEF FrameInv
<1>4. /\ top.call # "register" /\ top.call # "mask" /\ ~ top.open
      /\ u.call # "register" /\ u.pc \in {"run", "mask"}
      /\ depth - 1 > 0 => u.open /\ u.pc = "run"
      /\ depth - 1 = 0 => ~ u.open
      /\ u.pc = "mask" => u.call = "mask"
  BY <1>1, <1>2, <1>3, TopFacts, InterruptAssumption
  DEF InterruptAssumption, FrameOK, LetsIn, CallPcs, Frame
<1> HIDE DEF u
<1>5. FrameInv'
  <2>1. \A c \in 0 .. depth' : FrameOK(frame[c], c)' = FrameOK(frame'[c], c)
    BY DEF FrameOK
  <2>2. \A c \in 0 .. depth' : LetsIn(frame[c], c)' = LetsIn(frame'[c], c)
    BY DEF LetsIn
  <2> QED BY <1>1, <1>2, <2>1, <2>2 DEF FrameInv
<1>6. LevelInv'
  <2>1. alt_priority_mask' = alt_priority_mask /\ Irq' = Irq
    BY DEF Leave, masks, Irq
  <2>2. \A c \in 0 .. depth - 1 : Below(c)' = Below(c)
    BY <1>2 DEF Below, Irq, Above
  <2>3. alt_priority_mask = IF depth - 1 > 0 THEN Above(u.irq) ELSE Irq
    BY <1>1, <1>2, <1>4 DEF LevelInv, Below, u
  <2>4. depth - 1 = 0 => Below(depth - 1) = Irq
    BY DEF Below
  <2>5. \A i : Above(i)' = Above(i)
    BY DEF Above
  <2> QED BY <1>1, <1>2, <1>4, <2>1, <2>2, <2>3, <2>4, <2>5 DEF LevelInv, CallPcs
<1>7. PieInv' /\ ScanEnds' /\ EnableAgrees'
  <2>1. /\ ienable' = ienable /\ alt_irq_active' = alt_irq_active
        /\ alt_priority_mask' = alt_priority_mask
    BY DEF Leave, masks
  <2> QED BY <1>1, <1>2, <1>4, <2>1 DEF PieInv, ScanEnds, EnableAgrees
<1>8. IrqTypeOK'
  BY <1>1, <1>2 DEF IrqTypeOK, Leave, masks, table, Irq
<1>9. TableInv'
  <2>1. handler' = handler /\ context' = context /\ alt_irq_active' = alt_irq_active
        /\ ienable' = ienable
    BY DEF Leave, masks, table
  <2>2. \A c \in 0 .. depth' : EnablesOwned(frame[c])' = EnablesOwned(frame'[c])
    BY <2>1 DEF EnablesOwned
  <2> QED BY <1>1, <1>2, <1>4, <2>1, <2>2 DEF TableInv, Removing
<1>10. NestedByUrgency'
  BY <1>1, <1>2 DEF NestedByUrgency
<1> QED BY <1>5, <1>6, <1>7, <1>8, <1>9, <1>10 DEF IInv

(* A handler opens and closes the door to more urgent interrupts. *)
LEMMA InterruptibleStep ==
  ASSUME IInv, alt_irq_interruptible
  PROVE  IInv'
<1> DEFINE f == [top EXCEPT !.open = TRUE, !.old = alt_priority_mask]
<1>1. IrqTypeOK /\ FrameInv /\ LevelInv /\ PieInv /\ TableInv
      /\ NestedByUrgency /\ ScanEnds /\ EnableAgrees
  BY DEF IInv
<1>2. /\ f \in Frame
      /\ f.pc = top.pc /\ f.irq = top.irq /\ f.call = top.call /\ f.id = top.id
      /\ f.on = top.on /\ f.open = TRUE /\ f.old = alt_priority_mask
  BY <1>1, TopFacts DEF Frame, IrqTypeOK
<1> HIDE DEF f
<1>3. Becomes(f) /\ top.pc = "run" /\ depth > 0 /\ ~ top.open
  BY DEF alt_irq_interruptible, f
<1>4. FrameOK(top, depth)
  BY <1>1, TopFacts DEF FrameInv, IrqTypeOK
<1>5. top.call = NULL /\ top.call # "register" /\ top.call # "mask" /\ top.irq \in Irq
  BY <1>1, <1>3, <1>4, TopFacts, InterruptAssumption
  DEF InterruptAssumption, FrameOK, CallPcs, IrqTypeOK
<1>6. FrameInv'
  <2>1. FrameOK(f, depth)
    BY <1>2, <1>3, <1>5, InterruptAssumption DEF InterruptAssumption, FrameOK, CallPcs, OwnPcs, Irq
  <2> QED BY <1>1, <1>2, <1>3, <2>1, BecomesFrameInv
<1>7. top' = f /\ depth' = depth /\ depth \in 0 .. NIRQ /\ NIRQ \in Nat
      /\ \A c \in 0 .. NIRQ : frame'[c] = IF c = depth THEN f ELSE frame[c]
  BY <1>1, <1>2, <1>3, BecomesFacts
<1>8. alt_priority_mask' = Above(top.irq) /\ alt_priority_mask = Below(depth)
  BY <1>1, <1>3 DEF alt_irq_interruptible, LevelInv
<1>9. NestedByUrgency'
  BY <1>1, <1>2, <1>7, TopFacts DEF NestedByUrgency
<1>10. LevelInv'
  <2>1. \A i : Above(i)' = Above(i)
    BY DEF Above
  <2>2. \A c \in 0 .. depth : Below(c)' = Below(c)
    BY <1>7 DEF Below, Irq, Above
  <2>3. f.old = Below(depth)
    BY <1>2, <1>8
  <2> QED BY <1>1, <1>2, <1>3, <1>7, <1>8, <2>1, <2>2, <2>3 DEF LevelInv, CallPcs
<1>11. PieInv' /\ ScanEnds' /\ EnableAgrees'
  BY <1>1, <1>2, <1>3, <1>5, <1>7 DEF PieInv, ScanEnds, EnableAgrees, alt_irq_interruptible
<1>12. IrqTypeOK'
  <2>1. Above(top.irq) \subseteq Irq
    BY <1>5, InterruptAssumption DEF InterruptAssumption, Above, Irq
  <2> QED BY <1>1, <1>2, <1>3, <1>8, <2>1, BecomesFacts
    DEF IrqTypeOK, alt_irq_interruptible, table, Irq
<1>13. TableInv'
  <2>1. /\ handler' = handler /\ context' = context /\ alt_irq_active' = alt_irq_active
        /\ ienable' \subseteq alt_irq_active
    BY DEF alt_irq_interruptible, table
  <2>2. \A c \in 0 .. depth' : EnablesOwned(frame[c])'
    BY <1>1, <1>2, <1>3, <1>5, <2>1, BecomesOwned DEF EnablesOwned
  <2> QED BY <1>1, <1>2, <1>3, <1>5, <1>7, <2>1, <2>2 DEF TableInv, Removing
<1> QED BY <1>6, <1>9, <1>10, <1>11, <1>12, <1>13 DEF IInv

LEMMA NonInterruptibleStep ==
  ASSUME IInv, alt_irq_non_interruptible
  PROVE  IInv'
<1> DEFINE f == [top EXCEPT !.open = FALSE, !.old = {}]
<1>1. IrqTypeOK /\ FrameInv /\ LevelInv /\ PieInv /\ TableInv
      /\ NestedByUrgency /\ ScanEnds /\ EnableAgrees
  BY DEF IInv
<1>2. /\ f \in Frame
      /\ f.pc = top.pc /\ f.irq = top.irq /\ f.call = top.call /\ f.id = top.id
      /\ f.on = top.on /\ f.open = FALSE /\ f.old = {}
  BY <1>1, TopFacts DEF Frame, IrqTypeOK
<1> HIDE DEF f
<1>3. Becomes(f) /\ top.pc = "run" /\ top.open
  BY DEF alt_irq_non_interruptible, f
<1>4. FrameOK(top, depth) /\ top = frame[depth]
  BY <1>1, TopFacts DEF FrameInv, IrqTypeOK
<1>5. /\ depth > 0 /\ top.irq # NULL /\ top.irq \in Irq
      /\ top.call = NULL /\ top.call # "register" /\ top.call # "mask"
  BY <1>1, <1>3, <1>4, TopFacts, InterruptAssumption
  DEF InterruptAssumption, FrameOK, CallPcs, IrqTypeOK
<1>6. FrameInv'
  <2>1. FrameOK(f, depth)
    BY <1>2, <1>3, <1>5, InterruptAssumption DEF InterruptAssumption, FrameOK, CallPcs, OwnPcs, Irq
  <2> QED BY <1>1, <1>2, <1>3, <2>1, BecomesFrameInv
<1>7. top' = f /\ depth' = depth /\ depth \in 0 .. NIRQ /\ NIRQ \in Nat
      /\ \A c \in 0 .. NIRQ : frame'[c] = IF c = depth THEN f ELSE frame[c]
  BY <1>1, <1>2, <1>3, BecomesFacts
<1>8. alt_priority_mask' = top.old /\ top.old = Below(depth)
  BY <1>1, <1>3, <1>4, <1>5, <1>7 DEF alt_irq_non_interruptible, LevelInv
<1>9. NestedByUrgency'
  BY <1>1, <1>2, <1>7, <1>4 DEF NestedByUrgency
<1>10. LevelInv'
  <2>2. \A c \in 0 .. depth : Below(c)' = Below(c)
    BY <1>7 DEF Below, Irq, Above
  <2> QED BY <1>1, <1>2, <1>3, <1>7, <1>8, <2>2 DEF LevelInv, CallPcs
<1>11. PieInv' /\ ScanEnds' /\ EnableAgrees'
  BY <1>1, <1>2, <1>3, <1>5, <1>7 DEF PieInv, ScanEnds, EnableAgrees, alt_irq_non_interruptible
<1>12. IrqTypeOK'
  BY <1>1, <1>2, <1>3, BecomesFacts, TopFacts
  DEF IrqTypeOK, alt_irq_non_interruptible, table, Irq
<1>13. TableInv'
  <2>1. /\ handler' = handler /\ context' = context /\ alt_irq_active' = alt_irq_active
        /\ ienable' \subseteq alt_irq_active
    BY DEF alt_irq_non_interruptible, table
  <2>2. \A c \in 0 .. depth' : EnablesOwned(frame[c])'
    BY <1>1, <1>2, <1>3, <1>5, <2>1, BecomesOwned DEF EnablesOwned
  <2> QED BY <1>1, <1>2, <1>3, <1>5, <1>7, <2>1, <2>2 DEF TableInv, Removing
<1> QED BY <1>6, <1>9, <1>10, <1>11, <1>12, <1>13 DEF IInv

LEMMA InitIInv == ASSUME IrqInit PROVE IInv
<1> DEFINE b == [Idle EXCEPT !.pc = "boot"]
<1>0. b \in Frame
  BY IdleFrame DEF Frame
<1>1. top = b /\ frame[0] = top /\ top \in Frame
  BY <1>0, InterruptAssumption DEF InterruptAssumption, IrqInit, top
<1>2. /\ top.pc = "boot" /\ top.irq = NULL /\ top.call = NULL /\ top.on = FALSE
      /\ top.open = FALSE
  BY <1>1 DEF Idle
<1>3. IrqTypeOK
  <2>1. frame \in [0 .. NIRQ -> Frame]
    BY <1>0, IdleFrame DEF IrqInit
  <2>2. handler \in [Irq -> Tag \cup {NULL}] /\ context \in [Irq -> Tag \cup {NULL}]
    BY DEF IrqInit
  <2>3. pie \in BOOLEAN
    BY Zenon DEF IrqInit
  <2>4. depth \in 0 .. NIRQ
    BY InterruptAssumption DEF InterruptAssumption, IrqInit
  <2> QED BY <2>1, <2>2, <2>3, <2>4 DEF IrqTypeOK, IrqInit
<1>4. FrameInv
  BY <1>1, <1>2, InterruptAssumption
  DEF InterruptAssumption, IrqInit, FrameInv, FrameOK, LetsIn, CallPcs, OwnPcs
<1>5. LevelInv /\ PieInv
  BY <1>1, <1>2, InterruptAssumption
  DEF InterruptAssumption, IrqInit, LevelInv, PieInv, Below, CallPcs
<1>6. TableInv
  BY <1>1, <1>2, InterruptAssumption
  DEF InterruptAssumption, IrqInit, TableInv, EnablesOwned, Removing
<1>7. NestedByUrgency /\ ScanEnds /\ EnableAgrees
  BY <1>1, <1>2 DEF IrqInit, NestedByUrgency, ScanEnds, EnableAgrees
<1> QED BY <1>3, <1>4, <1>5, <1>6, <1>7 DEF IInv

LEMMA NextIInv ==
  ASSUME ~ NestedMasking, IInv, [IrqNext]_irqvars
  PROVE  IInv'
<1>1. CASE InCall
  <2>1. ASSUME MaskReturn PROVE IInv'
    BY <2>1, MaskReturnToRegister, MaskReturnToCaller
  <2> QED BY <1>1, <2>1, InitStep, RegisterHandlerStep, RegisterContextStep,
             RegisterReturnStep, MaskEnterStep, MaskActiveStep, MaskWriteStep DEF InCall
<1>2. CASE InHandler
  BY <1>2, EnterStep, DispatchStep, HandlerReturnStep, LeaveStep, NonInterruptibleStep
  DEF InHandler
<1>3. CASE Choice
  BY <1>3, RaiseStep, RegisterCallStep, MaskCallStep, InterruptibleStep DEF Choice
<1>4. CASE UNCHANGED irqvars
  BY <1>4, StutterStep
<1> QED BY <1>1, <1>2, <1>3, <1>4 DEF IrqNext

(* An interrupt that can be taken or dispatched has a whole table entry:   *)
(* PIE is clear while a registration is between its two stores.            *)
LEMMA OwnContext ==
  ASSUME IInv PROVE CalledWithOwnContext
<1>1. IrqTypeOK /\ FrameInv /\ PieInv /\ TableInv
  BY DEF IInv
<1>2. FrameOK(top, depth) /\ depth \in Nat
  BY <1>1, TopFacts, InterruptAssumption DEF InterruptAssumption, FrameInv, IrqTypeOK
<1> SUFFICES ASSUME NEW i \in Pending, pie \/ top.pc \in {"entered", "pending"}
             PROVE  handler[i] # NULL /\ context[i] = handler[i]
  BY DEF CalledWithOwnContext
<1>3. top.call # "register" /\ top.pc # "context"
  BY <1>1, <1>2, TopFacts, InterruptAssumption
  DEF InterruptAssumption, PieInv, FrameOK, CallPcs, OwnPcs
<1> QED BY <1>1, <1>3 DEF TableInv, Removing, Pending, IrqTypeOK

(* Through any sequence of registrations, maskings and interrupts: handlers *)
(* nest by urgency only, each runs with its own context, the scan of the    *)
(* dispatcher ends, and the hardware mask is what the two software masks    *)
(* say (alt_irq_handler.c:121-155, alt_iic_isr_register.c:84-99,            *)
(* alt_irq.h:143-183, alt_legacy_irq.h:118-149).                            *)
THEOREM Dispatching ==
  ASSUME ~ NestedMasking
  PROVE  IrqSpec => [](IInv /\ NestedByUrgency /\ CalledWithOwnContext /\ ScanEnds /\ EnableAgrees)
<1>1. IrqInit => IInv
  BY InitIInv
<1>2. IInv /\ [IrqNext]_irqvars => IInv'
  BY NextIInv
<1>3. IInv => NestedByUrgency /\ CalledWithOwnContext /\ ScanEnds /\ EnableAgrees
  BY OwnContext DEF IInv
<1> QED BY <1>1, <1>2, <1>3, PTL DEF IrqSpec

(* A handler is only interrupted once it has let interrupts in, and only   *)
(* by more urgent ones (alt_legacy_irq.h:103-155).                         *)
THEOREM NestingIsByUrgency ==
  ASSUME ~ NestedMasking
  PROVE  IrqSpec => []NestedByUrgency
BY Dispatching, PTL

(* No handler is called with the context of another registration           *)
(* (alt_iic_isr_register.c:84-99, alt_irq_handler.c:141-155).              *)
THEOREM HandlersGetTheirContext ==
  ASSUME ~ NestedMasking
  PROVE  IrqSpec => []CalledWithOwnContext
BY Dispatching, PTL

(* The first scan of the dispatcher ends (alt_irq_handler.c:128-155).      *)
THEOREM FirstScanEnds ==
  ASSUME ~ NestedMasking
  PROVE  IrqSpec => []ScanEnds
BY Dispatching, PTL

(* The hardware mask and the software's two agree (alt_legacy_irq.h).      *)
THEOREM MasksAgree ==
  ASSUME ~ NestedMasking
  PROVE  IrqSpec => []EnableAgrees
BY Dispatching, PTL

=============================================================================
