----------------------------- MODULE MCServices -----------------------------
(***************************************************************************)
(* Three services the HAL gives a program, which share no state: the       *)
(* alarms, the interrupts and the polled driver of the serial line.  A     *)
(* behaviour is one of them, chosen at the start, under the fairness its   *)
(* own specification gives it.                                             *)
(***************************************************************************)
EXTENDS Alarms, Interrupts, JtagUartSmall

VARIABLE part

svars == <<part, alarmsvars, irqvars, smallvars>>

ServicesInit ==
  /\ part \in {"alarms", "interrupts", "uart"}
  /\ AlarmsInit /\ IrqInit /\ SmallInit

(* The steps of the part p; the others keep their state.                   *)
AlarmsStep == part = "alarms" /\ AlarmsNext /\ UNCHANGED <<part, irqvars, smallvars>>
IrqStep == part = "interrupts" /\ IrqNext /\ UNCHANGED <<part, alarmsvars, smallvars>>
UartStep == part = "uart" /\ SmallNext /\ UNCHANGED <<part, alarmsvars, irqvars>>

ServicesNext == AlarmsStep \/ IrqStep \/ UartStep

ServicesFairness ==
  /\ WF_alarmsvars(part = "alarms" /\ TickStep)
  /\ WF_irqvars(part = "interrupts" /\ InCall)
  /\ SF_irqvars(part = "interrupts" /\ Enter)
  /\ WF_irqvars(part = "interrupts" /\ \E i \in Irq : Dispatch(i))
  /\ WF_irqvars(part = "interrupts" /\ Leave)
  /\ SF_irqvars(part = "interrupts" /\ HandlerReturn)
  /\ SF_irqvars(part = "interrupts" /\ alt_irq_non_interruptible)
  /\ WF_smallvars(part = "uart" /\ DriverStep)
  /\ WF_smallvars(part = "uart" /\ r_ena /\ UNCHANGED call)

ServicesSpec == ServicesInit /\ [][ServicesNext]_svars /\ ServicesFairness
=============================================================================
