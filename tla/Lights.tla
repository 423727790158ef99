-------------------------------- MODULE Lights --------------------------------
(***************************************************************************)
(* The application: the program in lights.c, which copies the switches to  *)
(* the LEDs for ever, on the address map of the system, and the two PIO    *)
(* cores.  A setting of the switches is the number of changes before it.   *)
(***************************************************************************)
EXTENDS Integers

CONSTANTS MaxChanges    \* bound: changes of the switches

(* system.h: the devices with their spans.                                 *)
Pios == [LEDs     |-> [base |-> 20512, span |-> 16],
         Switches |-> [base |-> 20528, span |-> 16]]
Spans == [LEDs |-> Pios.LEDs, Switches |-> Pios.Switches,
          memory |-> [base |-> 8192,  span |-> 8192],
          uart   |-> [base |-> 20552, span |-> 8]]
Reserved == [base |-> 18432, span |-> 2048]    \* where ALT_CPU_BREAK_ADDR is

(* linker.h: where the program is.                                         *)
Regions == {[base |-> 8192, span |-> 32], [base |-> 8224, span |-> 8160]}

(* lights.c *)
LEDs == 20512
Switches == 20528

(* What the router of the data master selects: a device if the address is  *)
(* its base but for the bits of its span, and memory otherwise.            *)
(* (Mutant: one bit more is ignored.)                                      *)
In(address, base, span) == (address \div span) * span = base

RouteCoarse(address) ==
  CASE In(address, 18432, 2048) -> "debug"
    [] In(address, 20512, 32)   -> "LEDs"
    [] In(address, 20528, 16)   -> "Switches"
    [] In(address, 20552, 8)    -> "uart"
    [] OTHER                    -> "memory"

Route(address) ==
  CASE In(address, 18432, 2048) -> "debug"
    [] In(address, 20512, 16)   -> "LEDs"
    [] In(address, 20528, 16)   -> "Switches"
    [] In(address, 20552, 8)    -> "uart"
    [] OTHER                    -> "memory"

VARIABLES
  switches,          \* in_port
  readdata,          \* of the switches' core: in_port, one clock ago
  data_out,          \* of the LEDs' core: what they show
  memory,            \* what a word of memory holds, if the program uses one
  r3, next,          \* the program: its register and its next instruction
  begun, shown       \* in_port when this and the last round of the loop began

lightsvars == <<switches, readdata, data_out, memory, r3, next, begun, shown>>

LightsInit ==
  /\ switches = 0 /\ readdata = 0 /\ data_out = 0 /\ memory = 0
  /\ r3 = 0 /\ next = "load"
  /\ begun = 0 /\ shown = 0

Change ==
  /\ switches < MaxChanges
  /\ switches' = switches + 1
  /\ UNCHANGED <<readdata, data_out, memory, r3, next, begun, shown>>

(* A clock in which nothing is read or written.                            *)
Tick ==
  /\ readdata' = switches
  /\ UNCHANGED <<switches, data_out, memory, r3, next, begun, shown>>

(* The round begins.  It takes the processor several clocks to get here,   *)
(* readdata has followed.                                                  *)
BeginRound ==
  /\ next = "load" /\ readdata = switches
  /\ begun' = switches
  /\ next' = "read"
  /\ UNCHANGED <<switches, readdata, data_out, memory, r3, shown>>

Read ==
  /\ next = "read"
  /\ r3' = IF Route(Switches) = "Switches" THEN readdata
           ELSE IF Route(Switches) = "LEDs" THEN data_out ELSE memory
  /\ next' = "store"
  /\ UNCHANGED <<switches, readdata, data_out, memory, begun, shown>>

Store ==
  /\ next = "store"
  /\ IF Route(LEDs) = "LEDs" THEN data_out' = r3 /\ UNCHANGED memory
     ELSE memory' = r3 /\ UNCHANGED data_out
  /\ shown' = begun
  /\ next' = "load"
  /\ UNCHANGED <<switches, readdata, r3, begun>>

LightsNext == Change \/ Tick \/ BeginRound \/ Read \/ Store
-----------------------------------------------------------------------------
(* The LEDs show a setting of the switches that is no older than the       *)
(* beginning of the last round of the loop, and never one that was not     *)
(* there yet (lights.c:8-13, Nios_Qsys_LEDs.v, Nios_Qsys_Switches.v).      *)
LedsFollow == shown <= data_out /\ data_out <= switches

(* Every address of a device's span is routed to that device, no two spans *)
(* overlap, and the program lies in memory, next to its exception code     *)
(* (system.h, linker.h, Nios_Qsys_addr_router.sv:195-225).                 *)
Covers(r, address) == address \in r.base .. r.base + r.span - 1
RoutedRight(address) ==
  /\ \A d \in DOMAIN Spans : Covers(Spans[d], address) => Route(address) = d
  /\ Covers(Reserved, address) => Route(address) = "debug"
  /\ (\E r \in Regions : Covers(r, address)) => Covers(Spans.memory, address)
=============================================================================
