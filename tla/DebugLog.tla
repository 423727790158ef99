------------------------------- MODULE DebugLog -------------------------------
(***************************************************************************)
(* The debug log (ALT_LOG_ENABLE): messages of the program and of the      *)
(* interrupt handlers, put character by character into the register of a   *)
(* UART, without interrupts and without a lock.  Which of them are made    *)
(* depends on the level chosen when the BSP is built.                      *)
(***************************************************************************)
EXTENDS Integers, Sequences, FiniteSets

CONSTANTS
  Level,      \* values of ALT_LOG_FLAGS: -1 .. 3
  Space,      \* characters the UART holds
  Length,     \* characters of a message
  MaxLogged,  \* bound: messages of the program, and of interrupts
  Interval    \* ALT_LOG_SYS_CLK_INTERVAL

ASSUME LogAssumption ==
  /\ Level \subseteq -1 .. 3
  /\ {Space, Length, MaxLogged, Interval} \subseteq Nat \ {0}

BootOn(l) == l # -1
SysClkOn(l) == l \in {1, 2, 3}
StartupInfoOn(l) == l \in {1, 2, 3}
WriteOn(l) == l \in {2, 3}
AlarmOn(l) == l \in {2, 3}
IsrOn(l) == l = 3

VARIABLES
  level,
  space,      \* free places in the UART
  left,       \* left[p]: characters p has still to put, p the program or an
              \* interrupt handler
  ready,      \* ready[p]: alt_log_txchar of p has seen space
  logged,     \* <<p, k>> for each character that reached the UART: message k of p
  lost,       \* characters of the program, and of handlers, put into a full UART
  made,       \* made[p]: messages begun
  ticks, alt_log_sys_clk_count, alt_system_clock_in_sec

logvars == <<level, space, left, ready, logged, lost, made, ticks,
             alt_log_sys_clk_count, alt_system_clock_in_sec>>
clock == <<ticks, alt_log_sys_clk_count, alt_system_clock_in_sec>>

Writer == {"program", "handler"}

LogInit ==
  /\ level \in Level
  /\ space = Space
  /\ left = [p \in Writer |-> 0]
  /\ ready = [p \in Writer |-> FALSE]
  /\ logged = << >>
  /\ lost = [p \in Writer |-> 0]
  /\ made = [p \in Writer |-> 0]
  /\ ticks = 0 /\ alt_log_sys_clk_count = 0 /\ alt_system_clock_in_sec = 0

Begin(p) ==
  /\ left' = [left EXCEPT ![p] = Length]
  /\ made' = [made EXCEPT ![p] = @ + 1]

(* A message of the program: at boot or exit, the state of the JTAG UART   *)
(* when its driver starts, or the echo of a write.  The program runs only  *)
(* while no handler does.                                                  *)
ProgramLogs ==
  /\ BootOn(level) \/ StartupInfoOn(level) \/ WriteOn(level)
  /\ left = [p \in Writer |-> 0] /\ made["program"] < MaxLogged
  /\ Begin("program")
  /\ UNCHANGED <<level, space, ready, logged, lost, clock>>

(* The alarm registered when AlarmOn, or the interrupt of the JTAG UART.   *)
HandlerLogs ==
  /\ AlarmOn(level) \/ IsrOn(level)
  /\ left["handler"] = 0 /\ made["handler"] < MaxLogged
  /\ Begin("handler")
  /\ UNCHANGED <<level, space, ready, logged, lost, clock>>

(* The clock interrupt.  (Mutant: the count is not set back.)              *)
alt_log_system_clockRuns ==
  /\ left["handler"] = 0 /\ made["handler"] < MaxLogged
  /\ ticks < MaxLogged * (Interval + 1)
  /\ ticks' = ticks + 1
  /\ IF ~SysClkOn(level)
     THEN UNCHANGED <<alt_log_sys_clk_count, alt_system_clock_in_sec, left, made>>
     ELSE IF alt_log_sys_clk_count + 1 > Interval
     THEN /\ alt_log_sys_clk_count' = alt_log_sys_clk_count + 1
          /\ alt_system_clock_in_sec' = alt_system_clock_in_sec + 1
          /\ Begin("handler")
     ELSE /\ alt_log_sys_clk_count' = alt_log_sys_clk_count + 1
          /\ UNCHANGED <<alt_system_clock_in_sec, left, made>>
  /\ UNCHANGED <<level, space, ready, logged, lost>>

alt_log_system_clock ==
  /\ left["handler"] = 0 /\ made["handler"] < MaxLogged
  /\ ticks < MaxLogged * (Interval + 1)
  /\ ticks' = ticks + 1
  /\ IF ~SysClkOn(level)
     THEN UNCHANGED <<alt_log_sys_clk_count, alt_system_clock_in_sec, left, made>>
     ELSE IF alt_log_sys_clk_count + 1 > Interval
     THEN /\ alt_log_sys_clk_count' = 0
          /\ alt_system_clock_in_sec' = alt_system_clock_in_sec + 1
          /\ Begin("handler")
     ELSE /\ alt_log_sys_clk_count' = alt_log_sys_clk_count + 1
          /\ UNCHANGED <<alt_system_clock_in_sec, left, made>>
  /\ UNCHANGED <<level, space, ready, logged, lost>>

(* alt_log_txchar: wait for space ...                                      *)
TestSpace(p) ==
  /\ p = "program" => left["handler"] = 0
  /\ left[p] > 0 /\ ~ready[p] /\ space > 0
  /\ ready' = [ready EXCEPT ![p] = TRUE]
  /\ UNCHANGED <<level, space, left, logged, lost, made, clock>>

(* ... and put the character; a full UART drops it.  (Mutant: without      *)
(* waiting.)                                                               *)
PutCharBlindly(p) ==
  /\ p = "program" => left["handler"] = 0
  /\ left[p] > 0
  /\ ready' = [ready EXCEPT ![p] = FALSE]
  /\ left' = [left EXCEPT ![p] = @ - 1]
  /\ IF space > 0
     THEN space' = space - 1 /\ logged' = Append(logged, <<p, made[p]>>) /\ UNCHANGED lost
     ELSE lost' = [lost EXCEPT ![p] = @ + 1] /\ UNCHANGED <<space, logged>>
  /\ UNCHANGED <<level, made, clock>>

PutChar(p) ==
  /\ p = "program" => left["handler"] = 0
  /\ left[p] > 0 /\ ready[p]
  /\ ready' = [ready EXCEPT ![p] = FALSE]
  /\ left' = [left EXCEPT ![p] = @ - 1]
  /\ IF space > 0
     THEN space' = space - 1 /\ logged' = Append(logged, <<p, made[p]>>) /\ UNCHANGED lost
     ELSE lost' = [lost EXCEPT ![p] = @ + 1] /\ UNCHANGED <<space, logged>>
  /\ UNCHANGED <<level, made, clock>>

(* The host takes a character.                                             *)
Drain ==
  /\ space < Space
  /\ space' = space + 1
  /\ UNCHANGED <<level, left, ready, logged, lost, made, clock>>

LogNext ==
  \/ ProgramLogs \/ HandlerLogs \/ alt_log_system_clock
  \/ \E p \in Writer : TestSpace(p) \/ PutChar(p)
  \/ Drain
-----------------------------------------------------------------------------
(* The test and the store of alt_log_txchar() are two accesses, and a      *)
(* handler may fill the UART in between (alt_log_printf.c:95-102): what is *)
(* lost is one character of the program for each such handler, never one   *)
(* of a handler and none at the levels at which handlers print nothing.    *)
LossOnlyByInterrupt ==
  /\ lost["handler"] = 0
  /\ lost["program"] <= made["handler"]
  /\ \A p \in Writer :
       Cardinality({i \in DOMAIN logged : logged[i][1] = p}) + lost[p] + left[p]
         = made[p] * Length

(* A handler tears a message of the program, but its own stays in one      *)
(* piece, and neither writer's messages are mixed with each other.         *)
HandlerMessagesWhole ==
  /\ \A i, j \in DOMAIN logged :
       i < j /\ logged[i] = logged[j] /\ logged[i][1] = "handler" =>
         \A k \in i .. j : logged[k] = logged[i]
  /\ \A i, j \in DOMAIN logged :
       i < j /\ logged[i][1] = logged[j][1] => logged[i][2] <= logged[j][2]

(* The heartbeat is not thrown out of step by the other messages: one      *)
(* comes every Interval + 1 ticks (alt_log_printf.c:464-476).  This is not *)
(* what is said of it: "every ALT_LOG_SYS_CLK_INTERVAL (in ticks)" (466),  *)
(* "every interval" (alt_log_printf.h:319), "The default value is every 1  *)
(* second" (308-310).                                                      *)
HeartbeatPeriod ==
  SysClkOn(level) => ticks = alt_system_clock_in_sec * (Interval + 1) + alt_log_sys_clk_count
=============================================================================
