------------------------------ MODULE AlarmClock ------------------------------
(***************************************************************************)
(* What alarms promise to the code that sets them: every alarm has a       *)
(* number of ticks to go, without width or list; its callback is made in   *)
(* the tick that brings it to zero and in no other, and a stopped alarm    *)
(* is silent.                                                              *)
(***************************************************************************)
EXTENDS Integers

CONSTANTS
  Alarm,
  Delay,    \* ticks alt_alarm_start may be asked for
  Period,   \* what a callback may return; zero means: no more
  Off,      \* not set
  None      \* no callback is running

VARIABLES
  due,      \* ticks to go, or Off
  calling   \* the alarm whose callback is running, or None

Init ==
  /\ due = [a \in Alarm |-> Off]
  /\ calling = None

Start(a, nticks) ==
  /\ due[a] = Off
  /\ due' = [due EXCEPT ![a] = nticks + 1]
  /\ UNCHANGED calling

Stop(a) ==
  /\ due' = [due EXCEPT ![a] = Off]
  /\ UNCHANGED calling

(* The next tick comes only when this one has made all its callbacks. *)
Tick ==
  /\ calling = None
  /\ \A a \in Alarm : due[a] # 0
  /\ due' = [a \in Alarm |-> IF due[a] = Off THEN Off ELSE due[a] - 1]
  /\ UNCHANGED calling

Call(a) ==
  /\ calling = None
  /\ due[a] = 0
  /\ calling' = a
  /\ UNCHANGED due

(* A callback that has stopped its own alarm does not set it again. *)
Return(a, period) ==
  /\ calling = a
  /\ calling' = None
  /\ due' = [due EXCEPT ![a] = IF due[a] = Off \/ period = 0 THEN Off ELSE period]

Next ==
  \/ \E a \in Alarm, nticks \in Delay : Start(a, nticks)
  \/ \E a \in Alarm : Stop(a)
  \/ Tick
  \/ \E a \in Alarm : Call(a)
  \/ \E a \in Alarm, period \in Period : Return(a, period)

Spec == Init /\ [][Next]_<<due, calling>>
===============================================================================
