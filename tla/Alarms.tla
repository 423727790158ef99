-------------------------------- MODULE Alarms --------------------------------
(***************************************************************************)
(* The system clock tick and its alarms: a tick counter of limited width,  *)
(* a doubly linked list of alarms, and callbacks that run in the middle of *)
(* a walk over that list and may themselves start and stop alarms.         *)
(*                                                                         *)
(* The program starts and stops alarms with interrupts disabled, so each   *)
(* of its calls is one step between two ticks.  A tick is many steps: one  *)
(* for each node of the walk, and one for each call a callback makes.      *)
(***************************************************************************)
EXTENDS Integers, FiniteSets

CONSTANTS
  Alarm,         \* alarm structures
  ListHead,      \* alt_alarm_list, the head of the list
  NoNode,        \* no pointer; also: no node under the walk
  Word,          \* the tick counter holds 0 .. Word - 1 (2^32)
  Delay,         \* delays alarms are started with
  Period,        \* periods callbacks return
  MayStopNext    \* a callback may stop the alarm that follows its own

Node == Alarm \cup {ListHead}

ASSUME AlarmAssumption ==
  /\ ListHead \notin Alarm /\ NoNode \notin Node
  /\ Word \in Nat /\ Word >= 2
  /\ Delay \subseteq 0 .. Word - 1
  /\ Period \subseteq 0 .. Word - 1
  /\ MayStopNext \in BOOLEAN

VARIABLES
  _alt_tick_rate,   \* a system clock has registered itself (alt_sysclk_init)
  _alt_nticks,
  next, previous,   \* the links of every node; NoNode: not yet initialised
  time, rollover,   \* the fields of every alarm
  alarm,            \* alt_tick's cursor; NoNode: no tick is being processed
  follow,           \* alt_tick's variable next, read before the callback
  incall            \* the callback of the alarm under the cursor is running

list == <<next, previous>>
walk == <<alarm, follow, incall>>
alarmsvars == <<_alt_tick_rate, _alt_nticks, list, time, rollover, walk>>

AlarmsInit ==
  /\ _alt_tick_rate = FALSE
  /\ _alt_nticks = 0
  /\ next = [x \in Node |-> IF x = ListHead THEN ListHead ELSE NoNode]
  /\ previous = next
  /\ time = [a \in Alarm |-> 0]
  /\ rollover = [a \in Alarm |-> FALSE]
  /\ alarm = NoNode /\ follow = NoNode /\ incall = FALSE

-----------------------------------------------------------------------------
(* alt_llist_insert(&alt_alarm_list, a): a becomes the first node. *)
Inserted(a) ==
  /\ previous' = [previous EXCEPT ![a] = ListHead, ![next[ListHead]] = a]
  /\ next' = [next EXCEPT ![a] = next[ListHead], ![ListHead] = a]

(* alt_llist_remove(a): the node is left pointing at itself, so that a     *)
(* second removal is harmless.  (Mutant: it keeps its links.)              *)
RemovedKeepsLinks(a) ==
  /\ previous' = [previous EXCEPT ![next[a]] = previous[a]]
  /\ next' = [next EXCEPT ![previous[a]] = next[a]]

Removed(a) ==
  /\ previous' = [[previous EXCEPT ![next[a]] = previous[a]] EXCEPT ![a] = a]
  /\ next' = [[next EXCEPT ![previous[a]] = next[a]] EXCEPT ![a] = a]

Listed(a) == next[a] \notin {a, NoNode}

-----------------------------------------------------------------------------
(* Who may call: the program between ticks, a callback during one.  *)
Caller == alarm = NoNode \/ incall

SysClkInit ==
  /\ ~ _alt_tick_rate
  /\ _alt_tick_rate' = TRUE
  /\ UNCHANGED <<_alt_nticks, list, time, rollover, walk>>

(* alt_alarm_start.  Without a clock or an alarm it fails and changes      *)
(* nothing.  An alarm that is in the list is not started again (the code   *)
(* does not check), and a callback sets its own alarm through its result.  *)
Due(nticks) == (nticks + _alt_nticks + 1) % Word

Wraps(t) == t < _alt_nticks

alt_alarm_start(a, nticks) ==
  /\ Caller /\ _alt_tick_rate
  /\ ~ Listed(a) /\ a # alarm
  /\ time' = [time EXCEPT ![a] = Due(nticks)]
  /\ rollover' = [rollover EXCEPT ![a] = Wraps(Due(nticks))]
  /\ Inserted(a)
  /\ UNCHANGED <<_alt_tick_rate, _alt_nticks, walk>>

(* alt_alarm_stop, for an alarm that has been started at some time. *)
alt_alarm_stop(a) ==
  /\ Caller
  /\ next[a] # NoNode
  /\ incall => MayStopNext \/ a # follow
  /\ Removed(a)
  /\ UNCHANGED <<_alt_tick_rate, _alt_nticks, time, rollover, walk>>

-----------------------------------------------------------------------------
(* alt_tick: the interrupt of the system clock counts the tick and starts  *)
(* its walk.                                                               *)
TickEnter ==
  /\ _alt_tick_rate
  /\ alarm = NoNode
  /\ _alt_nticks' = (_alt_nticks + 1) % Word
  /\ alarm' = IF next[ListHead] = ListHead THEN NoNode ELSE next[ListHead]
  /\ follow' = IF next[ListHead] = ListHead THEN NoNode ELSE next[next[ListHead]]
  /\ UNCHANGED <<_alt_tick_rate, list, time, rollover, incall>>

(* The cursor moves on to f, or the walk is over.  (Mutant: the link is    *)
(* read again after the callback.)                                         *)
AdvanceReread(f) ==
  LET g == next'[alarm] IN
    /\ alarm' = IF g = ListHead THEN NoNode ELSE g
    /\ follow' = IF g = ListHead THEN NoNode ELSE next'[g]

Advance(f) ==
  /\ alarm' = IF f = ListHead THEN NoNode ELSE f
  /\ follow' = IF f = ListHead THEN NoNode ELSE next'[f]

(* The roll-over flag is cleared in the tick that wraps the counter, once  *)
(* for each alarm.  (Mutant: never cleared.)                               *)
FlagKept == rollover[alarm]

Flag == rollover[alarm] /\ _alt_nticks # 0

(* (Mutant: without the flag.) *)
ExpiredEarly == time[alarm] <= _alt_nticks

Expired == time[alarm] <= _alt_nticks /\ ~ Flag

TickSkip ==
  /\ alarm # NoNode /\ ~ incall
  /\ ~ Expired
  /\ rollover' = [rollover EXCEPT ![alarm] = Flag]
  /\ UNCHANGED <<_alt_tick_rate, _alt_nticks, list, time, incall>>
  /\ Advance(follow)

TickCall ==
  /\ alarm # NoNode /\ ~ incall
  /\ Expired
  /\ rollover' = [rollover EXCEPT ![alarm] = Flag]
  /\ incall' = TRUE
  /\ UNCHANGED <<_alt_tick_rate, _alt_nticks, list, time, alarm, follow>>

(* The callback returns zero: the alarm is stopped. *)
TickDeactivate ==
  /\ incall
  /\ 0 \in Period
  /\ Removed(alarm)
  /\ Advance(follow)
  /\ incall' = FALSE
  /\ UNCHANGED <<_alt_tick_rate, _alt_nticks, time, rollover>>

(* The callback returns the ticks to the next callback.  (Mutant: counted  *)
(* from now on, with the tick's roll-over flag left out.)                  *)
TickRepeatNoFlag(period) ==
  /\ incall
  /\ time' = [time EXCEPT ![alarm] = (@ + period) % Word]
  /\ incall' = FALSE
  /\ UNCHANGED <<_alt_tick_rate, _alt_nticks, list, rollover>>
  /\ Advance(follow)

TickRepeat(period) ==
  /\ incall
  /\ LET t == (time[alarm] + period) % Word IN
       /\ time' = [time EXCEPT ![alarm] = t]
       /\ rollover' = [rollover EXCEPT ![alarm] = @ \/ Wraps(t)]
  /\ incall' = FALSE
  /\ UNCHANGED <<_alt_tick_rate, _alt_nticks, list>>
  /\ Advance(follow)

AlarmCalls ==
  \/ SysClkInit
  \/ \E a \in Alarm, nticks \in Delay : alt_alarm_start(a, nticks)
  \/ \E a \in Alarm : alt_alarm_stop(a)

TickStep ==
  \/ TickSkip
  \/ TickCall
  \/ TickDeactivate
  \/ \E period \in Period \ {0} : TickRepeat(period)

AlarmsNext == AlarmCalls \/ TickEnter \/ TickStep

(* An interrupt handler that has been entered runs on; a callback makes    *)
(* finitely many calls and returns.                                        *)
AlarmsSpec == AlarmsInit /\ [][AlarmsNext]_alarmsvars /\ WF_alarmsvars(TickStep)

-----------------------------------------------------------------------------
Calling == IF incall THEN alarm ELSE NoNode

AlarmsTypeOK ==
  /\ _alt_tick_rate \in BOOLEAN
  /\ _alt_nticks \in 0 .. Word - 1
  /\ next \in [Node -> Node \cup {NoNode}]
  /\ previous \in [Node -> Node \cup {NoNode}]
  /\ time \in [Alarm -> 0 .. Word - 1]
  /\ rollover \in [Alarm -> BOOLEAN]
  /\ alarm \in Alarm \cup {NoNode}
  /\ follow \in Node \cup {NoNode}
  /\ incall \in BOOLEAN
  /\ (alarm = NoNode) = (follow = NoNode)
  /\ incall => alarm # NoNode

(* The list stays a doubly linked ring through the head, whatever order    *)
(* alarms are started and stopped in (alt_llist.h:90-117), also by a       *)
(* callback in the middle of the walk, and stopping an alarm twice is      *)
(* harmless.                                                               *)
RingOK ==
  \A x \in Node :
    IF next[x] = NoNode THEN x # ListHead /\ previous[x] = NoNode
    ELSE previous[x] # NoNode /\ previous[next[x]] = x /\ next[previous[x]] = x

(* What the ring rests on during a walk: the nodes the walk holds have     *)
(* been on the list, so they have links to remove them by.                 *)
CursorOK == alarm # NoNode => next[alarm] # NoNode /\ next[follow] # NoNode

ListInv == AlarmsTypeOK /\ RingOK /\ CursorOK

(* The alarms implement AlarmClock: each callback is made in exactly the   *)
(* tick it is due, neither missed nor early when the counter or the expiry *)
(* time wraps (alt_tick.c:109-137, alt_alarm_start.c:82-96), and never     *)
(* after the alarm has been stopped.  The ticks to go of a listed alarm    *)
(* are the distance of its time from the counter.                          *)
Clock == INSTANCE AlarmClock WITH
  None    <- NoNode,
  Off     <- -1,
  due     <- [a \in Alarm |-> IF Listed(a) THEN (time[a] - _alt_nticks) % Word ELSE -1],
  calling <- Calling
OnTime == Clock!Spec

(* A tick's walk over the list ends (alt_tick.c:100-142), although the     *)
(* callbacks change the list under it.                                     *)
TickEnds == alarm # NoNode ~> alarm = NoNode

-----------------------------------------------------------------------------
(* A statement of the sources that the code does not meet. *)

(* sys/alt_alarm.h:73: "alt_alarm_stop() is used to unregister a callback." *)
(* A callback that is made belongs to an alarm that is registered.         *)
StoppedIsSilent ==
  [][\A a \in Alarm : Calling # a /\ Calling' = a => Listed(a)]_alarmsvars

=============================================================================
