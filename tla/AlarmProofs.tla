----------------------------- MODULE AlarmProofs -----------------------------
(***************************************************************************)
(* For any number of alarms and any width of the tick counter: the alarm   *)
(* list is a doubly linked ring at all times, whatever callbacks do to it  *)
(* in the middle of a walk (MayStopNext included); and every callback is   *)
(* made in its tick, unless a callback stops the alarm after its own.      *)
(***************************************************************************)
EXTENDS Alarms, TLAPS

(* Insertion of a node that is not on the list keeps the ring. *)
LEMMA InsertedRing ==
  ASSUME AlarmAssumption, AlarmsTypeOK, RingOK, NEW a \in Alarm, ~ Listed(a), Inserted(a)
  PROVE  /\ next' \in [Node -> Node \cup {NoNode}]
         /\ previous' \in [Node -> Node \cup {NoNode}]
         /\ RingOK'
         /\ \A x \in Node : next[x] # NoNode => next'[x] # NoNode
<1> USE DEF Node
<1>1. a # ListHead /\ NoNode \notin Node /\ ListHead \in Node
  BY DEF AlarmAssumption
<1> DEFINE h == next[ListHead]
<1>2. h \in Node /\ previous[h] = ListHead /\ next[h] # NoNode /\ h # a
  BY <1>1 DEF AlarmsTypeOK, RingOK, Listed
<1>3. \A x \in Node : x # a /\ next[x] # NoNode => next[x] # a /\ previous[x] # a
  BY <1>1 DEF AlarmsTypeOK, RingOK, Listed
<1>4. next' = [next EXCEPT ![a] = h, ![ListHead] = a]
  BY DEF Inserted
<1>5. previous' = [previous EXCEPT ![a] = ListHead, ![h] = a]
  BY DEF Inserted
<1>6. next' \in [Node -> Node \cup {NoNode}] /\ previous' \in [Node -> Node \cup {NoNode}]
  BY <1>1, <1>2, <1>4, <1>5 DEF AlarmsTypeOK
<1>7. \A x \in Node : next'[x] = IF x = ListHead THEN a ELSE IF x = a THEN h ELSE next[x]
  BY <1>1, <1>4 DEF AlarmsTypeOK
<1>8. \A x \in Node : previous'[x] = IF x = h THEN a ELSE IF x = a THEN ListHead ELSE previous[x]
  BY <1>1, <1>2, <1>5 DEF AlarmsTypeOK
<1>9. RingOK'
  <2> SUFFICES ASSUME NEW x \in Node
               PROVE IF next'[x] = NoNode THEN x # ListHead /\ previous'[x] = NoNode
                     ELSE previous'[x] # NoNode /\ previous'[next'[x]] = x
                          /\ next'[previous'[x]] = x
    BY DEF RingOK
  <2>1. CASE x = ListHead
    BY <2>1, <1>1, <1>2, <1>3, <1>7, <1>8 DEF AlarmsTypeOK, RingOK
  <2>2. CASE x = a
    BY <2>2, <1>1, <1>2, <1>3, <1>7, <1>8 DEF AlarmsTypeOK, RingOK
  <2>3. CASE x # a /\ x # ListHead
    BY <2>3, <1>1, <1>2, <1>3, <1>7, <1>8 DEF AlarmsTypeOK, RingOK
  <2> QED BY <2>1, <2>2, <2>3
<1> QED BY <1>1, <1>2, <1>6, <1>7, <1>9

(* So does removal, of a node on the list or of one removed before. *)
LEMMA RemovedRing ==
  ASSUME AlarmAssumption, AlarmsTypeOK, RingOK, NEW a \in Alarm, next[a] # NoNode, Removed(a)
  PROVE  /\ next' \in [Node -> Node \cup {NoNode}]
         /\ previous' \in [Node -> Node \cup {NoNode}]
         /\ RingOK'
         /\ \A x \in Node : next[x] # NoNode => next'[x] # NoNode
<1> USE DEF Node
<1> DEFINE s == next[a]
           p == previous[a]
<1>1. a # ListHead /\ NoNode \notin Node /\ a \in Node
  BY DEF AlarmAssumption
<1>2. s \in Node /\ p \in Node /\ next[s] # NoNode /\ next[p] # NoNode
      /\ previous[s] = a /\ next[p] = a
  BY <1>1 DEF AlarmsTypeOK, RingOK
<1>3. \A x \in Node : next'[x] = IF x = a THEN a ELSE IF x = p THEN s ELSE next[x]
  BY <1>1, <1>2 DEF Removed, AlarmsTypeOK
<1>4. \A x \in Node : previous'[x] = IF x = a THEN a ELSE IF x = s THEN p ELSE previous[x]
  BY <1>1, <1>2 DEF Removed, AlarmsTypeOK
<1>5. next' \in [Node -> Node \cup {NoNode}] /\ previous' \in [Node -> Node \cup {NoNode}]
  BY <1>1, <1>2 DEF Removed, AlarmsTypeOK
<1>6. RingOK'
  <2> SUFFICES ASSUME NEW x \in Node
               PROVE IF next'[x] = NoNode THEN x # ListHead /\ previous'[x] = NoNode
                     ELSE previous'[x] # NoNode /\ previous'[next'[x]] = x
                          /\ next'[previous'[x]] = x
    BY DEF RingOK
  <2>1. CASE x = a
    BY <2>1, <1>1, <1>3, <1>4 DEF RingOK
  <2>2. CASE x # a /\ next[x] = NoNode
    BY <2>2, <1>1, <1>2, <1>3, <1>4 DEF RingOK
  <2>3. CASE x # a /\ next[x] # NoNode
    BY <2>3, <1>1, <1>2, <1>3, <1>4 DEF RingOK, AlarmsTypeOK
  <2> QED BY <2>1, <2>2, <2>3
<1> QED BY <1>1, <1>2, <1>3, <1>5, <1>6

(* The walk moves on to a node that has been on the list. *)
LEMMA AdvanceCursor ==
  ASSUME AlarmAssumption, AlarmsTypeOK, CursorOK, alarm # NoNode, RingOK',
         next' \in [Node -> Node \cup {NoNode}],
         \A x \in Node : next[x] # NoNode => next'[x] # NoNode,
         Advance(follow)
  PROVE  /\ alarm' \in Alarm \cup {NoNode} /\ follow' \in Node \cup {NoNode}
         /\ (alarm' = NoNode) = (follow' = NoNode)
         /\ CursorOK'
<1>1. follow \in Node /\ next[follow] # NoNode /\ next'[follow] # NoNode
  BY DEF AlarmsTypeOK, CursorOK, Node
<1>2. CASE follow = ListHead
  BY <1>2 DEF Advance, CursorOK
<1>3. CASE follow # ListHead
  <2>1. alarm' = follow /\ follow' = next'[follow] /\ follow \in Alarm
    BY <1>1, <1>3 DEF Advance, Node
  <2>2. next'[follow] \in Node /\ next'[next'[follow]] # NoNode
    BY <1>1 DEF RingOK, Node, AlarmAssumption
  <2> QED BY <2>1, <2>2, <1>1 DEF CursorOK, AlarmAssumption, Node
<1> QED BY <1>2, <1>3

LEMMA WordFacts ==
  ASSUME AlarmAssumption, NEW i \in Int
  PROVE  i % Word \in 0 .. Word - 1
BY DEF AlarmAssumption

LEMMA InitListInv == AlarmAssumption /\ AlarmsInit => ListInv
<1> SUFFICES ASSUME AlarmAssumption, AlarmsInit PROVE ListInv
  OBVIOUS
<1>1. ListHead \in Node /\ ListHead # NoNode /\ 0 \in 0 .. Word - 1
  BY DEF AlarmAssumption, Node
<1>2. /\ next \in [Node -> Node \cup {NoNode}] /\ previous \in [Node -> Node \cup {NoNode}]
      /\ \A x \in Node : next[x] = IF x = ListHead THEN ListHead ELSE NoNode
      /\ \A x \in Node : previous[x] = IF x = ListHead THEN ListHead ELSE NoNode
  BY <1>1 DEF AlarmsInit
<1>3. AlarmsTypeOK
  BY <1>1, <1>2 DEF AlarmsInit, AlarmsTypeOK
<1>4. RingOK
  BY <1>1, <1>2 DEF RingOK
<1> QED BY <1>3, <1>4 DEF ListInv, CursorOK, AlarmsInit

LEMMA NextListInv == AlarmAssumption /\ ListInv /\ [AlarmsNext]_alarmsvars => ListInv'
<1> SUFFICES ASSUME AlarmAssumption, ListInv, [AlarmsNext]_alarmsvars PROVE ListInv'
  OBVIOUS
<1> USE DEF ListInv
<1>0. AlarmsTypeOK /\ RingOK /\ CursorOK
  OBVIOUS
<1>1. CASE SysClkInit
  BY <1>0, <1>1 DEF SysClkInit, AlarmsTypeOK, RingOK, CursorOK, list, walk
<1>2. ASSUME NEW a \in Alarm, NEW nticks \in Delay, alt_alarm_start(a, nticks)
      PROVE  ListInv'
  <2>1. /\ next' \in [Node -> Node \cup {NoNode}] /\ previous' \in [Node -> Node \cup {NoNode}]
        /\ RingOK' /\ \A x \in Node : next[x] # NoNode => next'[x] # NoNode
    BY <1>0, <1>2, InsertedRing DEF alt_alarm_start
  <2>2. Due(nticks) \in 0 .. Word - 1 /\ Wraps(Due(nticks)) \in BOOLEAN
    <3>1. nticks + _alt_nticks + 1 \in Int
      BY <1>0 DEF AlarmAssumption, AlarmsTypeOK
    <3> QED BY <3>1, WordFacts DEF Due, Wraps
  <2>3. time' \in [Alarm -> 0 .. Word - 1] /\ rollover' \in [Alarm -> BOOLEAN]
    BY <1>0, <1>2, <2>2 DEF alt_alarm_start, AlarmsTypeOK
  <2>4. CursorOK'
    BY <1>0, <1>2, <2>1 DEF alt_alarm_start, CursorOK, AlarmsTypeOK, walk, Node
  <2> QED BY <1>0, <1>2, <2>1, <2>3, <2>4 DEF alt_alarm_start, AlarmsTypeOK, walk
<1>3. ASSUME NEW a \in Alarm, alt_alarm_stop(a)
      PROVE  ListInv'
  <2>1. /\ next' \in [Node -> Node \cup {NoNode}] /\ previous' \in [Node -> Node \cup {NoNode}]
        /\ RingOK' /\ \A x \in Node : next[x] # NoNode => next'[x] # NoNode
    BY <1>0, <1>3, RemovedRing DEF alt_alarm_stop
  <2>2. CursorOK'
    BY <1>0, <1>3, <2>1 DEF alt_alarm_stop, CursorOK, AlarmsTypeOK, walk, Node
  <2> QED BY <1>0, <1>3, <2>1, <2>2 DEF alt_alarm_stop, AlarmsTypeOK, walk
<1>4. CASE TickEnter
  <2>1. (_alt_nticks + 1) % Word \in 0 .. Word - 1
    BY <1>0, WordFacts DEF AlarmsTypeOK, AlarmAssumption
  <2>2. next[ListHead] \in Node /\ next[next[ListHead]] \in Node /\ next[next[next[ListHead]]] # NoNode
    BY <1>0 DEF AlarmsTypeOK, RingOK, Node, AlarmAssumption
  <2>3. RingOK'
    BY <1>0, <1>4 DEF TickEnter, RingOK, list
  <2>4. CursorOK'
    BY <1>0, <1>4, <2>2 DEF TickEnter, CursorOK, list, RingOK, Node, AlarmAssumption
  <2> QED BY <1>0, <1>4, <2>1, <2>2, <2>3, <2>4
          DEF TickEnter, AlarmsTypeOK, list, Node, AlarmAssumption
<1>5. ASSUME TickSkip \/ TickCall PROVE ListInv'
  <2>1. RingOK' /\ next' = next /\ rollover' \in [Alarm -> BOOLEAN]
    BY <1>0, <1>5 DEF TickSkip, TickCall, RingOK, AlarmsTypeOK, list, Flag
  <2>2. CASE TickSkip
    BY <1>0, <2>1, <2>2, AdvanceCursor DEF TickSkip, AlarmsTypeOK, list
  <2>3. CASE TickCall
    BY <1>0, <2>1, <2>3 DEF TickCall, AlarmsTypeOK, CursorOK, list
  <2> QED BY <1>5, <2>2, <2>3
<1>6. CASE TickDeactivate
  <2>1. alarm \in Alarm /\ next[alarm] # NoNode
    BY <1>0, <1>6 DEF TickDeactivate, AlarmsTypeOK, CursorOK
  <2>2. /\ next' \in [Node -> Node \cup {NoNode}] /\ previous' \in [Node -> Node \cup {NoNode}]
        /\ RingOK' /\ \A x \in Node : next[x] # NoNode => next'[x] # NoNode
    BY <1>0, <1>6, <2>1, RemovedRing DEF TickDeactivate
  <2>3. /\ alarm' \in Alarm \cup {NoNode} /\ follow' \in Node \cup {NoNode}
        /\ (alarm' = NoNode) = (follow' = NoNode) /\ CursorOK'
    BY <1>0, <1>6, <2>1, <2>2, AdvanceCursor DEF TickDeactivate, AlarmsTypeOK
  <2> QED BY <1>0, <1>6, <2>2, <2>3 DEF TickDeactivate, AlarmsTypeOK
<1>7. ASSUME NEW period \in Period \ {0}, TickRepeat(period) PROVE ListInv'
  <2>1. alarm \in Alarm /\ RingOK' /\ next' = next
    BY <1>0, <1>7 DEF TickRepeat, AlarmsTypeOK, RingOK, list
  <2>2. (time[alarm] + period) % Word \in 0 .. Word - 1
    BY <1>0, <2>1, WordFacts DEF AlarmsTypeOK, AlarmAssumption
  <2>3. time' \in [Alarm -> 0 .. Word - 1] /\ rollover' \in [Alarm -> BOOLEAN]
    BY <1>0, <1>7, <2>1, <2>2 DEF TickRepeat, AlarmsTypeOK, Wraps
  <2>4. /\ alarm' \in Alarm \cup {NoNode} /\ follow' \in Node \cup {NoNode}
        /\ (alarm' = NoNode) = (follow' = NoNode) /\ CursorOK'
    BY <1>0, <1>7, <2>1, AdvanceCursor DEF TickRepeat, AlarmsTypeOK
  <2> QED BY <1>0, <1>7, <2>1, <2>3, <2>4 DEF TickRepeat, AlarmsTypeOK, list
<1>8. CASE UNCHANGED alarmsvars
  BY <1>0, <1>8 DEF alarmsvars, list, walk, AlarmsTypeOK, RingOK, CursorOK
<1> QED BY <1>1, <1>2, <1>3, <1>4, <1>5, <1>6, <1>7, <1>8 DEF AlarmsNext, AlarmCalls, TickStep

(* The links are consistent and every variable is of its type, in every    *)
(* state: alt_llist_insert and alt_llist_remove never corrupt the list.    *)
THEOREM RingInvariance == AlarmsSpec => [](AlarmsTypeOK /\ RingOK)
<1>1. AlarmsInit => ListInv
  BY InitListInv, AlarmAssumption
<1>2. ListInv /\ [AlarmsNext]_alarmsvars => ListInv'
  BY NextListInv, AlarmAssumption
<1>3. ListInv => AlarmsTypeOK /\ RingOK
  BY DEF ListInv
<1> QED BY <1>1, <1>2, <1>3, PTL DEF AlarmsSpec

-----------------------------------------------------------------------------
(* The rest of this module is about time: the alarms implement AlarmClock. *)

(* Where the nodes stand: pos falls along the links, from the first alarm  *)
(* to the head, and no listed alarm stands between two neighbours.         *)
Order(pos) ==
  /\ pos \in [Node -> Nat]
  /\ pos[ListHead] = 0
  /\ \A x \in Alarm : Listed(x) => pos[next[x]] < pos[x] /\ pos[x] <= pos[next[ListHead]]
  /\ \A x, y \in Alarm :
       Listed(x) /\ Listed(y) /\ x # y /\ pos[x] <= pos[y] => pos[x] <= pos[next[y]]

(* The walk stands on a listed alarm, unless its own callback has stopped  *)
(* it, and will move towards the head.                                     *)
Standing(pos) ==
  alarm # NoNode => /\ incall \/ Listed(alarm)
                    /\ follow = ListHead \/ Listed(follow)
                    /\ Listed(alarm) => pos[follow] < pos[alarm]

(* The walk has still to test x in this tick. *)
Ahead(pos, x) == alarm # NoNode /\ ((x = alarm /\ ~ incall) \/ pos[x] <= pos[follow])

(* The flag tells whether the time lies before or after the next wrap of   *)
(* the counter: against this tick once tested in it, else the last one.    *)
Tested(x) ==
  /\ time[x] # _alt_nticks
  /\ rollover[x] = (time[x] < _alt_nticks)

Untested(x) ==
  IF _alt_nticks = 0 THEN time[x] # Word - 1
  ELSE /\ time[x] # _alt_nticks - 1
       /\ rollover[x] = (time[x] < _alt_nticks - 1)

(* A callback runs in its tick; the other alarms are as the walk leaves    *)
(* them behind or will find them.                                          *)
Dates(pos) ==
  \A x \in Alarm : Listed(x) =>
    /\ incall /\ x = alarm => time[x] = _alt_nticks /\ ~ rollover[x]
    /\ Ahead(pos, x) => Untested(x)
    /\ ~ (incall /\ x = alarm) /\ ~ Ahead(pos, x) => Tested(x)

TimelyInv ==
  /\ ListInv
  /\ \E pos \in [Node -> Nat] : Order(pos) /\ Standing(pos) /\ Dates(pos)

(* A started alarm comes first: no walk under way will meet it. *)
LEMMA InsertedOrder ==
  ASSUME AlarmAssumption, AlarmsTypeOK, RingOK, NEW pos, Order(pos),
         NEW a \in Alarm, ~ Listed(a), Inserted(a),
         NEW h, h = next[ListHead], NEW q, q = [pos EXCEPT ![a] = pos[h] + 1]
  PROVE  /\ q \in [Node -> Nat] /\ Order(q)' /\ Listed(a)'
         /\ \A x \in Alarm \ {a} : Listed(x)' = Listed(x)
<1> USE DEF Node
<1>1. a # ListHead /\ NoNode \notin Node /\ ListHead \in Node
  BY DEF AlarmAssumption
<1>2. h \in Node /\ h # a
  BY <1>1 DEF AlarmsTypeOK, RingOK, Listed
<1>3. \A x \in Node : next'[x] = IF x = ListHead THEN a ELSE IF x = a THEN h ELSE next[x]
  BY <1>1 DEF AlarmsTypeOK, Inserted
<1>4. /\ q \in [Node -> Nat] /\ q[a] = pos[h] + 1
      /\ \A x \in Node : x # a => q[x] = pos[x]
  BY <1>2 DEF Order
<1>5. \A x \in Alarm \ {a} : Listed(x)' = Listed(x) /\ next'[x] = next[x]
  BY <1>1, <1>3 DEF Listed
<1>6. Listed(a)' /\ next'[a] = h /\ next'[ListHead] = a
  BY <1>1, <1>2, <1>3 DEF Listed
<1>7. \A x \in Alarm : x # a /\ Listed(x) => next[x] # a /\ next[x] \in Node
  BY <1>1 DEF AlarmsTypeOK, RingOK, Listed
<1>8. \A x \in Alarm : Listed(x)' => q[next'[x]] < q[x] /\ q[x] <= q[next'[ListHead]]
  <2> SUFFICES ASSUME NEW x \in Alarm, Listed(x)'
               PROVE  q[next'[x]] < q[x] /\ q[x] <= q[a]
    BY <1>6
  <2>1. CASE x = a
    BY <2>1, <1>2, <1>4, <1>6 DEF Order
  <2>2. CASE x # a
    BY <2>2, <1>2, <1>4, <1>5, <1>7 DEF Order
  <2> QED BY <2>1, <2>2
<1>9. \A x, y \in Alarm :
        Listed(x)' /\ Listed(y)' /\ x # y /\ q[x] <= q[y] => q[x] <= q[next'[y]]
  <2> SUFFICES ASSUME NEW x \in Alarm, NEW y \in Alarm,
                      Listed(x)', Listed(y)', x # y, q[x] <= q[y]
               PROVE  q[x] <= q[next'[y]]
    OBVIOUS
  <2>1. CASE x = a
    BY <2>1, <1>2, <1>4, <1>5 DEF Order
  <2>2. CASE x # a /\ y = a
    BY <2>2, <1>2, <1>4, <1>5, <1>6 DEF Order
  <2>3. CASE x # a /\ y # a
    BY <2>3, <1>4, <1>5, <1>7 DEF Order
  <2> QED BY <2>1, <2>2, <2>3
<1> QED BY <1>1, <1>4, <1>5, <1>6, <1>8, <1>9 DEF Order

(* Removal leaves the order of the others, and they stay listed. *)
LEMMA RemovedOrder ==
  ASSUME AlarmAssumption, AlarmsTypeOK, RingOK, NEW pos, Order(pos),
         NEW a \in Alarm, next[a] # NoNode, Removed(a)
  PROVE  /\ Order(pos)' /\ ~ Listed(a)'
         /\ \A x \in Alarm \ {a} : Listed(x)' = Listed(x)
<1> USE DEF Node
<1> DEFINE s == next[a]
           p == previous[a]
<1>1. a # ListHead /\ NoNode \notin Node /\ a \in Node /\ ListHead \in Node
  BY DEF AlarmAssumption
<1>2. s \in Node /\ p \in Node /\ previous[s] = a /\ next[p] = a
  BY <1>1 DEF AlarmsTypeOK, RingOK
<1>3. \A x \in Node : next'[x] = IF x = a THEN a ELSE IF x = p THEN s ELSE next[x]
  BY <1>1, <1>2 DEF Removed, AlarmsTypeOK
<1>4. CASE s = a
  <2>1. p = a
    BY <1>4, <1>2
  <2>2. \A x \in Node : next'[x] = next[x]
    BY <1>3, <1>4, <2>1
  <2> QED BY <1>1, <1>4, <2>2 DEF Order, Listed, AlarmsTypeOK
<1>5. CASE s # a
  <2>1. Listed(a) /\ p # a /\ pos[s] < pos[a]
    BY <1>1, <1>2, <1>5 DEF Listed, Order
  <2>2. p \in Alarm => Listed(p) /\ pos[a] < pos[p] /\ s # p
    BY <1>1, <1>2, <2>1 DEF Listed, Order
  <2>3. ~ Listed(a)'
    BY <1>1, <1>3 DEF Listed
  <2>4. \A x \in Alarm \ {a} : Listed(x)' = Listed(x)
    BY <1>1, <1>2, <1>3, <2>1, <2>2 DEF Listed
  <2>5. \A x \in Alarm \ {a}, y \in Node \ {a} :
          Listed(x) /\ x # y /\ pos[x] <= pos[next[y]] => pos[x] <= pos[next'[y]]
    BY <1>1, <1>2, <1>3, <2>1 DEF Order
  <2>6. \A x \in Alarm \ {a} : Listed(x) => pos[next'[x]] < pos[x]
    BY <1>1, <1>2, <1>3, <2>1, <2>2 DEF Order
  <2> QED BY <1>1, <2>3, <2>4, <2>5, <2>6 DEF Order
<1> QED BY <1>4, <1>5

(* A node that follows a listed alarm is the head or another listed alarm. *)
LEMMA FollowsListed ==
  ASSUME AlarmAssumption, NEW nx \in [Node -> Node \cup {NoNode}],
         NEW pv \in [Node -> Node \cup {NoNode}],
         \A x \in Node : IF nx[x] = NoNode THEN x # ListHead /\ pv[x] = NoNode
                         ELSE pv[x] # NoNode /\ pv[nx[x]] = x /\ nx[pv[x]] = x,
         NEW y \in Node, nx[y] \notin {y, NoNode}
  PROVE  nx[y] \in Node /\ (nx[y] = ListHead \/ nx[nx[y]] \notin {nx[y], NoNode})
BY DEF Node, AlarmAssumption

(* The walk moves on: what it left untested stays so, and the alarm it     *)
(* has been at is tested.                                                  *)
LEMMA AdvanceTimely ==
  ASSUME AlarmAssumption, AlarmsTypeOK, AlarmsTypeOK', RingOK', NEW pos, Order(pos)', alarm # NoNode,
         NEW f, f = follow, f = ListHead \/ Listed(f)', Advance(f), incall' = FALSE,
         \A x \in Alarm : Listed(x)' =>
           IF pos[x] <= pos[f] THEN Untested(x)' ELSE Tested(x)'
  PROVE  Standing(pos)' /\ Dates(pos)'
<1>1. /\ next' \in [Node -> Node \cup {NoNode}] /\ previous' \in [Node -> Node \cup {NoNode}]
      /\ ListHead \in Node /\ ListHead \notin Alarm /\ NoNode \notin Node /\ f \in Node
  BY DEF AlarmsTypeOK, AlarmAssumption, Node
<1>2. \A x \in Alarm : Listed(x)' => next'[x] \in Node /\ pos[x] \in Nat /\ pos[x] > 0
  BY <1>1 DEF Listed, Order, Node
<1>3. CASE f = ListHead
  <2>1. alarm' = NoNode /\ pos[f] = 0
    BY <1>3 DEF Advance, Order
  <2> QED BY <2>1, <1>2, <1>1 DEF Standing, Dates, Ahead
<1>4. CASE f # ListHead
  <2>1. /\ alarm' = f /\ f \in Alarm /\ follow' = next'[f]
        /\ next'[f] \notin {f, NoNode} /\ Listed(f)'
    BY <1>1, <1>4 DEF Advance, Listed, Node
  <2>2. next'[f] \in Node
        /\ (next'[f] = ListHead \/ next'[next'[f]] \notin {next'[f], NoNode})
    BY <1>1, <2>1, FollowsListed DEF RingOK
  <2>3. pos[next'[f]] < pos[f] /\ pos[next'[f]] \in Nat /\ pos[f] \in Nat
    BY <1>1, <2>1, <2>2 DEF Order
  <2>4. Standing(pos)'
    BY <2>1, <2>2, <2>3 DEF Standing, Listed
  <2>5. \A x \in Alarm : Listed(x)' => (Ahead(pos, x)' <=> pos[x] <= pos[f])
    BY <1>1, <1>2, <2>1, <2>2, <2>3 DEF Ahead, Order
  <2> QED BY <2>1, <2>4, <2>5 DEF Dates
<1> QED BY <1>3, <1>4

(* The distance from m to t, and the sum of both, on a counter that wraps. *)
LEMMA Distance ==
  ASSUME AlarmAssumption, NEW t \in 0 .. Word - 1, NEW m \in 0 .. Word - 1
  PROVE  (t - m) % Word = IF t >= m THEN t - m ELSE t - m + Word
BY DEF AlarmAssumption

LEMMA Later ==
  ASSUME AlarmAssumption, NEW t \in 0 .. Word - 1, NEW m \in 0 .. Word - 1
  PROVE  (t + m) % Word = IF t + m < Word THEN t + m ELSE t + m - Word
BY DEF AlarmAssumption

(* The ticks to go of every alarm, as the refinement maps them. *)
Remaining ==
  [a \in Alarm |-> IF Listed(a) THEN (time[a] - _alt_nticks) % Word ELSE -1]

LEMMA StartTimely ==
  ASSUME AlarmAssumption, ListInv, NEW pos, Order(pos), Standing(pos), Dates(pos),
         NEW a \in Alarm, NEW nticks \in Delay \ {Word - 1}, alt_alarm_start(a, nticks)
  PROVE  /\ \E q \in [Node -> Nat] : Order(q)' /\ Standing(q)' /\ Dates(q)'
         /\ Remaining[a] = -1 /\ Remaining' = [Remaining EXCEPT ![a] = nticks + 1]
         /\ Calling' = Calling
<1>0. PICK h, q : h = next[ListHead] /\ q = [pos EXCEPT ![a] = pos[h] + 1]
  OBVIOUS
<1>1. AlarmsTypeOK /\ RingOK
  BY DEF ListInv
<1>2. /\ q \in [Node -> Nat] /\ Order(q)' /\ Listed(a)'
      /\ \A x \in Alarm \ {a} : Listed(x)' = Listed(x)
  BY <1>0, <1>1, InsertedOrder DEF alt_alarm_start
<1>3. /\ a # ListHead /\ ListHead \in Node /\ h \in Node /\ NoNode \notin Node
      /\ pos \in [Node -> Nat] /\ a \in Node
      /\ q[a] = pos[h] + 1 /\ \A x \in Node : x # a => q[x] = pos[x]
  BY <1>0, <1>1 DEF AlarmAssumption, Node, AlarmsTypeOK, RingOK, Order
<1>4. /\ UNCHANGED <<_alt_nticks, alarm, follow, incall>> /\ ~ Listed(a) /\ a # alarm
      /\ \A x \in Alarm : time'[x] = IF x = a THEN Due(nticks) ELSE time[x]
      /\ \A x \in Alarm : rollover'[x] = IF x = a THEN Wraps(Due(nticks)) ELSE rollover[x]
  BY <1>1 DEF alt_alarm_start, walk, AlarmsTypeOK
<1>5. /\ nticks + 1 \in 0 .. Word - 1 /\ nticks + 1 > 0 /\ _alt_nticks \in 0 .. Word - 1
      /\ Due(nticks) = ((nticks + 1) + _alt_nticks) % Word
  BY <1>1 DEF AlarmAssumption, AlarmsTypeOK, Due
<1>6. Due(nticks) = IF nticks + 1 + _alt_nticks < Word THEN nticks + 1 + _alt_nticks
                    ELSE nticks + 1 + _alt_nticks - Word
  <2> DEFINE m == nticks + 1
  <2>1. m \in 0 .. Word - 1 /\ Due(nticks) = (m + _alt_nticks) % Word
    BY <1>5
  <2> HIDE DEF m
  <2>2. Due(nticks) = IF m + _alt_nticks < Word THEN m + _alt_nticks
                      ELSE m + _alt_nticks - Word
    BY <1>5, <2>1, Later
  <2> QED BY <2>2 DEF m
<1>7. Due(nticks) \in 0 .. Word - 1 /\ Due(nticks) # _alt_nticks
  BY <1>5, <1>6 DEF AlarmAssumption
<1>8. alarm # NoNode => /\ follow \in Node /\ follow # a /\ q[follow] = pos[follow]
                        /\ q[follow] < q[a]
                        /\ alarm \in Alarm \ {a} /\ q[alarm] = pos[alarm]
                        /\ Listed(alarm)' = Listed(alarm)
                        /\ (follow = ListHead \/ Listed(follow)')
  <2> SUFFICES ASSUME alarm # NoNode
               PROVE  /\ follow \in Node /\ follow # a /\ q[follow] = pos[follow]
                      /\ q[follow] < q[a]
                      /\ alarm \in Alarm \ {a} /\ q[alarm] = pos[alarm]
                      /\ Listed(alarm)' = Listed(alarm)
                      /\ (follow = ListHead \/ Listed(follow)')
    OBVIOUS
  <2>1. follow \in Node /\ follow # a /\ alarm \in Alarm \ {a}
    BY <1>1, <1>3, <1>4 DEF AlarmsTypeOK, Standing, Node
  <2>2. q[follow] = pos[follow] /\ q[alarm] = pos[alarm]
    BY <1>3, <2>1 DEF Node
  <2>3. pos[follow] <= pos[h] /\ pos[follow] \in Nat /\ pos[h] \in Nat
    BY <1>0, <1>3, <2>1 DEF Standing, Order, Node
  <2>4. follow = ListHead \/ Listed(follow)'
    BY <1>2, <1>3, <1>4, <2>1 DEF Standing, Node, Listed
  <2>5. Listed(alarm)' = Listed(alarm)
    BY <1>2, <1>4, <2>1 DEF Listed
  <2>6. q[follow] < q[a]
    BY <1>3, <2>2, <2>3
  <2> QED BY <2>1, <2>2, <2>4, <2>5, <2>6
<1>9. Standing(q)'
  BY <1>1, <1>4, <1>8 DEF Standing, Listed
<1>10. Dates(q)'
  <2> SUFFICES ASSUME NEW x \in Alarm, Listed(x)'
               PROVE /\ incall /\ x = alarm => time'[x] = _alt_nticks /\ ~ rollover'[x]
                     /\ Ahead(q, x)' => Untested(x)'
                     /\ ~ (incall /\ x = alarm) /\ ~ Ahead(q, x)' => Tested(x)'
    BY <1>4 DEF Dates
  <2>1. CASE x = a
    <3>1. ~ Ahead(q, x)'
      BY <2>1, <1>2, <1>3, <1>4, <1>8 DEF Ahead
    <3>2. Tested(x)'
      BY <2>1, <1>4, <1>7 DEF Tested, Wraps
    <3> QED BY <2>1, <1>4, <3>1, <3>2
  <2>2. CASE x # a
    <3>1. Listed(x) /\ time'[x] = time[x] /\ rollover'[x] = rollover[x] /\ q[x] = pos[x]
      BY <2>2, <1>2, <1>3, <1>4 DEF Node
    <3>2. Ahead(q, x)' = Ahead(pos, x)
      BY <3>1, <1>4, <1>8 DEF Ahead
    <3> QED BY <3>1, <3>2, <1>4 DEF Dates, Tested, Untested
  <2> QED BY <2>1, <2>2
<1>11. Remaining[a] = -1 /\ Remaining' = [Remaining EXCEPT ![a] = nticks + 1]
  <2>1. (Due(nticks) - _alt_nticks) % Word = nticks + 1
    <3> DEFINE d == Due(nticks)
    <3>1. d \in 0 .. Word - 1 /\ d = Due(nticks)
      BY <1>7
    <3> HIDE DEF d
    <3>2. (d - _alt_nticks) % Word = IF d >= _alt_nticks THEN d - _alt_nticks
                                     ELSE d - _alt_nticks + Word
      BY <1>5, <3>1, Distance
    <3> QED BY <1>5, <1>6, <3>1, <3>2 DEF AlarmAssumption
  <2>2. Remaining' =
          [x \in Alarm |-> IF Listed(x)' THEN (time'[x] - _alt_nticks) % Word ELSE -1]
    BY <1>4 DEF Remaining
  <2>3. \A x \in Alarm : (IF Listed(x)' THEN (time'[x] - _alt_nticks) % Word ELSE -1)
                         = [Remaining EXCEPT ![a] = nticks + 1][x]
    BY <1>2, <1>4, <2>1 DEF Remaining
  <2> QED BY <1>4, <2>2, <2>3 DEF Remaining
<1> QED BY <1>2, <1>4, <1>9, <1>10, <1>11 DEF Calling

LEMMA StopTimely ==
  ASSUME AlarmAssumption, ~ MayStopNext, ListInv,
         NEW pos, Order(pos), Standing(pos), Dates(pos), NEW a \in Alarm, alt_alarm_stop(a)
  PROVE  /\ Order(pos)' /\ Standing(pos)' /\ Dates(pos)'
         /\ Remaining' = [Remaining EXCEPT ![a] = -1] /\ Calling' = Calling
<1>1. AlarmsTypeOK /\ RingOK
  BY DEF ListInv
<1>2. Order(pos)' /\ ~ Listed(a)' /\ \A x \in Alarm \ {a} : Listed(x)' = Listed(x)
  BY <1>1, RemovedOrder DEF alt_alarm_stop
<1>3. UNCHANGED <<_alt_nticks, time, rollover, alarm, follow, incall>>
  BY DEF alt_alarm_stop, walk
<1>4. alarm # NoNode => follow # a /\ incall
  BY <1>1 DEF alt_alarm_stop, Caller
<1>5. Standing(pos)'
  <2> SUFFICES ASSUME alarm # NoNode
               PROVE  /\ follow = ListHead \/ Listed(follow)'
                      /\ Listed(alarm)' => pos[follow] < pos[alarm]
    BY <1>3, <1>4 DEF Standing, Listed
  <2>1. alarm \in Alarm /\ follow \in Node /\ follow # a
    BY <1>1, <1>4 DEF AlarmsTypeOK
  <2> QED BY <1>2, <1>3, <2>1 DEF Standing, Node, Listed
<1>6. Dates(pos)'
  BY <1>2, <1>3 DEF Dates, Ahead, Tested, Untested
<1>7. Remaining' = [x \in Alarm |-> IF Listed(x)' THEN (time[x] - _alt_nticks) % Word ELSE -1]
  BY <1>3 DEF Remaining
<1>8. \A x \in Alarm : (IF Listed(x)' THEN (time[x] - _alt_nticks) % Word ELSE -1)
                       = [Remaining EXCEPT ![a] = -1][x]
  BY <1>2 DEF Remaining
<1> QED BY <1>2, <1>3, <1>5, <1>6, <1>7, <1>8 DEF Calling, Remaining

(* The counter moves on: every listed alarm is a tick nearer, and the walk *)
(* has all of them before it.                                              *)
LEMMA EnterTimely ==
  ASSUME AlarmAssumption, ListInv, NEW pos, Order(pos), Standing(pos), Dates(pos), TickEnter
  PROVE  /\ Order(pos)' /\ Standing(pos)' /\ Dates(pos)'
         /\ \A x \in Alarm : Remaining[x] # 0
         /\ Remaining' = [x \in Alarm |-> IF Remaining[x] = -1 THEN -1 ELSE Remaining[x] - 1]
         /\ Calling = NoNode /\ Calling' = NoNode
<1> DEFINE m == _alt_nticks
           h == next[ListHead]
<1>1. AlarmsTypeOK /\ RingOK /\ ListHead \in Node /\ ListHead \notin Alarm /\ NoNode \notin Node
  BY DEF ListInv, AlarmAssumption, Node
<1>2. /\ UNCHANGED <<next, previous, time, rollover, incall>> /\ alarm = NoNode /\ ~ incall
      /\ m' = IF m = Word - 1 THEN 0 ELSE m + 1
      /\ m \in 0 .. Word - 1 /\ time \in [Alarm -> 0 .. Word - 1]
  BY <1>1 DEF TickEnter, list, AlarmsTypeOK, AlarmAssumption
<1>3. Order(pos)' /\ \A x \in Alarm : Listed(x)' = Listed(x)
  BY <1>2 DEF Order, Listed
<1>4. \A x \in Alarm : Listed(x) => Tested(x)
  BY <1>2 DEF Dates, Ahead
<1>5. \A x \in Alarm : Listed(x) => Untested(x)'
  BY <1>2, <1>4 DEF Tested, Untested, AlarmAssumption
<1>6. h \in Node /\ pos \in [Node -> Nat]
  BY <1>1 DEF AlarmsTypeOK, RingOK, Order
<1>7. ASSUME h = ListHead PROVE Standing(pos)' /\ Dates(pos)'
  <2>1. \A x \in Alarm : ~ Listed(x)
    <3> SUFFICES ASSUME NEW x \in Alarm, Listed(x) PROVE FALSE
      OBVIOUS
    <3>1. next[x] \in Node /\ pos[next[x]] < pos[x] /\ pos[x] <= pos[ListHead]
      BY <1>1, <1>7 DEF Listed, AlarmsTypeOK, Order, Node
    <3> QED BY <1>6, <3>1 DEF Order, Node
  <2>2. alarm' = NoNode
    BY <1>7 DEF TickEnter
  <2> QED BY <1>3, <2>1, <2>2 DEF Standing, Dates
<1>8. ASSUME h # ListHead PROVE Standing(pos)' /\ Dates(pos)'
  <2>1. alarm' = h /\ follow' = next[h] /\ h \in Alarm
    BY <1>6, <1>8 DEF TickEnter, Node
  <2>2. next[ListHead] \notin {ListHead, NoNode} /\ Listed(h)
    BY <1>1, <1>6, <1>8, <2>1, FollowsListed DEF AlarmsTypeOK, RingOK, Listed
  <2>3. next[h] \in Node /\ (next[h] = ListHead \/ next[next[h]] \notin {next[h], NoNode})
    BY <1>1, <1>6, <2>2, FollowsListed DEF AlarmsTypeOK, RingOK, Listed
  <2>4. Standing(pos)'
    BY <1>2, <2>1, <2>2, <2>3 DEF Standing, Order, Listed
  <2>5. \A x \in Alarm : Listed(x) => Ahead(pos, x)'
    BY <1>1, <1>2, <2>1, <2>2 DEF Ahead, Order
  <2> QED BY <1>2, <1>3, <1>5, <2>4, <2>5 DEF Dates
<1>9. \A x \in Alarm : Listed(x) =>
        /\ (time[x] - m) % Word \in 1 .. Word - 1
        /\ (time[x] - m') % Word = ((time[x] - m) % Word) - 1
  <2> SUFFICES ASSUME NEW x \in Alarm, Listed(x)
               PROVE  /\ (time[x] - m) % Word \in 1 .. Word - 1
                      /\ (time[x] - m') % Word = ((time[x] - m) % Word) - 1
    OBVIOUS
  <2>1. time[x] # m /\ time[x] \in 0 .. Word - 1 /\ m' \in 0 .. Word - 1
    BY <1>2, <1>4 DEF Tested, AlarmAssumption
  <2>2. (time[x] - m) % Word = IF time[x] >= m THEN time[x] - m ELSE time[x] - m + Word
    BY <1>2, <2>1, Distance
  <2>3. (time[x] - m') % Word = IF time[x] >= m' THEN time[x] - m' ELSE time[x] - m' + Word
    BY <1>2, <2>1, Distance
  <2> QED BY <1>2, <2>1, <2>2, <2>3 DEF AlarmAssumption
<1>10. Remaining' = [x \in Alarm |-> IF Listed(x) THEN (time[x] - m') % Word ELSE -1]
  BY <1>2, <1>3 DEF Remaining
<1>11. \A x \in Alarm : Remaining[x] # 0 /\
         (IF Listed(x) THEN (time[x] - m') % Word ELSE -1)
           = (IF Remaining[x] = -1 THEN -1 ELSE Remaining[x] - 1)
  BY <1>9 DEF Remaining
<1> QED BY <1>2, <1>3, <1>7, <1>8, <1>10, <1>11 DEF Calling

LEMMA SkipTimely ==
  ASSUME AlarmAssumption, ListInv, ListInv', NEW pos,
         Order(pos), Standing(pos), Dates(pos), TickSkip
  PROVE  /\ Order(pos)' /\ Standing(pos)' /\ Dates(pos)'
         /\ Remaining' = Remaining /\ Calling' = Calling
<1>1. AlarmsTypeOK /\ AlarmsTypeOK' /\ RingOK' /\ alarm \in Alarm /\ Listed(alarm) /\ follow \in Node
  BY DEF ListInv, TickSkip, AlarmsTypeOK, Standing
<1>2. /\ UNCHANGED <<next, previous, _alt_nticks, time>> /\ ~ incall /\ incall' = FALSE
      /\ \A x \in Alarm : rollover'[x] = IF x = alarm THEN Flag ELSE rollover[x]
      /\ Advance(follow)
  BY <1>1 DEF TickSkip, list, AlarmsTypeOK
<1>3. Order(pos)' /\ \A x \in Alarm : Listed(x)' = Listed(x)
  BY <1>2 DEF Order, Listed
<1>4. pos[follow] < pos[alarm] /\ (follow = ListHead \/ Listed(follow))
  BY <1>1, <1>2 DEF Standing, AlarmsTypeOK, AlarmAssumption, Node
<1>5. Untested(alarm) /\ time[alarm] \in 0 .. Word - 1 /\ _alt_nticks \in 0 .. Word - 1
      /\ rollover[alarm] \in BOOLEAN
  BY <1>1, <1>2 DEF Dates, Ahead, AlarmsTypeOK, AlarmAssumption, Node
<1>7. time'[alarm] # _alt_nticks' /\ rollover'[alarm] = (time'[alarm] < _alt_nticks')
  BY <1>1, <1>2, <1>5 DEF TickSkip, Expired, Flag, Untested
<1>8. \A x \in Alarm : Listed(x)' =>
        IF pos[x] <= pos[follow] THEN Untested(x)' ELSE Tested(x)'
  <2> SUFFICES ASSUME NEW x \in Alarm, Listed(x)
               PROVE  IF pos[x] <= pos[follow] THEN Untested(x)' ELSE Tested(x)'
    BY <1>3
  <2>1. CASE x = alarm
    BY <2>1, <1>1, <1>4, <1>7 DEF Tested, Order, Node
  <2>2. CASE x # alarm
    BY <2>2, <1>1, <1>2 DEF Dates, Ahead, Tested, Untested, AlarmsTypeOK, AlarmAssumption, Node
  <2> QED BY <2>1, <2>2
<1>9. Standing(pos)' /\ Dates(pos)'
  <2>1. follow = ListHead \/ next'[follow] \notin {follow, NoNode}
    BY <1>2, <1>4 DEF Listed
  <2> QED BY <1>1, <1>2, <1>3, <1>8, <2>1, AdvanceTimely
         DEF TickSkip, Listed
<1> QED BY <1>2, <1>3, <1>9 DEF Remaining, Calling

LEMMA CallTimely ==
  ASSUME AlarmAssumption, ListInv, NEW pos,
         Order(pos), Standing(pos), Dates(pos), TickCall
  PROVE  /\ Order(pos)' /\ Standing(pos)' /\ Dates(pos)'
         /\ alarm \in Alarm /\ Remaining[alarm] = 0 /\ Remaining' = Remaining
         /\ Calling = NoNode /\ Calling' = alarm
<1>1. AlarmsTypeOK /\ alarm \in Alarm /\ Listed(alarm) /\ alarm # NoNode
  BY DEF ListInv, TickCall, AlarmsTypeOK, Standing
<1>2. /\ UNCHANGED <<next, previous, _alt_nticks, time, alarm, follow>> /\ ~ incall /\ incall'
      /\ \A x \in Alarm : rollover'[x] = IF x = alarm THEN Flag ELSE rollover[x]
      /\ Expired
  BY <1>1 DEF TickCall, list, AlarmsTypeOK
<1>3. Order(pos)' /\ \A x \in Alarm : Listed(x)' = Listed(x)
  BY <1>2 DEF Order, Listed
<1>4. Untested(alarm) /\ time[alarm] \in 0 .. Word - 1 /\ _alt_nticks \in 0 .. Word - 1
      /\ rollover[alarm] \in BOOLEAN
  BY <1>1, <1>2 DEF Dates, Ahead, AlarmsTypeOK
<1>5. time[alarm] = _alt_nticks /\ rollover'[alarm] = FALSE
  <2>1. rollover'[alarm] = Flag /\ ~ Flag /\ time[alarm] <= _alt_nticks
    BY <1>1, <1>2 DEF Expired
  <2>2. rollover'[alarm] = FALSE
    BY <2>1 DEF Flag
  <2>3. time[alarm] = _alt_nticks
    BY <1>4, <2>1 DEF Flag, Untested
  <2> QED BY <2>2, <2>3
<1>6. follow \in Node /\ pos[follow] < pos[alarm] /\ pos[follow] \in Nat /\ pos[alarm] \in Nat
  BY <1>1 DEF Standing, AlarmsTypeOK, Order, Node
<1>7. Standing(pos)'
  BY <1>2 DEF Standing, Listed
<1>8. Dates(pos)'
  <2> SUFFICES ASSUME NEW x \in Alarm, Listed(x)
               PROVE /\ x = alarm => time[x] = _alt_nticks /\ ~ rollover'[x]
                     /\ Ahead(pos, x)' => Untested(x)'
                     /\ ~ (x = alarm) /\ ~ Ahead(pos, x)' => Tested(x)'
    BY <1>2, <1>3 DEF Dates
  <2>1. CASE x = alarm
    BY <2>1, <1>2, <1>5, <1>6 DEF Ahead
  <2>2. CASE x # alarm
    BY <2>2, <1>2 DEF Dates, Ahead, Tested, Untested
  <2> QED BY <2>1, <2>2
<1>9. (time[alarm] - _alt_nticks) % Word = 0
  BY <1>4, <1>5, Distance
<1> QED BY <1>1, <1>2, <1>3, <1>7, <1>8, <1>9 DEF Remaining, Calling

(* The ways a callback returns.  The alarm may have been stopped by it.    *)
LEMMA DeactivateTimely ==
  ASSUME AlarmAssumption, ListInv, ListInv', NEW pos,
         Order(pos), Standing(pos), Dates(pos), TickDeactivate
  PROVE  /\ Order(pos)' /\ Standing(pos)' /\ Dates(pos)'
         /\ alarm \in Alarm /\ Remaining' = [Remaining EXCEPT ![alarm] = -1]
         /\ Calling = alarm /\ Calling' = NoNode
<1>1. AlarmsTypeOK /\ RingOK /\ AlarmsTypeOK' /\ RingOK' /\ alarm \in Alarm /\ alarm # NoNode
      /\ follow \in Node /\ next[alarm] # NoNode
  BY DEF ListInv, TickDeactivate, AlarmsTypeOK, CursorOK
<1>2. /\ UNCHANGED <<_alt_nticks, time, rollover>> /\ incall /\ incall' = FALSE
      /\ Advance(follow)
  BY DEF TickDeactivate
<1>3. /\ Order(pos)' /\ ~ (next'[alarm] \notin {alarm, NoNode})
      /\ \A x \in Alarm \ {alarm} : (next'[x] \notin {x, NoNode}) = Listed(x)
  <2>1. PICK a : a = alarm
    OBVIOUS
  <2>2. a \in Alarm /\ next[a] # NoNode /\ Removed(a)
    BY <1>1, <2>1 DEF TickDeactivate
  <2>3. Order(pos)' /\ ~ Listed(a)' /\ \A x \in Alarm \ {a} : Listed(x)' = Listed(x)
    BY <1>1, <2>2, RemovedOrder
  <2> QED BY <2>1, <2>3 DEF Listed
<1>4. follow # alarm /\ (follow = ListHead \/ next'[follow] \notin {follow, NoNode})
  <2>1. follow # alarm
    BY <1>1 DEF Standing, Order, Node
  <2>2. follow # ListHead => Listed(follow) /\ follow \in Alarm \ {alarm}
    BY <1>1, <2>1 DEF Standing, Node
  <2> QED BY <1>3, <2>1, <2>2
<1>5. \A x \in Alarm : Listed(x)' =>
        IF pos[x] <= pos[follow] THEN Untested(x)' ELSE Tested(x)'
  <2> SUFFICES ASSUME NEW x \in Alarm, Listed(x)'
               PROVE  IF pos[x] <= pos[follow] THEN Untested(x)' ELSE Tested(x)'
    OBVIOUS
  <2>1. x # alarm /\ Listed(x)
    BY <1>3 DEF Listed
  <2> QED BY <2>1, <1>1, <1>2 DEF Dates, Ahead, Tested, Untested
<1>6. Standing(pos)' /\ Dates(pos)'
  BY <1>1, <1>2, <1>3, <1>4, <1>5, AdvanceTimely DEF Listed
<1>7. Remaining' = [x \in Alarm |-> IF next'[x] \notin {x, NoNode}
                                    THEN (time[x] - _alt_nticks) % Word ELSE -1]
  BY <1>2 DEF Remaining, Listed
<1>8. \A x \in Alarm : (IF next'[x] \notin {x, NoNode}
                        THEN (time[x] - _alt_nticks) % Word ELSE -1)
                       = [Remaining EXCEPT ![alarm] = -1][x]
  BY <1>3 DEF Remaining
<1> QED BY <1>1, <1>2, <1>3, <1>6, <1>7, <1>8 DEF Calling, Remaining

LEMMA RepeatTimely ==
  ASSUME AlarmAssumption, ListInv, ListInv', NEW pos,
         Order(pos), Standing(pos), Dates(pos),
         NEW period \in Period \ {0}, TickRepeat(period)
  PROVE  /\ Order(pos)' /\ Standing(pos)' /\ Dates(pos)'
         /\ alarm \in Alarm
         /\ Remaining' = [Remaining EXCEPT ![alarm] =
                            IF Remaining[alarm] = -1 THEN -1 ELSE period]
         /\ Calling = alarm /\ Calling' = NoNode
<1> DEFINE d == (time[alarm] + period) % Word
<1>1. AlarmsTypeOK /\ AlarmsTypeOK' /\ RingOK' /\ alarm \in Alarm /\ alarm # NoNode /\ follow \in Node
  BY DEF ListInv, TickRepeat, AlarmsTypeOK
<1>2. /\ UNCHANGED <<_alt_nticks, next, previous>> /\ incall /\ incall' = FALSE
      /\ Advance(follow)
      /\ \A x \in Alarm : time'[x] = IF x = alarm THEN d ELSE time[x]
      /\ \A x \in Alarm : rollover'[x] =
           IF x = alarm THEN rollover[x] \/ Wraps(d) ELSE rollover[x]
  BY <1>1 DEF TickRepeat, list, AlarmsTypeOK
<1>3. Order(pos)' /\ \A x \in Alarm : Listed(x)' = Listed(x)
  BY <1>2 DEF Order, Listed
<1>4. /\ period \in 1 .. Word - 1 /\ _alt_nticks \in 0 .. Word - 1
      /\ time[alarm] \in 0 .. Word - 1
  BY <1>1 DEF AlarmsTypeOK, AlarmAssumption
<1>5. d = IF time[alarm] + period < Word THEN time[alarm] + period
          ELSE time[alarm] + period - Word
  <2>1. period \in 0 .. Word - 1
    BY <1>4
  <2> QED BY <1>4, <2>1, Later
<1>6. Listed(alarm) => time[alarm] = _alt_nticks /\ ~ rollover[alarm]
  BY <1>1, <1>2 DEF Dates
<1>7. d \in 0 .. Word - 1
  BY <1>4, <1>5 DEF AlarmAssumption
<1>8. Listed(alarm) => /\ d # _alt_nticks
                       /\ (d - _alt_nticks) % Word = period
  <2> HIDE DEF d
  <2>1. (d - _alt_nticks) % Word = IF d >= _alt_nticks THEN d - _alt_nticks
                                   ELSE d - _alt_nticks + Word
    BY <1>4, <1>7, Distance
  <2> QED BY <1>4, <1>5, <1>6, <2>1 DEF AlarmAssumption
<1>9. Listed(alarm) => time'[alarm] # _alt_nticks /\ rollover'[alarm] = (time'[alarm] < _alt_nticks)
  <2> HIDE DEF d
  <2> QED BY <1>1, <1>2, <1>6, <1>8 DEF Wraps
<1> HIDE DEF d
<1>10. \A x \in Alarm : Listed(x)' =>
        IF pos[x] <= pos[follow] THEN Untested(x)' ELSE Tested(x)'
  <2> SUFFICES ASSUME NEW x \in Alarm, Listed(x)
               PROVE  IF pos[x] <= pos[follow] THEN Untested(x)' ELSE Tested(x)'
    BY <1>3
  <2>1. CASE x = alarm
    <3>1. pos[follow] < pos[alarm] /\ pos[follow] \in Nat /\ pos[alarm] \in Nat
      BY <2>1, <1>1 DEF Standing, Order, Node
    <3> QED BY <2>1, <3>1, <1>2, <1>9 DEF Tested
  <2>2. CASE x # alarm
    BY <2>2, <1>1, <1>2 DEF Dates, Ahead, Tested, Untested
  <2> QED BY <2>1, <2>2
<1>11. Standing(pos)' /\ Dates(pos)'
  <2>1. follow = ListHead \/ next'[follow] \notin {follow, NoNode}
    BY <1>1, <1>2 DEF Standing, Listed
  <2> QED BY <1>1, <1>2, <1>3, <1>10, <2>1, AdvanceTimely DEF Listed
<1>12. Remaining[alarm] = -1 <=> ~ Listed(alarm)
  <2>1. (time[alarm] - _alt_nticks) % Word # -1
    <3>1. (time[alarm] - _alt_nticks) % Word =
            IF time[alarm] >= _alt_nticks THEN time[alarm] - _alt_nticks
            ELSE time[alarm] - _alt_nticks + Word
      BY <1>4, Distance
    <3> QED BY <1>4, <3>1 DEF AlarmAssumption
  <2> QED BY <2>1, <1>1 DEF Remaining
<1>13. Remaining' = [x \in Alarm |-> IF Listed(x) THEN (time'[x] - _alt_nticks) % Word ELSE -1]
  BY <1>2, <1>3 DEF Remaining
<1>14. \A x \in Alarm : (IF Listed(x) THEN (time'[x] - _alt_nticks) % Word ELSE -1)
         = [Remaining EXCEPT ![alarm] = IF Remaining[alarm] = -1 THEN -1 ELSE period][x]
  <2> SUFFICES ASSUME NEW x \in Alarm
               PROVE (IF Listed(x) THEN (time'[x] - _alt_nticks) % Word ELSE -1)
         = [Remaining EXCEPT ![alarm] = IF Remaining[alarm] = -1 THEN -1 ELSE period][x]
    OBVIOUS
  <2>1. CASE x = alarm
    BY <2>1, <1>1, <1>2, <1>8, <1>12 DEF Remaining
  <2>2. CASE x # alarm
    BY <2>2, <1>1, <1>2 DEF Remaining
  <2> QED BY <2>1, <2>2
<1> QED BY <1>1, <1>2, <1>3, <1>11, <1>13, <1>14 DEF Calling, Remaining

LEMMA InitTimely == AlarmAssumption /\ AlarmsInit => TimelyInv /\ Clock!Init
<1> SUFFICES ASSUME AlarmAssumption, AlarmsInit PROVE TimelyInv /\ Clock!Init
  OBVIOUS
<1>1. ListInv /\ alarm = NoNode /\ incall = FALSE
  BY InitListInv DEF AlarmsInit
<1>2. \A x \in Alarm : ~ Listed(x)
  BY DEF AlarmsInit, Listed, AlarmAssumption, Node
<1> DEFINE z == [x \in Node |-> 0]
<1>3. z \in [Node -> Nat] /\ z[ListHead] = 0
  BY DEF Node
<1> HIDE DEF z
<1>4. Order(z) /\ Standing(z) /\ Dates(z)
  BY <1>1, <1>2, <1>3 DEF Order, Standing, Dates
<1>5. TimelyInv
  BY <1>1, <1>3, <1>4 DEF TimelyInv
<1>6. Clock!Init
  BY <1>1, <1>2 DEF Clock!Init, Calling
<1> QED BY <1>5, <1>6

(* Every step of the alarms is a step of AlarmClock, or none. *)
LEMMA NextTimely ==
  ASSUME AlarmAssumption, ~ MayStopNext, Word - 1 \notin Delay, TimelyInv, [AlarmsNext]_alarmsvars
  PROVE  TimelyInv' /\ [Clock!Next]_<<Remaining, Calling>>
<1>1. ListInv /\ ListInv'
  BY NextListInv DEF TimelyInv
<1>2. PICK pos \in [Node -> Nat] : Order(pos) /\ Standing(pos) /\ Dates(pos)
  BY DEF TimelyInv
<1>3. CASE SysClkInit \/ UNCHANGED alarmsvars
  <2>1. UNCHANGED <<_alt_nticks, next, time, rollover, alarm, follow, incall>>
    BY <1>3 DEF SysClkInit, alarmsvars, list, walk
  <2>2. Order(pos)' /\ Standing(pos)' /\ Dates(pos)'
    BY <1>2, <2>1 DEF Order, Standing, Dates, Ahead, Tested, Untested, Listed
  <2>3. Remaining' = Remaining /\ Calling' = Calling
    BY <2>1 DEF Remaining, Calling, Listed
  <2> QED BY <1>1, <2>2, <2>3 DEF TimelyInv
<1>4. ASSUME NEW a \in Alarm, NEW nticks \in Delay, alt_alarm_start(a, nticks)
      PROVE  TimelyInv' /\ Clock!Next
  <2>1. /\ \E q \in [Node -> Nat] : Order(q)' /\ Standing(q)' /\ Dates(q)'
        /\ Remaining[a] = -1 /\ Remaining' = [Remaining EXCEPT ![a] = nticks + 1]
        /\ Calling' = Calling
    BY <1>1, <1>2, <1>4, StartTimely
  <2>2. Clock!Start(a, nticks)
    BY <2>1 DEF Clock!Start, Remaining
  <2> QED BY <1>1, <2>1, <2>2 DEF TimelyInv, Clock!Next
<1>5. ASSUME NEW a \in Alarm, alt_alarm_stop(a)
      PROVE  TimelyInv' /\ Clock!Next
  <2>1. /\ Order(pos)' /\ Standing(pos)' /\ Dates(pos)'
        /\ Remaining' = [Remaining EXCEPT ![a] = -1] /\ Calling' = Calling
    BY <1>1, <1>2, <1>5, StopTimely
  <2>2. Clock!Stop(a)
    BY <2>1 DEF Clock!Stop, Remaining
  <2> QED BY <1>1, <2>1, <2>2 DEF TimelyInv, Clock!Next
<1>6. ASSUME TickEnter PROVE TimelyInv' /\ Clock!Next
  <2>1. /\ Order(pos)' /\ Standing(pos)' /\ Dates(pos)'
        /\ \A x \in Alarm : Remaining[x] # 0
        /\ Remaining' = [x \in Alarm |-> IF Remaining[x] = -1 THEN -1 ELSE Remaining[x] - 1]
        /\ Calling = NoNode /\ Calling' = NoNode
    BY <1>1, <1>2, <1>6, EnterTimely
  <2>2. Clock!Tick
    BY <2>1 DEF Clock!Tick, Remaining
  <2> QED BY <1>1, <2>1, <2>2 DEF TimelyInv, Clock!Next
<1>7. CASE TickSkip
  <2>1. /\ Order(pos)' /\ Standing(pos)' /\ Dates(pos)'
        /\ Remaining' = Remaining /\ Calling' = Calling
    BY <1>1, <1>2, <1>7, SkipTimely
  <2> QED BY <1>1, <2>1 DEF TimelyInv
<1>8. ASSUME TickCall PROVE TimelyInv' /\ Clock!Next
  <2>1. /\ Order(pos)' /\ Standing(pos)' /\ Dates(pos)'
        /\ alarm \in Alarm /\ Remaining[alarm] = 0 /\ Remaining' = Remaining
        /\ Calling = NoNode /\ Calling' = alarm
    BY <1>1, <1>2, <1>8, CallTimely
  <2>2. Clock!Call(alarm)
    BY <2>1 DEF Clock!Call, Remaining
  <2> QED BY <1>1, <2>1, <2>2 DEF TimelyInv, Clock!Next
<1>9. ASSUME TickDeactivate PROVE TimelyInv' /\ Clock!Next
  <2>1. /\ Order(pos)' /\ Standing(pos)' /\ Dates(pos)'
        /\ alarm \in Alarm /\ Remaining' = [Remaining EXCEPT ![alarm] = -1]
        /\ Calling = alarm /\ Calling' = NoNode
    BY <1>1, <1>2, <1>9, DeactivateTimely
  <2>2. Clock!Return(alarm, 0) /\ 0 \in Period
    BY <1>9, <2>1 DEF Clock!Return, Remaining, TickDeactivate
  <2> QED BY <1>1, <2>1, <2>2 DEF TimelyInv, Clock!Next
<1>10. ASSUME NEW period \in Period \ {0}, TickRepeat(period)
       PROVE  TimelyInv' /\ Clock!Next
  <2>1. /\ Order(pos)' /\ Standing(pos)' /\ Dates(pos)'
        /\ alarm \in Alarm
        /\ Remaining' = [Remaining EXCEPT ![alarm] =
                           IF Remaining[alarm] = -1 THEN -1 ELSE period]
        /\ Calling = alarm /\ Calling' = NoNode
    BY <1>1, <1>2, <1>10, RepeatTimely
  <2>2. Clock!Return(alarm, period)
    BY <2>1 DEF Clock!Return, Remaining
  <2> QED BY <1>1, <2>1, <2>2 DEF TimelyInv, Clock!Next
<1> QED BY <1>3, <1>4, <1>5, <1>6, <1>7, <1>8, <1>9, <1>10 DEF AlarmsNext, AlarmCalls, TickStep

(* Every callback is made in the tick it is due and in no other, and a     *)
(* stopped alarm is silent (alt_tick.c:87-148): the alarms implement       *)
(* AlarmClock, whatever the width of the counter, however the expiry times *)
(* and the counter wrap, and whatever callbacks start and stop but the     *)
(* alarm after their own.  The longest delay, whose expiry time is the     *)
(* present, is left out: it is taken for none.                             *)
THEOREM CallbacksOnTime ==
  ASSUME ~ MayStopNext, Word - 1 \notin Delay
  PROVE  AlarmsSpec => OnTime
<1>1. AlarmsInit => TimelyInv /\ Clock!Init
  BY InitTimely, AlarmAssumption
<1>2. TimelyInv /\ [AlarmsNext]_alarmsvars =>
        TimelyInv' /\ [Clock!Next]_<<Remaining, Calling>>
  BY NextTimely, AlarmAssumption
<1>3. TimelyInv /\ [AlarmsNext]_alarmsvars => TimelyInv'
  BY <1>2
<1> QED BY <1>1, <1>2, <1>3, PTL DEF AlarmsSpec, OnTime, Clock!Spec, Remaining

=============================================================================
