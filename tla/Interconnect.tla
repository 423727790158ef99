----------------------------- MODULE Interconnect -----------------------------
(***************************************************************************)
(* The part of the Avalon interconnect that the masters of the processor   *)
(* share, clock by clock: the multiplexer in front of a slave with its     *)
(* round-robin arbitrator.                                                 *)
(*                                                                         *)
(* Vectors of signals are numbers with the signal of master m in bit m.    *)
(***************************************************************************)
EXTENDS Integers, FiniteSets

CONSTANTS
  NUM_INPUTS,      \* masters: the data and the instruction master
  MaxBeats         \* bound: clocks a command may take

ASSUME InterconnectAssumption ==
  NUM_INPUTS \in Nat \ {0} /\ MaxBeats \in Nat \ {0}

(* What powers are; the provers know of ^ only what is said of it.         *)
ASSUME PlacesAssumption ==
  \A i \in 0 .. 2 * NUM_INPUTS : 2 ^ i \in Nat \ {0} /\ 2 ^ (i + 1) = 2 * 2 ^ i

Master == 0 .. NUM_INPUTS - 1
Bit(x, i) == (x \div 2 ^ i) % 2 = 1
Vector(s) == LET Sum[m \in 0 .. NUM_INPUTS] ==
                   IF m = NUM_INPUTS THEN 0
                   ELSE (IF m \in s THEN 2 ^ m ELSE 0) + Sum[m + 1]
             IN  Sum[0]

VARIABLES
  beats,                 \* beats[m]: beats of the command m has raised, 0: none
  saved_grant,          \* the set of masters granted: one or none
  top_priority_reg,     \* the master to be considered first
  packet_in_progress,
  waited,               \* waited[m]: commands of others since m raised its own
  partial               \* whose command the slave has seen a part of: at most one

busvars == <<beats, saved_grant, top_priority_reg, packet_in_progress, waited, partial>>

(* {~request, ~request} + top_priority over twice the width, and the bits  *)
(* of {request, request} it has kept, of both halves.                      *)
(* (Mutant: over the single width.)                                        *)
Mask == 2 ^ NUM_INPUTS - 1

next_grantSingle(request, top) ==
  LET sum == (Mask - Vector(request) + 2 ^ top) % 2 ^ NUM_INPUTS
  IN  {m \in request : Bit(sum, m)}

next_grant(request, top) ==
  LET none == Mask - Vector(request)
      sum == (none * (2 ^ NUM_INPUTS + 1) + 2 ^ top) % 2 ^ (2 * NUM_INPUTS)
  IN  {m \in request : Bit(sum, m) \/ Bit(sum, m + NUM_INPUTS)}

valid == {m \in Master : beats[m] > 0}
src_valid == saved_grant \cap valid # {}
-----------------------------------------------------------------------------
BusInit ==
  /\ beats = [m \in Master |-> 0]
  /\ saved_grant = {} /\ top_priority_reg = 0
  /\ packet_in_progress = FALSE
  /\ waited = [m \in Master |-> 0]
  /\ partial = {}

(* When the grant is looked at again: while nothing is going on, or with   *)
(* the last beat of a command.  (lock and locked of the multiplexer, lines *)
(* 110-125 and 257, could keep it beyond that; they are 0 here, because    *)
(* Nios_Qsys.vhd:1564, 1629 tie av_lock of both masters to '0'.)           *)
(* (Mutant: with every beat.)                                              *)
update_grantEachBeat(accepted, last) == (~packet_in_progress /\ ~src_valid) \/ accepted
update_grant(accepted, last) == (~packet_in_progress /\ ~src_valid) \/ last

(* One clock.  src_ready is what the slave's side says; masters that have  *)
(* nothing raised, or whose last beat is taken now, may raise a command,   *)
(* which then stays.                                                       *)
Clock(raised, src_ready) ==
  LET taken == IF src_valid /\ src_ready THEN saved_grant ELSE {}
      done == {m \in taken : beats[m] = 1}
      update == update_grant(taken # {}, done # {})
      grant == next_grant(valid, top_priority_reg)
  IN  /\ \A m \in Master : raised[m] > 0 => beats[m] = 0 \/ m \in done
      /\ beats' = [m \in Master |->
                    IF raised[m] > 0 THEN raised[m]
                    ELSE IF m \in taken THEN beats[m] - 1 ELSE beats[m]]
      /\ saved_grant' = IF update THEN grant ELSE saved_grant
      /\ top_priority_reg' =
           IF update /\ valid # {} THEN ((CHOOSE m \in grant : TRUE) + 1) % NUM_INPUTS
           ELSE top_priority_reg
      /\ packet_in_progress' = (done = {} /\ (packet_in_progress \/ src_valid))
      /\ partial' = IF done # {} THEN {} ELSE partial \cup taken
      /\ waited' = [m \in Master |->
                      IF m \in done \/ beats[m] = 0 THEN 0
                      ELSE waited[m] + Cardinality(done)]

Beats == [Master -> 0 .. MaxBeats]

BusNext ==
  \E raised \in Beats, src_ready \in BOOLEAN : Clock(raised, src_ready)
-----------------------------------------------------------------------------
(* The arbitrator grants the first master that asks, counting round from   *)
(* the one with priority, and nobody if nobody asks                        *)
(* (altera_merlin_arbitrator.sv:14-73).                                    *)
CyclicFirst(request, top) ==
  {m \in request : \A k \in request : (m - top) % NUM_INPUTS <= (k - top) % NUM_INPUTS}
GrantsCyclicFirst ==
  \A request \in SUBSET Master : \A top \in Master :
    next_grant(request, top) = CyclicFirst(request, top)

(* A command is not cut: between its beats the slave sees nothing of       *)
(* another master (Nios_Qsys_cmd_xbar_mux.sv:110-240).                     *)
CommandsWhole ==
  /\ Cardinality(partial) <= 1
  /\ partial # {} => saved_grant = partial /\ packet_in_progress

(* A master that asks is served after at most one command of each other.   *)
FairShares == \A m \in Master : waited[m] <= NUM_INPUTS - 1
=============================================================================
