-------------------------- MODULE ResourceManager --------------------------
(***************************************************************************)
(* The resource managers' base class (python/ofdm/resource_manager_base.py)*)
(* as one of them meets it: rounds started by a timer, the pushing of what *)
(* a round decided, and the consumer that collects the measurements of the *)
(* receiver in another thread.                                             *)
(*                                                                         *)
(* What a round decides is the subclass's work().  The transmitter and the *)
(* receiver are outside: an update reaches the transmitter through an      *)
(* event channel and the power through a call of its own, and for every    *)
(* frame the receiver reports a measurement with the frame's id.           *)
(***************************************************************************)
EXTENDS Integers, Sequences

CONSTANTS
  max_tx_id,     \* ids are numbers modulo max_tx_id
  InFlight,      \* bound: frames sent whose measurement has not arrived
  Lag,           \* bound: frames sent from the beginning of a round until
                 \* the transmitter has taken that round's update
  ReceivedMax    \* bound: measurements that wait for the next round

ASSUME ManagerAssumption ==
  /\ max_tx_id \in Nat \ {0, 1}
  /\ InFlight \in Nat \ {0}
  /\ Lag \in Nat
  /\ ReceivedMax \in Nat \ {0}

VARIABLES
  tx_id,         \* id of the next update
  mod_map,       \* modulation on every subcarrier
  tx_amplitude,
  pc,            \* "wait": for the timer; or the step that comes next
  received,      \* Consumer_i._received
  orb,           \* the list the ORB thread is about to append to:
                 \* "none", "current", or "taken" by a round since
  applied,       \* the transmitter's id and modulation
  amplifier,     \* the transmitter's power
  update,        \* the update in the event channel, if any
  flight,        \* measurements on their way, oldest first
  lag,           \* frames counted against Lag
  power_failed   \* the last push of the power did not arrive

settings == <<tx_id, mod_map, tx_amplitude>>
consumer == <<received, orb>>
radio == <<applied, amplifier, update, flight, lag, power_failed>>

Ids == 0..(max_tx_id - 1)

(* Defect: the id grows past the last one.                                 *)
NextIdUnbounded(id) == id + 1

NextId(id) == (id + 1) % max_tx_id

LastId == (tx_id - 1) % max_tx_id

-----------------------------------------------------------------------------
(* Rounds.                                                                 *)

(* periodic_work is called by a timer that is started again at its end;    *)
(* setup_time later the last update has been taken.                        *)
BeginRound ==
  /\ pc = "wait"
  /\ update = {}
  /\ lag' = 0

(* get_received(True): the list is taken and a new one put in its place.   *)
(* An append in progress goes to the list that was taken, where work() no  *)
(* longer looks.                                                           *)
TakeReceived ==
  /\ received' = << >>
  /\ orb' = IF orb = "current" THEN "taken" ELSE orb

(* propagate_changes, first the amplifier.  A failed push is logged.       *)
PushPower ==
  /\ pc = "power"
  /\ pc' = "config"
  /\ \E ok \in BOOLEAN :
       /\ power_failed' = ~ok
       /\ amplifier' = IF ok THEN tx_amplitude ELSE amplifier
  /\ UNCHANGED <<settings, consumer, applied, update, flight, lag>>

(* push_data takes the next id ...                                         *)
TakeId ==
  /\ pc = "config"
  /\ pc' = "push"
  /\ tx_id' = NextId(tx_id)
  /\ UNCHANGED <<mod_map, tx_amplitude, consumer, radio>>

(* ... and pushes until the channel accepts: a failed push may have        *)
(* arrived nevertheless.                                                   *)
Push(accepted) ==
  /\ pc = "push"
  /\ pc' = IF accepted THEN "wait" ELSE "push"
  /\ update' \in {update, {[id |-> LastId, mod |-> mod_map]}}
  /\ accepted => update' # {}
  /\ UNCHANGED <<settings, consumer, applied, amplifier, flight, lag,
                 power_failed>>

-----------------------------------------------------------------------------
(* Outside: the transmitter, the receiver and the ORB.                     *)

Measurement == [id |-> applied.id, mod |-> applied.mod, power |-> amplifier]

SendFrame ==
  LET counted == pc # "wait" \/ update # {} IN
  /\ Len(flight) < InFlight
  /\ counted => lag < Lag
  /\ flight' = Append(flight, Measurement)
  /\ lag' = IF counted THEN lag + 1 ELSE lag
  /\ UNCHANGED <<pc, settings, consumer, applied, amplifier, update,
                 power_failed>>

TakeUpdate ==
  /\ \E u \in update : applied' = u
  /\ update' = {}
  /\ UNCHANGED <<pc, settings, consumer, amplifier, flight, lag, power_failed>>

(* Consumer_i.push looks up self._received ...                             *)
LookUp ==
  /\ orb = "none"
  /\ flight # << >>
  /\ Len(received) < ReceivedMax
  /\ orb' = "current"
  /\ UNCHANGED <<pc, settings, received, radio>>

(* ... and appends to what it found.                                       *)
AppendReceived ==
  /\ orb # "none"
  /\ received' = IF orb = "current" THEN Append(received, Head(flight))
                 ELSE received
  /\ orb' = "none"
  /\ flight' = Tail(flight)
  /\ UNCHANGED <<pc, settings, applied, amplifier, update, lag, power_failed>>

Base ==
  \/ PushPower
  \/ TakeId
  \/ \E accepted \in BOOLEAN : Push(accepted)
  \/ SendFrame
  \/ TakeUpdate
  \/ LookUp
  \/ AppendReceived
=============================================================================
