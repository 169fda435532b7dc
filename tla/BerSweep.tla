------------------------------ MODULE BerSweep ------------------------------
(***************************************************************************)
(* The manager that measures the bit error rate of every modulation at     *)
(* every power (python/ofdm/rm_ber_measurement.py).  It sets up a good     *)
(* link, learns the id in use from the measurements, and then visits one   *)
(* point after the other: it pushes the point's settings and collects the  *)
(* measurements that carry the id it expects them to have.                 *)
(***************************************************************************)
EXTENDS ResourceManager, FiniteSets

CONSTANTS
  NumMods,      \* len(nbits)
  NumPowers,    \* num_points: length of txpow_range
  GoodMod,      \* the good link's modulation, and
  GoodPower,    \* its power
  InitMod,      \* options.init_mod, and
  InitPower,    \* the amplitude 1: what the constructor pushed
  Collect,      \* measurements to learn the id from (2000)
  StableMin,    \* how many at the end must agree, at least (500)
  PointLen,     \* measurements of a point: more than (10000)
  ExpireMax     \* rounds without a measurement (10)

ASSUME SweepAssumption ==
  /\ NumMods \in Nat \ {0}
  /\ NumPowers \in Nat \ {0}
  /\ Collect \in Nat
  /\ InFlight + Lag < Collect
  /\ StableMin \in Nat
  /\ PointLen \in Nat
  /\ ExpireMax \in Nat

VARIABLES
  state, curmod, curtxpowind, current_rx_id, expected_rx_id, expire_cnt,
  buffer,       \* in state 1: the measurements collected
  buffer_len,   \* in state 3: how many are collected, and
  buffer_seen   \* which: their mean and variance are the point's result

point == <<curmod, curtxpowind>>
buffers == <<buffer, buffer_len, buffer_seen>>
sweep == <<state, point, buffers, current_rx_id, expected_rx_id, expire_cnt>>
vars == <<settings, pc, consumer, radio, sweep>>

(* The base class's constructor has pushed id 1 and waited for the         *)
(* transmitter; then the sweep's chose its first amplitude.                *)
Init ==
  /\ tx_id = NextId(1)
  /\ mod_map = InitMod /\ tx_amplitude = 0
  /\ pc = "wait"
  /\ received = << >> /\ orb = "none"
  /\ applied = [id |-> 1, mod |-> InitMod] /\ amplifier = InitPower
  /\ update = {} /\ flight = << >> /\ lag = 0 /\ power_failed = FALSE
  /\ state = 0 /\ curmod = 0 /\ curtxpowind = 0
  /\ buffer = << >> /\ buffer_len = 0 /\ buffer_seen = {}
  /\ current_rx_id = -1 /\ expected_rx_id = -1
  /\ expire_cnt = 0

-----------------------------------------------------------------------------
(* How many measurements at the end of seq carry the last one's id.        *)
StableAtEnd(seq) ==
  LET same(k) == \A j \in k..Len(seq) : seq[j].id = seq[Len(seq)].id
  IN  CHOOSE n \in 1..Len(seq) :
        /\ same(Len(seq) - n + 1)
        /\ n < Len(seq) => ~same(Len(seq) - n)

Expected(m) == m.id = expected_rx_id

Matching == {k \in 1..Len(received) : Expected(received[k])}

(* Every modulation, then the next power; after the last from the first.   *)
NextPoint ==
  IF curmod + 1 < NumMods THEN <<curmod + 1, curtxpowind>>
  ELSE <<0, IF curtxpowind + 1 < NumPowers THEN curtxpowind + 1 ELSE 0>>

-----------------------------------------------------------------------------
(* Defects.                                                                *)

(* A round's measurements replace those of the rounds before.              *)
BufferLenOfRound == Cardinality(Matching)

(* What was collected before is kept.                                      *)
KeepBuffer == UNCHANGED buffers

-----------------------------------------------------------------------------
(* work(): one action per state.  Without a measurement the round ends     *)
(* here, unless that has happened too often.                               *)

Expired == received = << >> /\ expire_cnt + 1 > ExpireMax

BufferLen == buffer_len + Cardinality(Matching)

StayInRound == UNCHANGED <<applied, amplifier, update, flight, power_failed>>

ClearBuffer == buffer' = << >> /\ buffer_len' = 0 /\ buffer_seen' = {}

InState(s) ==
  /\ BeginRound
  /\ received # << >>
  /\ state = s
  /\ TakeReceived
  /\ UNCHANGED expire_cnt

Wait ==
  /\ BeginRound
  /\ received = << >> /\ ~Expired
  /\ TakeReceived
  /\ expire_cnt' = expire_cnt + 1
  /\ StayInRound
  /\ UNCHANGED <<settings, pc, state, point, buffers, current_rx_id,
                 expected_rx_id>>

SetPoint(p) ==
  /\ curmod' = p[1] /\ curtxpowind' = p[2]
  /\ mod_map' = p[1] /\ tx_amplitude' = p[2]
  /\ ClearBuffer
  /\ pc' = "power"

(* "setup initial conditions for good link": in state 0, and from any      *)
(* state when no measurement has arrived for too many rounds ("RECOVER").  *)
SetUpLink ==
  /\ \/ InState(0)
     \/ BeginRound /\ Expired /\ TakeReceived /\ expire_cnt' = 0
  /\ mod_map' = GoodMod /\ tx_amplitude' = GoodPower
  /\ ClearBuffer
  /\ state' = 1
  /\ pc' = "power"
  /\ StayInRound
  /\ UNCHANGED <<tx_id, point, current_rx_id, expected_rx_id>>

CollectIds ==
  /\ InState(1)
  /\ buffer' = buffer \o received
  /\ \/ /\ Len(buffer') < Collect
        /\ UNCHANGED <<state, current_rx_id>>
     \/ /\ Len(buffer') >= Collect /\ StableAtEnd(buffer') > StableMin
        /\ current_rx_id' = buffer'[Len(buffer')].id
        /\ state' = 2
     \/ /\ Len(buffer') >= Collect /\ StableAtEnd(buffer') <= StableMin
        /\ state' = 0
        /\ UNCHANGED current_rx_id
  /\ StayInRound
  /\ UNCHANGED <<settings, pc, point, buffer_len, buffer_seen,
                 expected_rx_id>>

FirstPoint ==
  /\ InState(2)
  /\ SetPoint(<<0, 0>>)
  /\ expected_rx_id' = NextId(current_rx_id)
  /\ state' = 3
  /\ StayInRound
  /\ UNCHANGED <<tx_id, current_rx_id>>

(* The point's files are written when enough measurements are there.       *)
MeasurePoint ==
  /\ InState(3)
  /\ \/ /\ BufferLen <= PointLen
        /\ buffer_len' = BufferLen
        /\ buffer_seen' = buffer_seen \cup {received[k] : k \in Matching}
        /\ UNCHANGED <<state, buffer>>
     \/ /\ BufferLen > PointLen
        /\ ClearBuffer
        /\ state' = 4
  /\ StayInRound
  /\ UNCHANGED <<settings, pc, point, current_rx_id, expected_rx_id>>

(* The expected id is not taken modulo max_tx_id here.                     *)
GoToNextPoint ==
  /\ InState(4)
  /\ SetPoint(NextPoint)
  /\ expected_rx_id' = expected_rx_id + 1
  /\ state' = 3
  /\ StayInRound
  /\ UNCHANGED <<tx_id, current_rx_id>>

Work ==
  \/ Wait
  \/ SetUpLink
  \/ CollectIds
  \/ FirstPoint
  \/ MeasurePoint
  \/ GoToNextPoint

Next ==
  \/ Work
  \/ Base /\ UNCHANGED sweep

Spec == Init /\ [][Next]_vars

(* The timer goes off, the thread it starts runs on, the channel accepts   *)
(* in the end; the transmitter sends frames and takes updates, and the     *)
(* measurements of its frames arrive.                                      *)
FairSpec ==
  /\ Spec
  /\ WF_vars(Work)
  /\ WF_vars(PushPower /\ UNCHANGED sweep)
  /\ WF_vars(TakeId /\ UNCHANGED sweep)
  /\ WF_vars(Push(TRUE) /\ UNCHANGED sweep)
  /\ WF_vars(SendFrame /\ UNCHANGED sweep)
  /\ WF_vars(TakeUpdate /\ UNCHANGED sweep)
  /\ WF_vars((LookUp \/ AppendReceived) /\ UNCHANGED sweep)

-----------------------------------------------------------------------------
(* Properties.                                                             *)

Mods == 0..(NumMods - 1)
Powers == 0..(NumPowers - 1)

LinkMods == Mods \cup {GoodMod, InitMod}
LinkPowers == Powers \cup {GoodPower, InitPower}

Settings == [id : Ids, mod : LinkMods]
Measurements == [id : Ids, mod : LinkMods, power : LinkPowers]

(* Types; the point is one of the sweep's, whatever the state.             *)
TypeOK ==
  /\ tx_id \in Ids
  /\ mod_map \in LinkMods
  /\ tx_amplitude \in Powers \cup {GoodPower}
  /\ pc \in {"wait", "power", "config", "push"}
  /\ received \in Seq(Measurements)
  /\ orb \in {"none", "current", "taken"}
  /\ applied \in Settings
  /\ amplifier \in LinkPowers
  /\ update = {} \/ \E u \in Settings : update = {u}
  /\ flight \in Seq(Measurements)
  /\ lag \in Nat
  /\ power_failed \in BOOLEAN
  /\ state \in 0..4
  /\ curmod \in Mods
  /\ curtxpowind \in Powers
  /\ buffer \in Seq(Measurements)
  /\ buffer_len \in Nat
  /\ buffer_seen \subseteq Measurements
  /\ current_rx_id \in Ids \cup {-1}
  /\ expected_rx_id \in Int
  /\ expire_cnt \in Nat

(* The id that state 1 learns from the measurements is the id of the last  *)
(* update, though measurements of the settings before it were still under  *)
(* way: the id the next update will get follows it.                        *)
IdLearned == state = 2 => current_rx_id = LastId

(* Everything a point is computed from was measured with the point's       *)
(* modulation, and with its power unless the push of the power failed,     *)
(* however late updates are taken and measurements arrive.                 *)
MeasuredAsConfigured ==
  state = 3 =>
    /\ mod_map = curmod /\ tx_amplitude = curtxpowind
    /\ \A m \in buffer_seen \cup {received[k] : k \in Matching} :
         /\ m.mod = curmod
         /\ ~power_failed => m.power = curtxpowind

(* A point is finished, or given up because nothing arrives any more, as   *)
(* long as the id it waits for exists.                                     *)
PointEnds == (state = 3 /\ expected_rx_id < max_tx_id) ~> (state # 3)

(* The same for every point.                                               *)
EveryPointEnds == (state = 3) ~> (state # 3)
=============================================================================
