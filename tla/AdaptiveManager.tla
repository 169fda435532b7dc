-------------------------- MODULE AdaptiveManager --------------------------
(***************************************************************************)
(* The water-filling resource manager (rm_singleuser_waterfilling4.py on   *)
(* resource_manager_base.py).  Clients change strategy and constraint      *)
(* in the ORB's thread while rounds read them in the timer's; a round      *)
(* loads the subcarriers after the last measurement, and pushes the power  *)
(* first and the loading then.                                             *)
(*                                                                         *)
(* A channel is the weights it gives the subcarriers.  Powers are squares  *)
(* of amplitudes.                                                          *)
(***************************************************************************)
EXTENDS BitLoading

CONSTANTS
  Channels,      \* weights the channel may have, or an estimate of it
  Constraints,   \* what clients ask for: an amplitude, or a number of bits
  ResetBits,     \* bits of every subcarrier in reset mode (2)
  MinUsed,       \* fewest used subcarriers that are pushed (80)
  MaxPower,      \* 32768^2
  InitPower,     \* the initial tx_amplitude, squared, and
  InitConstraint \* the initial constraint

Modes == {"reset", "margin", "rate"}

ASSUME AdaptiveAssumption ==
  /\ Channels # {}
  /\ Channels \subseteq [Subcarriers -> Nat \ {0}]
  /\ Constraints \subseteq Nat
  /\ InitConstraint \in Nat
  /\ ResetBits \in Bits \ {0}
  /\ MinUsed \in 1..N
  /\ MaxPower \in Nat \ {0}
  /\ InitPower \in 1..(MaxPower - 1)

VARIABLES
  strategy_mode, constraint,
  orb,          \* update(): "idle", or "constraint" is still to be copied
  pc,           \* "wait": for the timer; "ended": no timer any more
  latest,       \* the last measurement received since the last look, if any
  rxperf,       \* the one that the round works on
  has_agg_rate, \* a round in reset mode has set _agg_rate
  mod_map, tx_power,
  asked,        \* the mode and the constraint that these come from
  applied, amplifier,  \* the transmitter's loading and power
  channel

clients == <<strategy_mode, constraint, orb>>
decision == <<has_agg_rate, mod_map, tx_power, asked>>
outside == <<applied, amplifier, channel>>
vars == <<clients, pc, latest, rxperf, decision, outside>>

AllSubcarriers(bits) == [n \in Subcarriers |-> bits]

(* The base's constructor has pushed power 1.                              *)
Init ==
  /\ strategy_mode = "reset" /\ constraint = InitConstraint
  /\ orb = "idle"
  /\ pc = "wait"
  /\ latest = {} /\ rxperf = {}
  /\ has_agg_rate = FALSE
  /\ mod_map = AllSubcarriers(ResetBits) /\ tx_power = InitPower
  /\ asked = [mode |-> "none", constraint |-> 0]
  /\ applied = AllSubcarriers(ResetBits) /\ amplifier = 1
  /\ channel \in Channels

-----------------------------------------------------------------------------
(* update() copies one attribute after the other.  Clients may write the   *)
(* shadow copies at any time, so that it finds any of their values there.  *)

UpdateMode(shadow) ==
  /\ orb = "idle"
  /\ strategy_mode' = shadow
  /\ orb' = "constraint"
  /\ UNCHANGED constraint

UpdateConstraint(shadow) ==
  /\ orb = "constraint"
  /\ constraint' = shadow
  /\ orb' = "idle"
  /\ UNCHANGED strategy_mode

-----------------------------------------------------------------------------
(* Defects.                                                                *)

(* The fewest subcarriers are too few.                                     *)
MoreUsed(b) == Used(b) > MinUsed

(* No power passes.                                                        *)
LimitedAbove(power) == IF power < MaxPower THEN power ELSE MaxPower

-----------------------------------------------------------------------------
(* Rounds.                                                                 *)

Go(from, to) == pc = from /\ pc' = to

(* Without a measurement the last decision is pushed again.                *)
BeginRound ==
  /\ Go("wait", IF latest = {} THEN "power" ELSE "is_reset")
  /\ rxperf' = latest
  /\ latest' = {}
  /\ UNCHANGED <<clients, decision, outside>>

(* The mode is read up to three times.                                     *)
AskMode(from, mode, next) ==
  /\ Go(from, IF strategy_mode = mode THEN mode ELSE next)
  /\ UNCHANGED <<clients, latest, rxperf, decision, outside>>

is_reset_mode == AskMode("is_reset", "reset", "is_margin")
is_margin_adaptive_policy == AskMode("is_margin", "margin", "is_rate")
is_rate_adaptive_policy == AskMode("is_rate", "rate", "power")

Reset ==
  /\ Go("reset", "power")
  /\ mod_map' = AllSubcarriers(ResetBits)
  /\ tx_power' = constraint * constraint
  /\ has_agg_rate' = TRUE
  /\ asked' = [mode |-> "reset", constraint |-> constraint]
  /\ UNCHANGED <<clients, latest, rxperf, outside>>

(* The gains are computed with the power that should have been used: they  *)
(* are right if the measured frame had it.                                 *)
Estimates(m) == IF m.power = tx_power THEN {m.channel} ELSE Channels

(* The policies; measurements received meanwhile are dropped.              *)
Adapt(mode, Loading(_)) ==
  /\ Go(mode, "power")
  /\ has_agg_rate
  /\ \E m \in rxperf : \E w \in Estimates(m) :
       /\ mod_map' = Loading(w)
       /\ tx_power' = Energy(w, mod_map')
  /\ asked' = [mode |-> mode, constraint |-> constraint]
  /\ latest' = {}
  /\ UNCHANGED <<clients, rxperf, has_agg_rate, outside>>

rate_adaptive_policy ==
  LET Loading(w) == levin_campello(w, constraint * constraint, mod_map)
  IN  Adapt("rate", Loading)

margin_adaptive_policy ==
  /\ constraint <= N * max_nbits
  /\ LET Loading(w) == levin_campello_margin(w, constraint, mod_map)
     IN  Adapt("margin", Loading)

(* _agg_rate does not exist yet, or more bits are asked for than there     *)
(* are: an exception ends the timer's thread before it starts the timer.   *)
Fail ==
  /\ \/ pc \in {"rate", "margin"} /\ ~has_agg_rate
     \/ pc = "margin" /\ constraint > N * max_nbits
  /\ pc' = "ended"
  /\ UNCHANGED <<clients, latest, rxperf, decision, outside>>

(* propagate_changes: no power, or too much, is limited to the most.       *)
Limited(power) == IF power \in 1..(MaxPower - 1) THEN power ELSE MaxPower

PushPower(ok) ==
  /\ Go("power", "push")
  /\ tx_power' = Limited(tx_power)
  /\ amplifier' = IF ok THEN tx_power' ELSE amplifier
  /\ UNCHANGED <<clients, latest, rxperf, has_agg_rate, mod_map, asked,
                 applied, channel>>

EnoughUsed(b) == Used(b) >= MinUsed

push_data ==
  /\ Go("push", "wait")
  /\ applied' = IF EnoughUsed(mod_map) THEN mod_map ELSE applied
  /\ rxperf' = {}
  /\ UNCHANGED <<clients, latest, decision, amplifier, channel>>

Round ==
  \/ BeginRound
  \/ is_reset_mode
  \/ is_margin_adaptive_policy
  \/ is_rate_adaptive_policy
  \/ Reset
  \/ rate_adaptive_policy
  \/ margin_adaptive_policy
  \/ Fail
  \/ PushPower(TRUE)
  \/ push_data

-----------------------------------------------------------------------------
(* Outside: a frame is measured.                                           *)
Measure ==
  /\ latest' = {[channel |-> channel, power |-> amplifier]}
  /\ UNCHANGED <<clients, pc, rxperf, decision, outside>>

ChannelChange ==
  /\ channel' \in Channels \ {channel}
  /\ UNCHANGED <<clients, pc, latest, rxperf, decision, applied, amplifier>>

StartUpdate ==
  /\ \E mode \in Modes : UpdateMode(mode)
  /\ UNCHANGED <<pc, latest, rxperf, decision, outside>>

FinishUpdate ==
  /\ \E val \in Constraints : UpdateConstraint(val)
  /\ UNCHANGED <<pc, latest, rxperf, decision, outside>>

Next ==
  \/ Round
  \/ PushPower(FALSE)
  \/ Measure
  \/ ChannelChange
  \/ StartUpdate
  \/ FinishUpdate

Spec == Init /\ [][Next]_vars

(* The timer goes off, its thread runs on and so does the ORB's; frames    *)
(* are measured between the rounds.                                        *)
FairSpec ==
  /\ Spec
  /\ WF_vars(Round)
  /\ WF_vars(FinishUpdate)
  /\ SF_vars(pc = "wait" /\ Measure)

-----------------------------------------------------------------------------
(* Properties.                                                             *)

Pairs == [mode : Modes \cup {"none"}, constraint : Nat]
RxPerf == [channel : Channels, power : Nat]

TypeOK ==
  /\ strategy_mode \in Modes
  /\ constraint \in Nat
  /\ orb \in {"idle", "constraint"}
  /\ pc \in Modes \cup {"wait", "is_reset", "is_margin", "is_rate", "power",
                        "push", "ended"}
  /\ latest \subseteq RxPerf /\ rxperf \subseteq RxPerf
  /\ has_agg_rate \in BOOLEAN
  /\ mod_map \in Loadings
  /\ tx_power \in Nat
  /\ asked \in Pairs
  /\ applied \in Loadings
  /\ amplifier \in 1..MaxPower
  /\ channel \in Channels

(* Whatever the loading before, a round in an adaptive mode finds the best *)
(* one for its estimate: the most bits for the energy allowed, or the      *)
(* least energy for the bits asked for.                                    *)
LoadingBest ==
  [][ \A m \in rxperf :
        /\ Go("rate", "power") =>
             \E w \in Estimates(m) : BestRate(w, constraint * constraint, mod_map')
        /\ Go("margin", "power") =>
             \E w \in Estimates(m) : BestMargin(w, constraint, mod_map') ]_vars

(* The energy constraint is met as long as it allows a bit.  (Otherwise    *)
(* the power 0 is taken for out of range and replaced by MaxPower.)        *)
PowerWithinWhenUsed ==
  pc = "push" /\ asked.mode = "rate" /\ Used(mod_map) > 0 =>
    tx_power <= asked.constraint * asked.constraint

(* What may stop for good: clients, changes of the channel, failures, and  *)
(* frames that are lost from one round to the next (setup_time is 2 s).    *)
Outdated == \E m \in latest : m.power # amplifier

Disturbance ==
  \/ StartUpdate
  \/ ChannelChange
  \/ PushPower(FALSE) /\ amplifier' # tx_power'
  \/ BeginRound /\ Outdated

Adapted ==
  /\ applied = mod_map /\ amplifier = tx_power
  /\ asked = [mode |-> strategy_mode, constraint |-> constraint]
  /\ asked.mode = "rate" => BestRate(channel, constraint * constraint, applied)
  /\ asked.mode = "margin" => BestMargin(channel, constraint, applied)
  /\ asked.mode = "reset" => applied = AllSubcarriers(ResetBits)

GivenUp == pc = "ended" \/ Used(mod_map) < MinUsed \/ tx_power = MaxPower

(* When all of these have stopped the transmitter ends up with the best    *)
(* loading for the constraint, unless the rounds have ended, too few       *)
(* subcarriers can be used or the power is limited.                        *)
Converges == <>[][~Disturbance]_vars => <>[](Adapted \/ GivenUp)
=============================================================================
