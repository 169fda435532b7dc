--------------------------- MODULE BerSweepProofs ---------------------------
(***************************************************************************)
(* The sweep learns the right id and measures every point with the point's *)
(* settings, for every number of ids, points, frames under way and         *)
(* measurements to collect.                                                *)
(***************************************************************************)
EXTENDS BerSweep, FiniteSetTheorems, SequenceTheorems, TLAPS

(* A measurement of the last update is fresh; pushed is when the update    *)
(* that has the last id is the one that mod_map belongs to.                *)
Fresh(m) == m.id = LastId

Pushed == pc \in {"wait", "push"}

PrevId == (LastId - 1) % max_tx_id

(* The transmitter has the last update, or the one before.                 *)
Radio ==
  /\ update \subseteq {[id |-> LastId, mod |-> mod_map]}
  /\ pc # "push" /\ update = {} => applied.id = LastId
  /\ ~Pushed => update = {}
  /\ Pushed => \/ applied = [id |-> LastId, mod |-> mod_map]
               \/ applied.id = PrevId
  /\ lag <= Lag
  /\ Len(flight) <= InFlight
  /\ orb # "none" => flight # << >>

(* While the link is set up, old measurements are few.                     *)
Waiting == buffer \o received \o flight

Learning ==
  state = 1 =>
    /\ ~Pushed \/ applied.id # LastId => Len(Waiting) <= InFlight + lag
    /\ Pushed => \A k \in 1..Len(Waiting) :
                   k > InFlight + Lag => Fresh(Waiting[k])

(* Between two updates everything under way is of the last one.            *)
Quiet == /\ pc = "wait" /\ update = {}
         /\ \A k \in 1..Len(received) : Fresh(received[k])
         /\ \A k \in 1..Len(flight) : Fresh(flight[k])

Learned == state = 2 => Quiet /\ current_rx_id = LastId

Between == state = 4 => Quiet /\ expected_rx_id = LastId

(* An update changes the id of what is under way once.                     *)
Right(m) == m.mod = curmod /\ (~power_failed => m.power = curtxpowind)

Announcing ==
  state = 3 /\ ~Pushed =>
    /\ expected_rx_id \in {NextId(LastId), max_tx_id}
    /\ \A k \in 1..Len(received) : Fresh(received[k])
    /\ \A k \in 1..Len(flight) : Fresh(flight[k])
    /\ buffer_len = 0 /\ buffer_seen = {}

Measuring ==
  state = 3 /\ Pushed =>
    /\ expected_rx_id \in {LastId, max_tx_id}
    /\ \A k \in 1..Len(received) : Fresh(received[k]) => Right(received[k])
    /\ \A k \in 1..Len(flight) : Fresh(flight[k]) => Right(flight[k])
    /\ \A m \in buffer_seen : Right(m)
    /\ applied.id # LastId =>
         /\ buffer_len = 0
         /\ \A k \in 1..Len(received) : ~Fresh(received[k])
         /\ \A k \in 1..Len(flight) : ~Fresh(flight[k])
    /\ buffer_len > 0 \/ (\E k \in 1..Len(received) : Fresh(received[k])) =>
         \A k \in 1..Len(flight) : Fresh(flight[k])
    /\ buffer_len > 0 =>
         /\ expected_rx_id = LastId
         /\ \A k \in 1..Len(received) : Fresh(received[k])
    /\ \A j, k \in 1..Len(flight) :
         j < k /\ Fresh(flight[j]) => Fresh(flight[k])

Sweeping ==
  /\ state \in {0, 2, 4} => pc = "wait" /\ update = {}
  /\ state = 3 => /\ mod_map = curmod /\ tx_amplitude = curtxpowind
                  /\ pc # "power" /\ ~power_failed => amplifier = tx_amplitude

IndInv ==
  /\ TypeOK
  /\ Radio
  /\ Learning
  /\ Learned
  /\ Between
  /\ Announcing
  /\ Measuring
  /\ Sweeping

-----------------------------------------------------------------------------
USE ManagerAssumption, SweepAssumption

(* Ids go round.                                                           *)
LEMMA IdFacts ==
  ASSUME NEW t \in Ids
  PROVE  /\ (t - 1) % max_tx_id = IF t = 0 THEN max_tx_id - 1 ELSE t - 1
         /\ NextId(t) = IF t = max_tx_id - 1 THEN 0 ELSE t + 1
  BY DEF Ids, NextId

LEMMA LastIdType ==
  ASSUME tx_id \in Ids
  PROVE  /\ LastId \in Ids /\ PrevId \in Ids
         /\ NextId(LastId) = tx_id
         /\ NextId(tx_id) \in Ids
         /\ (NextId(tx_id) - 1) % max_tx_id = tx_id
         /\ PrevId # LastId /\ LastId # tx_id
         /\ (tx_id - 1) % max_tx_id = LastId
<1>1. LastId = IF tx_id = 0 THEN max_tx_id - 1 ELSE tx_id - 1
  BY IdFacts DEF LastId
<1>2. LastId \in Ids
  BY <1>1 DEF Ids
<1>3. PrevId = IF LastId = 0 THEN max_tx_id - 1 ELSE LastId - 1
  BY <1>2, IdFacts DEF PrevId
<1>4. NextId(LastId) = IF LastId = max_tx_id - 1 THEN 0 ELSE LastId + 1
  BY <1>2, IdFacts
<1>5. NextId(tx_id) = IF tx_id = max_tx_id - 1 THEN 0 ELSE tx_id + 1
  BY IdFacts
<1>6. NextId(tx_id) \in Ids
  BY <1>5 DEF Ids
<1>7. (NextId(tx_id) - 1) % max_tx_id =
        IF NextId(tx_id) = 0 THEN max_tx_id - 1 ELSE NextId(tx_id) - 1
  BY <1>6, IdFacts
<1>8. NextId(LastId) = tx_id /\ LastId # tx_id
  BY <1>1, <1>4 DEF Ids
<1>9. PrevId \in Ids /\ PrevId # LastId
  BY <1>2, <1>3 DEF Ids
<1>10. (NextId(tx_id) - 1) % max_tx_id = tx_id
  BY <1>5, <1>7 DEF Ids
<1> QED
  BY <1>2, <1>6, <1>8, <1>9, <1>10 DEF LastId

-----------------------------------------------------------------------------
(* Types.                                                                  *)

LEMMA InitTypeOK == Init => TypeOK
<1> SUFFICES ASSUME Init PROVE TypeOK
  OBVIOUS
<1>1. 1 \in Ids /\ NextId(1) \in Ids
  BY IdFacts DEF Ids
<1>2. 0 \in Mods /\ 0 \in Powers
  BY DEF Mods, Powers
<1>3. applied \in Settings
  BY <1>1 DEF Init, Settings, LinkMods
<1>4. << >> \in Seq(Measurements)
  BY EmptySeq
<1>5. tx_id \in Ids /\ InitMod \in LinkMods
  BY <1>1 DEF Init, LinkMods
<1>6. /\ mod_map = InitMod /\ tx_amplitude = 0 /\ pc = "wait"
      /\ received = << >> /\ orb = "none" /\ amplifier = InitPower
      /\ update = {} /\ flight = << >> /\ lag = 0 /\ power_failed = FALSE
      /\ state = 0 /\ curmod = 0 /\ curtxpowind = 0
      /\ buffer = << >> /\ buffer_len = 0 /\ buffer_seen = {}
      /\ current_rx_id = -1 /\ expected_rx_id = -1 /\ expire_cnt = 0
  BY DEF Init
<1>7. power_failed \in BOOLEAN
  BY <1>6
<1>8. current_rx_id \in Ids \cup {-1} /\ expected_rx_id \in Int /\ expire_cnt \in Nat
  BY <1>6
<1>9. buffer_seen \subseteq Measurements /\ state \in 0..4
  BY <1>6
<1> QED
  BY <1>2, <1>3, <1>4, <1>5, <1>6, <1>7, <1>8, <1>9 DEF TypeOK, LinkPowers

(* What the environment and the pushing of an update do to the types.      *)
LEMMA BaseTypeOK == TypeOK /\ Radio /\ Base /\ UNCHANGED sweep => TypeOK'
<1> SUFFICES ASSUME TypeOK, Radio, Base, UNCHANGED sweep PROVE TypeOK'
  OBVIOUS
<1> USE DEF sweep, point, buffers
<1>1. LastId \in Ids /\ NextId(tx_id) \in Ids
  BY LastIdType DEF TypeOK
<1>2. CASE PushPower
  BY <1>2 DEF PushPower, TypeOK, LinkPowers, settings, consumer
<1>3. CASE TakeId
  BY <1>1, <1>3 DEF TakeId, TypeOK, consumer, radio
<1>4. ASSUME NEW accepted \in BOOLEAN, Push(accepted) PROVE TypeOK'
  <2>1. [id |-> LastId, mod |-> mod_map] \in Settings
    BY <1>1 DEF TypeOK, Settings
  <2> QED
    BY <1>4, <2>1 DEF Push, TypeOK, settings, consumer
<1>5. CASE SendFrame
  <2>1. Measurement \in Measurements
    BY DEF Measurement, Measurements, TypeOK, Settings
  <2> QED
    BY <1>5, <2>1 DEF SendFrame, TypeOK, settings, consumer
<1>6. CASE TakeUpdate
  BY <1>6 DEF TakeUpdate, TypeOK, settings, consumer
<1>7. CASE LookUp
  BY <1>7 DEF LookUp, TypeOK, settings, radio
<1>8. CASE AppendReceived
  <2>1. flight # << >>
    BY <1>8 DEF AppendReceived, Radio
  <2>2. Head(flight) \in Measurements /\ Tail(flight) \in Seq(Measurements)
    BY <2>1, HeadTailProperties DEF TypeOK
  <2> QED
    BY <1>8, <2>2 DEF AppendReceived, TypeOK, settings
<1> QED
  BY <1>2, <1>3, <1>4, <1>5, <1>6, <1>7, <1>8 DEF Base

LEMMA WorkTypeOK == TypeOK /\ Work => TypeOK'
<1> SUFFICES ASSUME TypeOK, Work PROVE TypeOK'
  OBVIOUS
<1> USE DEF settings, sweep, point, buffers, StayInRound, BeginRound,
            TakeReceived, ClearBuffer
<1>1. CASE Wait
  BY <1>1 DEF Wait, TypeOK
<1>2. CASE SetUpLink
  <2>1. << >> \in Seq(Measurements)
    BY EmptySeq
  <2>2. received' = << >> /\ orb' \in {"none", "current", "taken"}
    BY <1>2 DEF SetUpLink, InState, TypeOK
  <2>3. expire_cnt' \in Nat
    BY <1>2 DEF SetUpLink, InState, TypeOK
  <2>4. UNCHANGED <<tx_id, curmod, curtxpowind, current_rx_id, expected_rx_id>>
    BY <1>2 DEF SetUpLink
  <2>5. UNCHANGED <<applied, amplifier, update, flight, power_failed>> /\ lag' = 0
    BY <1>2 DEF SetUpLink, InState
  <2>6. mod_map' = GoodMod /\ tx_amplitude' = GoodPower /\ state' = 1 /\ pc' = "power"
        /\ buffer' = << >> /\ buffer_len' = 0 /\ buffer_seen' = {}
    BY <1>2 DEF SetUpLink
  <2> HIDE DEF BeginRound
  <2> QED
    BY <2>1, <2>2, <2>3, <2>4, <2>5, <2>6 DEF TypeOK, LinkMods
<1>3. CASE CollectIds
  <2>1. buffer' \in Seq(Measurements)
    BY <1>3, ConcatProperties DEF CollectIds, TypeOK
  <2>2. current_rx_id' \in Ids \cup {-1}
    <3>1. CASE UNCHANGED current_rx_id
      BY <3>1 DEF TypeOK
    <3>2. CASE Len(buffer') >= Collect /\ current_rx_id' = buffer'[Len(buffer')].id
      <4>1. Len(buffer') \in 1..Len(buffer')
        BY <2>1, <3>2, LenProperties
      <4>2. buffer'[Len(buffer')] \in Measurements
        BY <2>1, <4>1, ElementOfSeq
      <4> QED
        BY <3>2, <4>2 DEF Measurements
    <3> QED
      BY <1>3, <3>1, <3>2 DEF CollectIds
  <2> QED
    BY <1>3, <2>1, <2>2 DEF CollectIds, InState, TypeOK
<1>4. CASE FirstPoint
  <2>1. 0 \in Mods /\ 0 \in Powers
    BY DEF Mods, Powers
  <2>2. expected_rx_id' \in Int
    BY <1>4 DEF FirstPoint, TypeOK, NextId, Ids
  <2> QED
    BY <1>4, <2>1, <2>2 DEF FirstPoint, SetPoint, InState, TypeOK, LinkMods
<1>5. CASE MeasurePoint
  <2>1. BufferLen \in Nat
    <3>1. IsFiniteSet(1..Len(received))
      BY FS_Interval DEF TypeOK
    <3>2. IsFiniteSet(Matching)
      BY <3>1, FS_Subset DEF Matching
    <3> QED
      BY <3>2, FS_CardinalityType DEF BufferLen, TypeOK
  <2>2. {received[k] : k \in Matching} \subseteq Measurements
    BY ElementOfSeq DEF Matching, TypeOK
  <2>3. /\ buffer' \in Seq(Measurements)
        /\ buffer_len' \in Nat
        /\ buffer_seen' \subseteq Measurements
        /\ state' \in 0..4
    <3>1. CASE BufferLen <= PointLen
      <4>1. /\ buffer_len' = BufferLen /\ UNCHANGED <<state, buffer>>
            /\ buffer_seen' = buffer_seen \cup {received[k] : k \in Matching}
        BY <1>5, <2>1, <3>1 DEF MeasurePoint
      <4> QED
        BY <2>1, <2>2, <4>1 DEF TypeOK
    <3>2. CASE BufferLen > PointLen
      <4>1. state' = 4 /\ buffer' = << >> /\ buffer_len' = 0 /\ buffer_seen' = {}
        BY <1>5, <2>1, <3>2 DEF MeasurePoint
      <4> QED
        BY <4>1, EmptySeq
    <3> QED
      BY <2>1, <3>1, <3>2
  <2>4. received' = << >> /\ orb' \in {"none", "current", "taken"}
    BY <1>5 DEF MeasurePoint, InState, TypeOK
  <2>5. /\ UNCHANGED <<settings, pc, point, current_rx_id, expected_rx_id>>
        /\ UNCHANGED <<applied, amplifier, update, flight, power_failed>>
        /\ UNCHANGED expire_cnt /\ lag' = 0
    BY <1>5 DEF MeasurePoint, InState
  <2> QED
    BY <2>3, <2>4, <2>5, EmptySeq DEF TypeOK
<1>6. CASE GoToNextPoint
  <2>1. NextPoint[1] \in Mods /\ NextPoint[2] \in Powers
    BY DEF NextPoint, Mods, Powers, TypeOK
  <2> QED
    BY <1>6, <2>1 DEF GoToNextPoint, SetPoint, InState, TypeOK, LinkMods
<1> QED
  BY <1>1, <1>2, <1>3, <1>4, <1>5, <1>6 DEF Work
-----------------------------------------------------------------------------
(* The radio.                                                              *)

LEMMA RadioStep == TypeOK /\ Radio /\ Sweeping /\ [Next]_vars => Radio'
<1> SUFFICES ASSUME TypeOK, Radio, Sweeping, [Next]_vars PROVE Radio'
  OBVIOUS
<1> USE DEF settings, consumer, radio, sweep, point, buffers, vars
<1>0. /\ LastId \in Ids /\ PrevId \in Ids /\ NextId(tx_id) \in Ids
      /\ (NextId(tx_id) - 1) % max_tx_id = tx_id
      /\ (tx_id - 1) % max_tx_id = LastId
  BY LastIdType DEF TypeOK
<1>1. CASE UNCHANGED vars
  BY <1>1 DEF Radio, Pushed, LastId, PrevId
<1>2. CASE Work
  <2>1. /\ pc = "wait" /\ update = {} /\ lag' = 0
        /\ pc' \in {"wait", "power"}
        /\ UNCHANGED <<tx_id, applied, update, flight>>
        /\ orb' # "none" => orb # "none"
        /\ pc' = "wait" => mod_map' = mod_map
    BY <1>2 DEF Work, Wait, SetUpLink, CollectIds, FirstPoint, MeasurePoint,
         GoToNextPoint, SetPoint, InState, BeginRound, TakeReceived, StayInRound
  <2>2. LastId' = LastId /\ PrevId' = PrevId
    BY <2>1 DEF LastId, PrevId
  <2> QED
    BY <2>1, <2>2 DEF Radio, Pushed
<1>3. CASE PushPower /\ UNCHANGED sweep
  BY <1>3 DEF PushPower, Radio, Pushed, LastId, PrevId
<1>4. CASE TakeId /\ UNCHANGED sweep
  <2>1. LastId' = tx_id /\ PrevId' = LastId
    BY <1>0, <1>4 DEF TakeId, LastId, PrevId
  <2> QED
    BY <1>4, <2>1 DEF TakeId, Radio, Pushed
<1>5. ASSUME NEW accepted \in BOOLEAN, Push(accepted), UNCHANGED sweep
      PROVE  Radio'
  <2>1. LastId' = LastId /\ PrevId' = PrevId
    BY <1>5 DEF Push, LastId, PrevId
  <2> QED
    BY <1>5, <2>1 DEF Push, Radio, Pushed
<1>6. CASE SendFrame /\ UNCHANGED sweep
  <2>1. LastId' = LastId /\ PrevId' = PrevId
    BY <1>6 DEF SendFrame, LastId, PrevId
  <2>2. flight' # << >> /\ Len(flight') <= InFlight
    BY <1>6 DEF SendFrame, TypeOK
  <2>3. lag' <= Lag
    BY <1>6 DEF SendFrame, Radio, TypeOK
  <2> QED
    BY <1>6, <2>1, <2>2, <2>3 DEF SendFrame, Radio, Pushed
<1>7. CASE TakeUpdate /\ UNCHANGED sweep
  <2>1. LastId' = LastId /\ PrevId' = PrevId
    BY <1>7 DEF TakeUpdate, LastId, PrevId
  <2> QED
    BY <1>7, <2>1 DEF TakeUpdate, Radio, Pushed
<1>8. CASE LookUp /\ UNCHANGED sweep
  BY <1>8 DEF LookUp, Radio, Pushed, LastId, PrevId
<1>9. CASE AppendReceived /\ UNCHANGED sweep
  <2>1. LastId' = LastId /\ PrevId' = PrevId
    BY <1>9 DEF AppendReceived, LastId, PrevId
  <2>2. Len(flight') <= InFlight
    <3>1. flight # << >>
      BY <1>9 DEF AppendReceived, Radio
    <3> QED
      BY <1>9, <3>1, HeadTailProperties DEF AppendReceived, TypeOK, Radio
  <2> QED
    BY <1>9, <2>1, <2>2 DEF AppendReceived, Radio, Pushed
<1> QED
  BY <1>1, <1>2, <1>3, <1>4, <1>5, <1>6, <1>7, <1>8, <1>9 DEF Next, Base
-----------------------------------------------------------------------------
(* What is under way, in the order of the frames.                          *)

Parts(w, a, b, c) ==
  /\ Len(w) = Len(a) + Len(b) + Len(c)
  /\ \A k \in 1..Len(a) : w[k] = a[k]
  /\ \A k \in 1..Len(b) : w[Len(a) + k] = b[k]
  /\ \A k \in 1..Len(c) : w[Len(a) + Len(b) + k] = c[k]
  /\ \A k \in 1..Len(w) :
       \/ k \in 1..Len(a)
       \/ \E j \in 1..Len(b) : k = Len(a) + j
       \/ \E j \in 1..Len(c) : k = Len(a) + Len(b) + j

LEMMA Concat3 ==
  ASSUME NEW S, NEW a \in Seq(S), NEW b \in Seq(S), NEW c \in Seq(S)
  PROVE  Parts(a \o b \o c, a, b, c)
<1> DEFINE ab == a \o b
           abc == ab \o c
<1>1. /\ ab \in Seq(S) /\ Len(ab) = Len(a) + Len(b)
      /\ \A k \in 1..(Len(a) + Len(b)) :
           ab[k] = IF k <= Len(a) THEN a[k] ELSE b[k - Len(a)]
  BY ConcatProperties
<1> HIDE DEF ab
<1>2. /\ abc \in Seq(S) /\ Len(abc) = Len(ab) + Len(c)
      /\ \A k \in 1..(Len(ab) + Len(c)) :
           abc[k] = IF k <= Len(ab) THEN ab[k] ELSE c[k - Len(ab)]
  BY ZenonT(60), <1>1, ConcatProperties
<1> HIDE DEF abc
<1>3. Len(a) \in Nat /\ Len(b) \in Nat /\ Len(c) \in Nat
  BY LenProperties
<1>4. Len(abc) = Len(a) + Len(b) + Len(c)
  BY <1>1, <1>2, <1>3
<1>5. \A k \in 1..Len(a) : abc[k] = a[k]
  BY <1>1, <1>2, <1>3
<1>6. \A k \in 1..Len(b) : abc[Len(a) + k] = b[k]
  BY <1>1, <1>2, <1>3
<1>7. ASSUME NEW k \in 1..Len(c)
      PROVE  abc[Len(a) + Len(b) + k] = c[k]
  <2>1. /\ Len(ab) + k \in 1..(Len(ab) + Len(c))
        /\ Len(ab) + k > Len(ab) /\ Len(ab) + k - Len(ab) = k
    BY <1>1, <1>3
  <2>2. abc[Len(ab) + k] = c[Len(ab) + k - Len(ab)]
    BY SMTT(30), <1>2, <2>1
  <2>3. Len(ab) + k = Len(a) + Len(b) + k
    BY <1>1, <1>3
  <2>4. abc[Len(ab) + k] = c[k]
    BY <2>1, <2>2
  <2> QED
    BY <2>3, <2>4
<1>8. ASSUME NEW k \in 1..Len(abc)
      PROVE  \/ k \in 1..Len(a)
             \/ \E j \in 1..Len(b) : k = Len(a) + j
             \/ \E j \in 1..Len(c) : k = Len(a) + Len(b) + j
  <2>1. CASE k <= Len(a)
    BY <1>3, <1>4, <2>1
  <2>2. CASE k > Len(a) /\ k <= Len(a) + Len(b)
    <3>1. k - Len(a) \in 1..Len(b) /\ k = Len(a) + (k - Len(a))
      BY <1>3, <2>2
    <3> QED
      BY <3>1
  <2>3. CASE k > Len(a) + Len(b)
    <3>1. k - Len(a) - Len(b) \in 1..Len(c)
          /\ k = Len(a) + Len(b) + (k - Len(a) - Len(b))
      BY <1>3, <1>4, <2>3
    <3> QED
      BY <3>1
  <2> QED
    BY <1>3, <2>1, <2>2, <2>3
<1> QED
  BY <1>2, <1>4, <1>5, <1>6, <1>7, <1>8 DEF ab, abc, Parts

(* An append in progress ends: the oldest measurement is received or lost. *)
LEMMA Arrival ==
  ASSUME TypeOK, Radio, AppendReceived, UNCHANGED buffer
  PROVE  /\ Len(Waiting') <= Len(Waiting)
         /\ \A k \in 1..Len(Waiting') :
              Waiting'[k] = Waiting[k] \/ (k + 1 \in 1..Len(Waiting)
                                         /\ Waiting'[k] = Waiting[k + 1])
         /\ flight # << >> /\ flight' = Tail(flight)
         /\ received' = received \/ received' = Append(received, flight[1])
<1>1. flight # << >> /\ flight' = Tail(flight)
  BY DEF AppendReceived, Radio
<1>2. /\ flight \in Seq(Measurements) /\ received \in Seq(Measurements)
      /\ buffer \in Seq(Measurements)
  BY DEF TypeOK
<1>3. /\ Len(flight) \in Nat \ {0} /\ Len(received) \in Nat
      /\ Len(buffer) \in Nat /\ flight[1] \in Measurements
      /\ flight' \in Seq(Measurements) /\ Len(flight') = Len(flight) - 1
      /\ \A k \in 1..Len(flight') : flight'[k] = flight[k + 1]
  BY <1>1, <1>2
<1>p. Parts(Waiting, buffer, received, flight)
  BY <1>2, Concat3 DEF Waiting
<1>4. CASE orb = "current"
  <2>1. received' = Append(received, flight[1])
    BY <1>1, <1>4 DEF AppendReceived
  <2>2. /\ received' \in Seq(Measurements)
        /\ Len(received') = Len(received) + 1
        /\ \A k \in 1..Len(received) : received'[k] = received[k]
        /\ received'[Len(received) + 1] = flight[1]
    BY <1>2, <1>3, <2>1
  <2>p. Parts(Waiting', buffer, received', flight')
    BY <1>2, <1>3, <2>2, Concat3 DEF Waiting
  <2>3. Len(Waiting') = Len(Waiting)
    BY <1>2, <1>3, <2>2, <1>p, <2>p DEF Parts
  <2>4. ASSUME NEW k \in 1..Len(Waiting')
        PROVE  Waiting'[k] = Waiting[k]
    <3>1. CASE k \in 1..Len(buffer)
      BY <1>2, <1>3, <2>2, <3>1, <1>p, <2>p DEF Parts
    <3>2. ASSUME NEW j \in 1..Len(received'), k = Len(buffer) + j
          PROVE  Waiting'[k] = Waiting[k]
      <4>1. Waiting'[k] = received'[j]
        BY <1>2, <1>3, <2>2, <3>2, <1>p, <2>p DEF Parts
      <4>2. CASE j <= Len(received)
        <5>1. j \in 1..Len(received)
          BY <2>2, <4>2, <1>3
        <5>2. Waiting[k] = received[j]
          BY <1>2, <3>2, <5>1, <1>p, <2>p DEF Parts
        <5> QED
          BY <2>2, <4>1, <5>1, <5>2
      <4>3. CASE j = Len(received) + 1
        <5>1. k = Len(buffer) + Len(received) + 1 /\ 1 \in 1..Len(flight)
          BY <1>3, <3>2, <4>3
        <5>2. Waiting[k] = flight[1]
          BY <1>2, <5>1, <1>p, <2>p DEF Parts
        <5> QED
          BY <2>2, <4>1, <4>3, <5>2
      <4> QED
        BY <2>2, <4>2, <4>3, <1>3
    <3>3. ASSUME NEW j \in 1..Len(flight'), k = Len(buffer) + Len(received') + j
          PROVE  Waiting'[k] = Waiting[k]
      <4>1. Waiting'[k] = flight'[j]
        BY <1>2, <1>3, <2>2, <3>3, <1>p, <2>p DEF Parts
      <4>2. k = Len(buffer) + Len(received) + (j + 1) /\ j + 1 \in 1..Len(flight)
        BY <1>3, <2>2, <3>3
      <4>3. Waiting[k] = flight[j + 1]
        BY <1>2, <4>2, <1>p, <2>p DEF Parts
      <4> QED
        BY <1>3, <4>1, <4>3
    <3>4. \/ k \in 1..Len(buffer)
          \/ \E j \in 1..Len(received') : k = Len(buffer) + j
          \/ \E j \in 1..Len(flight') : k = Len(buffer) + Len(received') + j
      BY <1>2, <1>3, <2>2, <1>p, <2>p DEF Parts
    <3> QED
      BY <3>1, <3>2, <3>3, <3>4
  <2> QED
    BY <1>1, <1>2, <1>3, <2>1, <2>2, <2>3, <2>4, <1>p, <2>p DEF Parts
<1>5. CASE orb # "current"
  <2>1. received' = received
    BY <1>5 DEF AppendReceived
  <2>p. Parts(Waiting', buffer, received, flight')
    BY <1>2, <1>3, <2>1, Concat3 DEF Waiting
  <2>2. Len(Waiting') = Len(Waiting) - 1 /\ Len(Waiting) \in Nat
    BY <1>2, <1>3, <2>1, <1>p, <2>p DEF Parts
  <2>3. ASSUME NEW k \in 1..Len(Waiting')
        PROVE  \/ Waiting'[k] = Waiting[k]
               \/ k + 1 \in 1..Len(Waiting) /\ Waiting'[k] = Waiting[k + 1]
    <3>1. CASE k \in 1..Len(buffer)
      BY <1>2, <1>3, <2>1, <3>1, <1>p, <2>p DEF Parts
    <3>2. ASSUME NEW j \in 1..Len(received), k = Len(buffer) + j
          PROVE  Waiting'[k] = Waiting[k]
      BY <1>2, <1>3, <2>1, <3>2, <1>p, <2>p DEF Parts
    <3>3. ASSUME NEW j \in 1..Len(flight'), k = Len(buffer) + Len(received) + j
          PROVE  k + 1 \in 1..Len(Waiting) /\ Waiting'[k] = Waiting[k + 1]
      <4>1. Waiting'[k] = flight'[j]
        BY <1>2, <1>3, <2>1, <3>3, <1>p, <2>p DEF Parts
      <4>2. /\ k + 1 = Len(buffer) + Len(received) + (j + 1)
            /\ j + 1 \in 1..Len(flight)
        BY <1>3, <3>3
      <4>3. Waiting[k + 1] = flight[j + 1]
        BY <1>2, <4>2, <1>p, <2>p DEF Parts
      <4>4. k + 1 \in 1..Len(Waiting)
        BY <2>2
      <4> QED
        BY <1>3, <4>1, <4>3, <4>4
    <3>4. \/ k \in 1..Len(buffer)
          \/ \E j \in 1..Len(received) : k = Len(buffer) + j
          \/ \E j \in 1..Len(flight') : k = Len(buffer) + Len(received) + j
      BY <1>2, <1>3, <2>1, <1>p, <2>p DEF Parts
    <3> QED
      BY <3>1, <3>2, <3>3, <3>4
  <2> QED
    BY <1>1, <2>1, <2>2, <2>3
<1> QED
  BY <1>4, <1>5
-----------------------------------------------------------------------------
(* Learning the id.                                                        *)

LEMMA LearningStep ==
  TypeOK /\ Radio /\ Sweeping /\ Learning /\ [Next]_vars => Learning'
<1> SUFFICES ASSUME TypeOK, Radio, Sweeping, Learning, [Next]_vars, state' = 1
             PROVE  Learning'
  BY DEF Learning
<1> USE DEF settings, consumer, radio, sweep, point, buffers, vars
<1>0. /\ flight \in Seq(Measurements) /\ received \in Seq(Measurements)
      /\ buffer \in Seq(Measurements) /\ lag \in Nat
      /\ Parts(Waiting, buffer, received, flight) /\ Len(Waiting) \in Nat
  <2>1. /\ flight \in Seq(Measurements) /\ received \in Seq(Measurements)
        /\ buffer \in Seq(Measurements) /\ lag \in Nat
    BY DEF TypeOK
  <2>2. Parts(Waiting, buffer, received, flight)
    BY <2>1, Concat3 DEF Waiting
  <2> QED
    BY <2>1, <2>2 DEF Parts
<1>1. CASE UNCHANGED vars
  BY <1>1 DEF Learning, Waiting, Pushed, Fresh, LastId
<1>2. CASE Wait
  <2>1. /\ pc = "wait" /\ update = {} /\ received = << >> /\ state = 1
        /\ UNCHANGED <<buffer, flight, applied, tx_id, pc>> /\ received' = << >>
    BY <1>2 DEF Wait, BeginRound, TakeReceived, StayInRound
  <2>2. Waiting' = Waiting /\ LastId' = LastId /\ applied.id = LastId
    BY <2>1 DEF Waiting, LastId, Radio
  <2> QED
    BY <2>1, <2>2 DEF Learning, Pushed, Fresh
<1>3. CASE SetUpLink
  <2>1. /\ buffer' = << >> /\ received' = << >> /\ flight' = flight
        /\ pc' = "power" /\ lag' = 0
    BY <1>3 DEF SetUpLink, InState, BeginRound, TakeReceived, StayInRound,
         ClearBuffer
  <2>2. Waiting' = flight
    BY <1>0, <2>1, EmptySeq, ConcatEmptySeq DEF Waiting
  <2>3. Len(Waiting') <= InFlight + lag'
    BY <2>1, <2>2 DEF Radio
  <2> QED
    BY <2>1, <2>3 DEF Learning, Pushed
<1>4. CASE CollectIds
  <2>1. /\ pc = "wait" /\ update = {} /\ state = 1 /\ received' = << >>
        /\ UNCHANGED <<flight, applied, tx_id, pc>>
        /\ buffer' = buffer \o received
    BY <1>4 DEF CollectIds, InState, BeginRound, TakeReceived, StayInRound
  <2>2. Waiting' = Waiting
    <3>1. buffer' \in Seq(Measurements)
      BY <1>0, <2>1, ConcatProperties
    <3> QED
      BY <1>0, <2>1, <3>1, ConcatEmptySeq DEF Waiting
  <2>3. LastId' = LastId /\ applied.id = LastId
    BY <2>1 DEF LastId, Radio
  <2> QED
    BY <2>1, <2>2, <2>3 DEF Learning, Pushed, Fresh
<1>5. CASE FirstPoint \/ MeasurePoint \/ GoToNextPoint
  BY <1>5 DEF FirstPoint, MeasurePoint, GoToNextPoint, InState
<1>6. CASE PushPower /\ UNCHANGED sweep
  BY <1>6 DEF PushPower, Learning, Waiting, Pushed
<1>7. CASE TakeId /\ UNCHANGED sweep
  <2>1. Len(Waiting) <= InFlight + lag
    BY <1>7 DEF TakeId, Learning, Pushed
  <2>2. Waiting' = Waiting /\ lag' = lag /\ pc' = "push"
    BY <1>7 DEF TakeId, Waiting
  <2>3. \A k \in 1..Len(Waiting) : ~(k > InFlight + Lag)
    BY <1>0, <2>1 DEF Radio
  <2> QED
    BY <2>1, <2>2, <2>3 DEF Learning, Pushed
<1>8. ASSUME NEW accepted \in BOOLEAN, Push(accepted), UNCHANGED sweep
      PROVE  Learning'
  BY <1>8 DEF Push, Learning, Waiting, Pushed, Fresh, LastId
<1>9. CASE SendFrame /\ UNCHANGED sweep
  <2>1. /\ flight' = Append(flight, Measurement) /\ UNCHANGED <<buffer, received>>
        /\ UNCHANGED <<pc, tx_id, applied, update>> /\ state = 1
    BY <1>9 DEF SendFrame
  <2>2. Measurement \in Measurements /\ Measurement.id = applied.id
    BY DEF Measurement, Measurements, TypeOK, Settings
  <2>3. /\ flight' \in Seq(Measurements) /\ Len(flight') = Len(flight) + 1
        /\ \A k \in 1..Len(flight) : flight'[k] = flight[k]
        /\ flight'[Len(flight')] = Measurement
    BY <1>0, <2>1, <2>2, AppendProperties
  <2>4. Parts(Waiting', buffer, received, flight')
    BY <1>0, <2>1, <2>3, Concat3 DEF Waiting
  <2>5. Len(Waiting') = Len(Waiting) + 1
    BY <1>0, <2>3, <2>4, LenProperties DEF Parts
  <2>6. LastId' = LastId
    BY <2>1 DEF LastId
  <2>7. ASSUME ~Pushed \/ applied.id # LastId
        PROVE  Len(Waiting') <= InFlight + lag'
    <3>1. lag' = lag + 1
      BY <1>9, <2>7 DEF SendFrame, Radio, Pushed
    <3> QED
      BY <1>0, <2>1, <2>5, <2>7, <3>1 DEF Learning
  <2>8. ASSUME Pushed, NEW k \in 1..Len(Waiting'), k > InFlight + Lag
        PROVE  Waiting'[k].id = LastId
    <3>1. CASE applied.id # LastId
      <4>1. lag' <= Lag /\ lag' \in Nat
        BY <1>9, <1>0 DEF SendFrame, Radio
      <4>2. Len(Waiting') <= InFlight + lag'
        BY <2>7, <3>1
      <4>3. Len(Waiting') \in Nat /\ k \in Nat /\ k <= Len(Waiting')
        BY <1>0, <2>5
      <4>4. ~(k > InFlight + Lag)
        BY <4>1, <4>2, <4>3
      <4> QED
        BY <2>8, <4>4
    <3>2. CASE applied.id = LastId
      <4>1. \A j \in 1..Len(Waiting) : Waiting'[j] = Waiting[j]
        <5> SUFFICES ASSUME NEW j \in 1..Len(Waiting)
                     PROVE  Waiting'[j] = Waiting[j]
          OBVIOUS
        <5>1. CASE j \in 1..Len(buffer)
          BY <1>0, <2>4, <5>1 DEF Parts
        <5>2. ASSUME NEW n \in 1..Len(received), j = Len(buffer) + n
              PROVE  Waiting'[j] = Waiting[j]
          BY <1>0, <2>4, <5>2 DEF Parts
        <5>3. ASSUME NEW n \in 1..Len(flight),
                     j = Len(buffer) + Len(received) + n
              PROVE  Waiting'[j] = Waiting[j]
          <6>1. n \in 1..Len(flight')
            BY <2>3, <1>0, LenProperties
          <6> QED
            BY <1>0, <2>3, <2>4, <5>3, <6>1 DEF Parts
        <5> QED
          BY <1>0, <5>1, <5>2, <5>3 DEF Parts
      <4>2. Waiting'[Len(Waiting')] = Measurement
        <5>1. Len(flight') \in 1..Len(flight')
          BY <1>0, <2>3, LenProperties
        <5> QED
          BY <2>3, <2>4, <5>1 DEF Parts
      <4>3. k \in 1..Len(Waiting) \/ k = Len(Waiting')
        BY <1>0, <2>5
      <4>4. CASE k = Len(Waiting')
        BY <2>2, <3>2, <4>2, <4>4
      <4>5. CASE k \in 1..Len(Waiting)
        BY <2>1, <2>8, <4>1, <4>5 DEF Learning, Fresh
      <4> QED
        BY <4>3, <4>4, <4>5
    <3> QED
      BY <3>1, <3>2
  <2> QED
    BY <2>1, <2>6, <2>7, <2>8 DEF Learning, Pushed, Fresh
<1>10. CASE TakeUpdate /\ UNCHANGED sweep
  <2>1. update # {} /\ UNCHANGED <<tx_id, pc, lag, buffer, received, flight>>
        /\ state = 1 /\ applied' \in update
    BY <1>10 DEF TakeUpdate
  <2>2. LastId' = LastId /\ Pushed /\ Pushed' /\ Waiting' = Waiting
    BY <2>1 DEF LastId, Radio, Pushed, Waiting
  <2>3. applied'.id = LastId
    BY <2>1 DEF Radio
  <2> QED
    BY <2>1, <2>2, <2>3 DEF Learning, Fresh
<1>11. CASE LookUp /\ UNCHANGED sweep
  BY <1>11 DEF LookUp, Learning, Waiting, Pushed, Fresh, LastId
<1>12. CASE AppendReceived /\ UNCHANGED sweep
  <2>1. UNCHANGED <<tx_id, pc, lag, applied>> /\ state = 1
    BY <1>12 DEF AppendReceived
  <2>2. LastId' = LastId /\ (Pushed' <=> Pushed)
    BY <2>1 DEF LastId, Pushed
  <2>3. /\ Len(Waiting') <= Len(Waiting)
        /\ \A k \in 1..Len(Waiting') :
             Waiting'[k] = Waiting[k] \/ (k + 1 \in 1..Len(Waiting)
                                         /\ Waiting'[k] = Waiting[k + 1])
    BY <1>12, Arrival
  <2>4. Len(Waiting') \in Nat
    <3>1. flight' \in Seq(Measurements) /\ received' \in Seq(Measurements)
      BY <1>12, BaseTypeOK DEF Base, TypeOK
    <3> QED
      BY <1>0, <1>12, <3>1, ConcatProperties, LenProperties DEF Waiting
  <2>5. ~Pushed' \/ applied'.id # LastId' => Len(Waiting') <= InFlight + lag'
    BY <1>0, <2>1, <2>2, <2>3, <2>4 DEF Learning
  <2>6. ASSUME Pushed, NEW k \in 1..Len(Waiting'), k > InFlight + Lag
        PROVE  Waiting'[k].id = LastId
    <3>1. k \in 1..Len(Waiting)
      BY <1>0, <2>3, <2>4
    <3>2. \A j \in 1..Len(Waiting) : j > InFlight + Lag => Waiting[j].id = LastId
      BY <2>1, <2>6 DEF Learning, Fresh
    <3>3. CASE Waiting'[k] = Waiting[k]
      BY <2>6, <3>1, <3>2, <3>3
    <3>4. CASE k + 1 \in 1..Len(Waiting) /\ Waiting'[k] = Waiting[k + 1]
      <4>1. k + 1 > InFlight + Lag
        BY <2>4, <2>6
      <4> QED
        BY <3>2, <3>4, <4>1
    <3> QED
      BY <2>3, <3>3, <3>4
  <2> QED
    BY <2>2, <2>5, <2>6 DEF Learning, Fresh
<1> QED
  BY <1>1, <1>2, <1>3, <1>4, <1>5, <1>6, <1>7, <1>8, <1>9, <1>10, <1>11, <1>12
     DEF Next, Work, Base
-----------------------------------------------------------------------------
(* Between updates.                                                        *)

AllFresh ==
  /\ \A k \in 1..Len(received) : Fresh(received[k])
  /\ \A k \in 1..Len(flight) : Fresh(flight[k])

(* A measurement arrives: what received and flight are afterwards.         *)
LEMMA ArrivalElements ==
  ASSUME TypeOK, Radio, AppendReceived, UNCHANGED sweep
  PROVE  /\ received' \in Seq(Measurements) /\ flight' \in Seq(Measurements)
         /\ Len(flight) >= 1 /\ Len(flight') = Len(flight) - 1
         /\ \A k \in 1..Len(flight') :
              k + 1 \in 1..Len(flight) /\ flight'[k] = flight[k + 1]
         /\ \A k \in 1..Len(received') :
              \/ k \in 1..Len(received) /\ received'[k] = received[k]
              \/ received'[k] = flight[1]
<1>1. /\ flight # << >> /\ flight' = Tail(flight)
      /\ received' = received \/ received' = Append(received, flight[1])
  BY Arrival DEF sweep, buffers
<1>2. flight \in Seq(Measurements) /\ received \in Seq(Measurements)
  BY DEF TypeOK
<1>3. /\ Len(flight) \in Nat \ {0} /\ Len(received) \in Nat
      /\ flight[1] \in Measurements
      /\ flight' \in Seq(Measurements) /\ Len(flight') = Len(flight) - 1
      /\ \A k \in 1..Len(flight') : flight'[k] = flight[k + 1]
  BY <1>1, <1>2
<1>4. \A k \in 1..Len(flight') : k + 1 \in 1..Len(flight)
  BY <1>3
<1>5. /\ received' \in Seq(Measurements)
      /\ \A k \in 1..Len(received') :
           \/ k \in 1..Len(received) /\ received'[k] = received[k]
           \/ received'[k] = flight[1]
  <2>1. CASE received' = received
    BY <1>2, <2>1
  <2>2. CASE received' = Append(received, flight[1])
    BY <1>2, <1>3, <2>2, AppendProperties
  <2> QED
    BY <1>1, <2>1, <2>2
<1> QED
  BY <1>3, <1>4, <1>5

(* A frame is sent.                                                        *)
LEMMA SentElements ==
  ASSUME TypeOK, SendFrame
  PROVE  /\ Measurement \in Measurements
         /\ flight' \in Seq(Measurements) /\ Len(flight') = Len(flight) + 1
         /\ \A k \in 1..Len(flight) : flight'[k] = flight[k]
         /\ flight'[Len(flight) + 1] = Measurement
         /\ \A k \in 1..Len(flight') : k \in 1..Len(flight) \/ k = Len(flight) + 1
<1>1. Measurement \in Measurements
  BY DEF Measurement, Measurements, TypeOK, Settings
<1>2. flight \in Seq(Measurements) /\ flight' = Append(flight, Measurement)
  BY DEF TypeOK, SendFrame
<1>3. /\ flight' \in Seq(Measurements) /\ Len(flight') = Len(flight) + 1
      /\ \A k \in 1..Len(flight) : flight'[k] = flight[k]
      /\ flight'[Len(flight) + 1] = Measurement
  BY <1>1, <1>2, AppendProperties
<1>4. \A k \in 1..Len(flight') : k \in 1..Len(flight) \/ k = Len(flight) + 1
  BY <1>2, <1>3
<1> QED
  BY <1>1, <1>3, <1>4

(* Without an update nothing stale comes in.                               *)
LEMMA FreshStep ==
  ASSUME TypeOK, Radio, pc # "push", update = {}, AllFresh,
         PushPower \/ SendFrame \/ LookUp \/ AppendReceived, UNCHANGED sweep
  PROVE  AllFresh' /\ update' = {} /\ UNCHANGED <<tx_id, mod_map, tx_amplitude>>
<1>1. UNCHANGED <<tx_id, mod_map, tx_amplitude>> /\ update' = {}
  BY DEF PushPower, SendFrame, LookUp, AppendReceived, settings, consumer, radio
<1>2. LastId' = LastId
  BY <1>1 DEF LastId
<1>3. CASE PushPower \/ LookUp
  <2>1. received' = received /\ flight' = flight
    BY <1>3 DEF PushPower, LookUp, consumer, radio
  <2> QED
    BY <1>1, <1>2, <2>1 DEF AllFresh, Fresh
<1>4. CASE SendFrame
  <2>1. Measurement.id = LastId
    BY DEF Measurement, Radio
  <2>2. received' = received
    BY <1>4 DEF SendFrame, consumer
  <2>3. ASSUME NEW k \in 1..Len(flight') PROVE flight'[k].id = LastId
    BY <1>4, <2>1, <2>3, SentElements DEF AllFresh, Fresh
  <2> QED
    BY <1>1, <1>2, <2>2, <2>3 DEF AllFresh, Fresh
<1>5. CASE AppendReceived
  <2>1. 1 \in 1..Len(flight)
    BY <1>5, ArrivalElements DEF TypeOK
  <2>2. ASSUME NEW k \in 1..Len(flight') PROVE flight'[k].id = LastId
    BY <1>5, <2>2, ArrivalElements DEF AllFresh, Fresh
  <2>3. ASSUME NEW k \in 1..Len(received') PROVE received'[k].id = LastId
    BY <1>5, <2>1, <2>3, ArrivalElements DEF AllFresh, Fresh
  <2> QED
    BY <1>1, <1>2, <2>2, <2>3 DEF AllFresh, Fresh
<1> QED
  BY <1>1, <1>3, <1>4, <1>5

(* What a measurement that carries the expected id says.                   *)
LEMMA MatchingFacts ==
  ASSUME TypeOK
  PROVE  /\ Cardinality(Matching) \in Nat
         /\ Cardinality(Matching) > 0 => Matching # {}
         /\ expected_rx_id = max_tx_id => Matching = {}
<1>1. IsFiniteSet(1..Len(received))
  BY FS_Interval DEF TypeOK
<1>2. IsFiniteSet(Matching)
  BY <1>1, FS_Subset DEF Matching
<1>3. Cardinality(Matching) \in Nat
  BY <1>2, FS_CardinalityType
<1>4. Cardinality({}) = 0
  BY FS_EmptySet
<1>5. ASSUME NEW k \in 1..Len(received) PROVE received[k].id \in Ids
  <2>1. received \in Seq(Measurements)
    BY DEF TypeOK
  <2>2. received[k] \in Measurements
    BY <2>1, ElementOfSeq
  <2> QED
    BY <2>2 DEF Measurements
<1>6. expected_rx_id = max_tx_id => Matching = {}
  BY <1>5 DEF Matching, Expected, Ids
<1> QED
  BY <1>3, <1>4, <1>6
-----------------------------------------------------------------------------
(* The sweep's states.                                                     *)

LEMMA SweepingStep == TypeOK /\ Radio /\ Sweeping /\ [Next]_vars => Sweeping'
<1> SUFFICES ASSUME TypeOK, Radio, Sweeping, [Next]_vars PROVE Sweeping'
  OBVIOUS
<1> USE DEF settings, consumer, radio, sweep, point, buffers, vars
<1>1. CASE UNCHANGED vars
  BY <1>1 DEF Sweeping
<1>2. CASE Wait \/ CollectIds \/ MeasurePoint
  <2>1. /\ pc = "wait" /\ update = {} /\ pc' = pc /\ update' = update
        /\ UNCHANGED <<mod_map, tx_amplitude, amplifier, power_failed, curmod,
                       curtxpowind>>
        /\ state' = 3 => state = 3
    BY <1>2 DEF Wait, CollectIds, MeasurePoint, InState, BeginRound, StayInRound
  <2> QED
    BY <2>1 DEF Sweeping
<1>3. CASE SetUpLink
  BY <1>3 DEF SetUpLink, Sweeping
<1>4. CASE FirstPoint \/ GoToNextPoint
  <2>1. /\ state' = 3 /\ pc' = "power"
        /\ mod_map' = curmod' /\ tx_amplitude' = curtxpowind'
    BY <1>4 DEF FirstPoint, GoToNextPoint, SetPoint
  <2> QED
    BY <2>1 DEF Sweeping
<1>5. CASE PushPower /\ UNCHANGED sweep
  BY <1>5 DEF PushPower, Sweeping
<1>6. CASE TakeId /\ UNCHANGED sweep
  BY <1>6 DEF TakeId, Sweeping
<1>7. ASSUME NEW accepted \in BOOLEAN, Push(accepted), UNCHANGED sweep
      PROVE  Sweeping'
  BY <1>7 DEF Push, Sweeping
<1>8. CASE (SendFrame \/ LookUp \/ AppendReceived) /\ UNCHANGED sweep
  <2>1. UNCHANGED <<pc, update, mod_map, tx_amplitude, amplifier, power_failed>>
    BY <1>8 DEF SendFrame, LookUp, AppendReceived
  <2> QED
    BY <1>8, <2>1 DEF Sweeping
<1>9. CASE TakeUpdate /\ UNCHANGED sweep
  BY <1>9 DEF TakeUpdate, Sweeping
<1> QED
  BY <1>1, <1>2, <1>3, <1>4, <1>5, <1>6, <1>7, <1>8, <1>9 DEF Next, Work, Base

(* A round that finds the next state, or waits.                            *)
LEMMA RoundFacts ==
  ASSUME TypeOK, Radio, Work
  PROVE  /\ pc = "wait" /\ update = {} /\ update' = {} /\ received' = << >>
         /\ UNCHANGED <<tx_id, flight, applied, amplifier, power_failed>>
         /\ LastId' = LastId /\ applied.id = LastId /\ Len(received') = 0
         /\ Len(flight) \in Nat /\ Len(received) \in Nat
<1>1. /\ pc = "wait" /\ update = {} /\ received' = << >>
      /\ UNCHANGED <<tx_id, update, flight, applied, amplifier, power_failed>>
  BY DEF Work, Wait, SetUpLink, CollectIds, FirstPoint, MeasurePoint,
     GoToNextPoint, SetPoint, InState, BeginRound, TakeReceived, StayInRound,
     settings
<1>2. Len(flight) \in Nat /\ Len(received) \in Nat /\ Len(<< >>) = 0
  BY DEF TypeOK
<1> QED
  BY <1>1, <1>2 DEF LastId, Radio

LEMMA LearnedStep ==
  TypeOK /\ Radio /\ Sweeping /\ Learning /\ Learned /\ [Next]_vars => Learned'
<1> SUFFICES ASSUME TypeOK, Radio, Sweeping, Learning, Learned, [Next]_vars,
                    state' = 2
             PROVE  Learned'
  BY DEF Learned
<1>1. CASE UNCHANGED vars
  BY <1>1 DEF vars, settings, consumer, radio, sweep, Learned, Quiet, Fresh, LastId
<1>2. CASE Wait
  <2>1. UNCHANGED <<pc, state, current_rx_id>>
    BY <1>2 DEF Wait, sweep, settings
  <2> QED
    BY <1>2, <2>1, RoundFacts DEF Work, Learned, Quiet, Fresh
<1>3. CASE CollectIds
  <2>1. /\ state = 1 /\ Len(buffer') >= Collect /\ pc' = pc
        /\ current_rx_id' = buffer'[Len(buffer')].id
        /\ buffer' = buffer \o received
    BY <1>3 DEF CollectIds, InState
  <2>2. /\ flight \in Seq(Measurements) /\ received \in Seq(Measurements)
        /\ buffer \in Seq(Measurements)
    BY DEF TypeOK
  <2>3. Parts(Waiting, buffer, received, flight)
    BY <2>2, Concat3 DEF Waiting
  <2>4. /\ Len(buffer) \in Nat /\ Len(received) \in Nat /\ Len(flight) \in Nat
        /\ Len(Waiting) = Len(buffer) + Len(received) + Len(flight)
    BY <2>2, <2>3 DEF Parts
  <2>5. \A k \in 1..Len(Waiting) : k > InFlight + Lag => Waiting[k].id = LastId
    BY <1>3, <2>1, RoundFacts DEF Work, Learning, Pushed, Fresh
  <2>6. /\ Len(buffer') = Len(buffer) + Len(received)
        /\ \A k \in 1..Len(buffer') :
             buffer'[k] = IF k <= Len(buffer) THEN buffer[k]
                          ELSE received[k - Len(buffer)]
    BY <2>1, <2>2, ConcatProperties
  <2>7. Waiting[Len(buffer')] = buffer'[Len(buffer')]
    <3>1. CASE Len(received) = 0
      <4>1. Len(buffer') \in 1..Len(buffer)
        BY <2>1, <2>4, <2>6, <3>1
      <4> QED
        BY <2>3, <2>6, <4>1 DEF Parts
    <3>2. CASE Len(received) > 0
      <4>1. Len(received) \in 1..Len(received) /\ Len(buffer') \in 1..Len(buffer')
        BY <2>4, <2>6, <3>2
      <4>2. Len(buffer') > Len(buffer) /\ Len(buffer') - Len(buffer) = Len(received)
        BY <2>4, <2>6, <3>2
      <4>3. buffer'[Len(buffer')] = received[Len(received)]
        BY <2>4, <2>6, <4>1, <4>2
      <4> QED
        BY <2>3, <2>6, <4>1, <4>3 DEF Parts
    <3> QED
      BY <2>4, <3>1, <3>2
  <2>8. Len(buffer') \in 1..Len(Waiting) /\ Len(buffer') > InFlight + Lag
    BY <2>1, <2>4, <2>6
  <2>9. current_rx_id' = LastId
    BY <2>1, <2>5, <2>7, <2>8
  <2>10. ASSUME NEW k \in 1..Len(flight) PROVE flight[k].id = LastId
    <3>1. /\ Len(buffer) + Len(received) + k \in 1..Len(Waiting)
          /\ Len(buffer) + Len(received) + k > InFlight + Lag
      BY <2>1, <2>4, <2>6
    <3> QED
      BY <2>3, <2>5, <3>1 DEF Parts
  <2> QED
    BY <1>3, <2>1, <2>9, <2>10, RoundFacts DEF Work, Learned, Quiet, Fresh
<1>4. CASE SetUpLink \/ FirstPoint \/ MeasurePoint \/ GoToNextPoint
  BY <1>4 DEF SetUpLink, FirstPoint, MeasurePoint, GoToNextPoint, InState
<1>5. CASE Base /\ UNCHANGED sweep
  <2>1. state = 2 /\ Quiet /\ current_rx_id = LastId /\ UNCHANGED current_rx_id
    BY <1>5 DEF Learned, sweep
  <2>2. /\ PushPower \/ SendFrame \/ LookUp \/ AppendReceived
        /\ pc' = "wait"
    BY <1>5, <2>1 DEF Base, TakeId, Push, TakeUpdate, Quiet, PushPower, SendFrame,
       LookUp, AppendReceived
  <2>3. AllFresh' /\ update' = {} /\ UNCHANGED tx_id
    BY <1>5, <2>1, <2>2, FreshStep DEF Quiet, AllFresh
  <2> QED
    BY <2>1, <2>2, <2>3 DEF Learned, Quiet, AllFresh, LastId
<1> QED
  BY <1>1, <1>2, <1>3, <1>4, <1>5 DEF Next, Work
(* A round that has something for its point has seen the last update.      *)
LEMMA Collected ==
  ASSUME TypeOK, Radio, Measuring, MeasurePoint, BufferLen > 0
  PROVE  /\ expected_rx_id = LastId
         /\ \A k \in 1..Len(flight) : flight[k].id = LastId
<1>1. state = 3 /\ Pushed
  BY DEF MeasurePoint, InState, BeginRound, Pushed
<1>2. buffer_len \in Nat
  BY DEF TypeOK
<1>3. CASE buffer_len > 0
  BY <1>1, <1>3 DEF Measuring, Fresh
<1>4. CASE buffer_len = 0
  <2>1. Matching # {}
    BY <1>2, <1>4, MatchingFacts DEF BufferLen
  <2>2. expected_rx_id = LastId
    BY <1>1, <2>1, MatchingFacts DEF Measuring
  <2>3. \E k \in 1..Len(received) : Fresh(received[k])
    BY <2>1, <2>2 DEF Matching, Expected, Fresh
  <2> QED
    BY <1>1, <2>2, <2>3 DEF Measuring, Fresh
<1> QED
  BY <1>2, <1>3, <1>4

LEMMA BetweenStep ==
  TypeOK /\ Radio /\ Sweeping /\ Measuring /\ Between /\ [Next]_vars => Between'
<1> SUFFICES ASSUME TypeOK, Radio, Sweeping, Measuring, Between, [Next]_vars,
                    state' = 4
             PROVE  Between'
  BY DEF Between
<1>1. CASE UNCHANGED vars
  BY <1>1 DEF vars, settings, consumer, radio, sweep, Between, Quiet, Fresh, LastId
<1>2. CASE Wait
  <2>1. UNCHANGED <<pc, state, expected_rx_id>>
    BY <1>2 DEF Wait, sweep, settings
  <2> QED
    BY <1>2, <2>1, RoundFacts DEF Work, Between, Quiet, Fresh
<1>3. CASE MeasurePoint
  <2>1. BufferLen > 0
    <3>1. BufferLen > PointLen
      BY <1>3 DEF MeasurePoint, InState
    <3>2. BufferLen \in Nat
      BY MatchingFacts DEF BufferLen, TypeOK
    <3> QED
      BY <3>1, <3>2
  <2>2. UNCHANGED <<pc, expected_rx_id>>
    BY <1>3 DEF MeasurePoint
  <2> QED
    BY <1>3, <2>1, <2>2, Collected, RoundFacts DEF Work, Between, Quiet, Fresh
<1>4. CASE SetUpLink \/ CollectIds \/ FirstPoint \/ GoToNextPoint
  BY <1>4 DEF SetUpLink, CollectIds, FirstPoint, GoToNextPoint, InState
<1>5. CASE Base /\ UNCHANGED sweep
  <2>1. state = 4 /\ Quiet /\ expected_rx_id = LastId /\ UNCHANGED expected_rx_id
    BY <1>5 DEF Between, sweep
  <2>2. /\ PushPower \/ SendFrame \/ LookUp \/ AppendReceived
        /\ pc' = "wait"
    BY <1>5, <2>1 DEF Base, TakeId, Push, TakeUpdate, Quiet, PushPower, SendFrame,
       LookUp, AppendReceived
  <2>3. AllFresh' /\ update' = {} /\ UNCHANGED tx_id
    BY <1>5, <2>1, <2>2, FreshStep DEF Quiet, AllFresh
  <2> QED
    BY <2>1, <2>2, <2>3 DEF Between, Quiet, AllFresh, LastId
<1> QED
  BY <1>1, <1>2, <1>3, <1>4, <1>5 DEF Next, Work

LEMMA AnnouncingStep ==
  /\ TypeOK /\ Radio /\ Learned /\ Between /\ Announcing /\ [Next]_vars
  => Announcing'
<1> SUFFICES ASSUME TypeOK, Radio, Learned, Between, Announcing, [Next]_vars,
                    state' = 3, ~Pushed'
             PROVE  Announcing'
  BY DEF Announcing
<1>1. CASE UNCHANGED vars
  BY <1>1 DEF vars, settings, consumer, radio, sweep, buffers, Announcing, Pushed,
     Fresh, LastId
<1>2. CASE FirstPoint \/ GoToNextPoint
  <2>1. Quiet /\ buffer_len' = 0 /\ buffer_seen' = {}
    BY <1>2 DEF FirstPoint, GoToNextPoint, InState, SetPoint, ClearBuffer, Learned,
       Between
  <2>2. expected_rx_id' \in {NextId(LastId), max_tx_id}
    <3>1. CASE FirstPoint
      BY <3>1 DEF FirstPoint, InState, Learned
    <3>2. CASE GoToNextPoint
      <4>1. expected_rx_id' = LastId + 1
        BY <3>2 DEF GoToNextPoint, InState, Between
      <4>2. LastId \in Ids
        BY LastIdType DEF TypeOK
      <4> QED
        BY <4>1, <4>2, IdFacts DEF Ids
    <3> QED
      BY <1>2, <3>1, <3>2
  <2> QED
    BY <1>2, <2>1, <2>2, RoundFacts DEF Work, Quiet, Announcing, Fresh, NextId
<1>3. CASE Wait \/ SetUpLink \/ CollectIds \/ MeasurePoint
  <2>1. pc' = "wait" \/ state' = 1
    BY <1>3, RoundFacts DEF Work, Wait, SetUpLink, CollectIds, MeasurePoint, settings
  <2> QED
    BY <2>1 DEF Pushed
<1>4. CASE Base /\ UNCHANGED sweep
  <2>1. /\ ~Pushed /\ pc # "push" /\ state = 3
        /\ PushPower \/ SendFrame \/ LookUp \/ AppendReceived
    BY <1>4 DEF Base, TakeId, Push, TakeUpdate, PushPower, SendFrame, LookUp,
       AppendReceived, Pushed, sweep, Radio
  <2>2. AllFresh /\ update = {}
    BY <2>1 DEF Announcing, AllFresh, Radio
  <2>3. AllFresh' /\ UNCHANGED tx_id
    BY <1>4, <2>1, <2>2, FreshStep
  <2>4. UNCHANGED <<expected_rx_id, buffer_len, buffer_seen>>
    BY <1>4 DEF sweep, buffers
  <2> QED
    BY <2>1, <2>3, <2>4 DEF Announcing, AllFresh, LastId, NextId
<1> QED
  BY <1>1, <1>2, <1>3, <1>4 DEF Next, Work
LEMMA MeasuringStep ==
  /\ TypeOK /\ Radio /\ Sweeping /\ Announcing /\ Measuring /\ [Next]_vars
  => Measuring'
<1> SUFFICES ASSUME TypeOK, Radio, Sweeping, Announcing, Measuring, [Next]_vars,
                    state' = 3, Pushed'
             PROVE  Measuring'
  BY DEF Measuring
<1>0. /\ flight \in Seq(Measurements) /\ received \in Seq(Measurements)
      /\ Len(flight) \in Nat /\ Len(received) \in Nat /\ buffer_len \in Nat
      /\ LastId \in Ids
  BY LastIdType DEF TypeOK
<1>1. CASE UNCHANGED vars
  BY <1>1 DEF vars, settings, consumer, radio, sweep, point, buffers, Measuring,
     Pushed, Fresh, Right, LastId
<1>2. CASE Wait
  <2>1. /\ state = 3 /\ Pushed
        /\ UNCHANGED <<pc, state, buffer_len, buffer_seen, curmod, curtxpowind,
                       expected_rx_id>>
    BY <1>2 DEF Wait, sweep, settings, point, buffers, BeginRound, Pushed
  <2> HIDE DEF Wait
  <2> QED
    BY <1>0, <1>2, <2>1, RoundFacts DEF Work, Measuring, Fresh, Right
<1>3. CASE MeasurePoint
  <2>1. /\ state = 3 /\ Pushed /\ buffer_len' = BufferLen
        /\ buffer_seen' = buffer_seen \cup {received[k] : k \in Matching}
        /\ UNCHANGED <<curmod, curtxpowind, expected_rx_id>>
    BY <1>3 DEF MeasurePoint, InState, BeginRound, Pushed, point
  <2>2. ASSUME NEW k \in Matching PROVE Right(received[k])
    <3>1. expected_rx_id = LastId /\ k \in 1..Len(received) /\ Fresh(received[k])
      BY <2>1, <2>2, MatchingFacts DEF Matching, Expected, Fresh, Measuring
    <3> QED
      BY <2>1, <3>1 DEF Measuring
  <2>3. \A m \in buffer_seen' : Right(m)
    BY <2>1, <2>2 DEF Measuring
  <2>4. \A m : Right(m)' <=> m.mod = curmod /\ (~power_failed => m.power = curtxpowind)
    BY <1>3, <2>1, RoundFacts DEF Work, Right
  <2>5. \A m \in buffer_seen' : m.mod = curmod /\ (~power_failed => m.power = curtxpowind)
    BY <2>3 DEF Right
  <2>6. /\ LastId' = LastId /\ received' = << >> /\ flight' = flight
        /\ power_failed' = power_failed /\ Len(received') = 0
        /\ applied'.id = LastId
    BY <1>3, RoundFacts DEF Work
  <2>7. buffer_len' > 0 => /\ expected_rx_id = LastId
                           /\ \A k \in 1..Len(flight) : flight[k].id = LastId
    BY <1>3, <2>1, Collected
  <2>8. /\ \A k \in 1..Len(flight) : Fresh(flight[k]) => Right(flight[k])
        /\ \A j, k \in 1..Len(flight) :
             j < k /\ Fresh(flight[j]) => Fresh(flight[k])
        /\ expected_rx_id \in {LastId, max_tx_id}
    BY <2>1 DEF Measuring
  <2> QED
    BY <2>1, <2>5, <2>6, <2>7, <2>8 DEF Measuring, Fresh, Right
<1>4. CASE SetUpLink \/ CollectIds \/ FirstPoint \/ GoToNextPoint
  <2>1. state' # 3 \/ pc' = "power"
    BY <1>4 DEF SetUpLink, CollectIds, FirstPoint, GoToNextPoint, InState, SetPoint
  <2> QED
    BY <2>1 DEF Pushed
<1>5. CASE PushPower /\ UNCHANGED sweep
  BY <1>5 DEF PushPower, Pushed
<1>6. CASE TakeId /\ UNCHANGED sweep
  <2>1. /\ LastId' = tx_id /\ LastId' # LastId /\ NextId(LastId) = tx_id
    BY <1>6, LastIdType DEF TakeId, TypeOK, LastId
  <2>2. state = 3 /\ ~Pushed /\ update = {}
    BY <1>6 DEF TakeId, sweep, Pushed, Radio
  <2>3. applied.id = LastId
    BY <1>6, <2>2 DEF Radio, TakeId
  <2>4. UNCHANGED <<received, flight, applied, expected_rx_id, buffer_len, buffer_seen>>
    BY <1>6 DEF TakeId, sweep, buffers, consumer, radio
  <2> QED
    BY <2>1, <2>2, <2>3, <2>4, <1>0 DEF Announcing, Measuring, Fresh
<1>7. ASSUME NEW accepted \in BOOLEAN, Push(accepted), UNCHANGED sweep
      PROVE  Measuring'
  <2>1. /\ state = 3 /\ Pushed
        /\ UNCHANGED <<tx_id, received, flight, applied, power_failed, curmod,
                       curtxpowind, expected_rx_id, buffer_len, buffer_seen>>
    BY <1>7 DEF Push, sweep, point, buffers, settings, consumer, Pushed
  <2> QED
    BY <2>1 DEF Measuring, Fresh, Right, LastId
<1>8. CASE SendFrame /\ UNCHANGED sweep
  <2>1. /\ state = 3 /\ Pushed
        /\ UNCHANGED <<tx_id, received, applied, power_failed, curmod,
                       curtxpowind, expected_rx_id, buffer_len, buffer_seen>>
    BY <1>8 DEF SendFrame, sweep, point, buffers, settings, consumer, Pushed
  <2>2. LastId' = LastId
    BY <2>1 DEF LastId
  <2>3. \A m : /\ Right(m)' <=> Right(m)
               /\ Fresh(m)' <=> Fresh(m)
    BY <2>1, <2>2 DEF Right, Fresh
  <2>4. Fresh(Measurement) => Right(Measurement)
    <3>1. /\ Measurement.id = applied.id /\ Measurement.mod = applied.mod
          /\ Measurement.power = amplifier
      BY DEF Measurement
    <3>2. SUFFICES ASSUME applied.id = LastId PROVE Right(Measurement)
      BY <3>1 DEF Fresh
    <3>3. applied.mod = mod_map
      BY <2>1, <3>2, LastIdType DEF Radio, TypeOK
    <3> QED
      BY <2>1, <3>1, <3>3 DEF Right, Sweeping, Pushed
  <2>5. /\ \A k \in 1..Len(flight) : flight'[k] = flight[k]
        /\ Len(flight') = Len(flight) + 1
        /\ flight'[Len(flight) + 1] = Measurement
        /\ \A k \in 1..Len(flight') : k \in 1..Len(flight) \/ k = Len(flight) + 1
    BY <1>8, SentElements
  <2>6. ASSUME NEW k \in 1..Len(flight'), Fresh(flight'[k]) PROVE Right(flight'[k])
    <3>1. CASE k \in 1..Len(flight)
      BY <2>1, <2>5, <2>6, <3>1 DEF Measuring
    <3>2. CASE k = Len(flight) + 1
      BY <2>4, <2>5, <2>6, <3>2
    <3> QED
      BY <2>5, <3>1, <3>2
  <2>7. CASE applied.id # LastId
    <3>1. \A k \in 1..Len(flight') : ~Fresh(flight'[k])
      BY <2>1, <2>5, <2>7 DEF Measuring, Measurement, Fresh
    <3>2. /\ buffer_len = 0 /\ \A k \in 1..Len(received) : ~Fresh(received[k])
          /\ \A m \in buffer_seen : Right(m)
          /\ expected_rx_id \in {LastId, max_tx_id}
      BY <2>1, <2>7 DEF Measuring
    <3> QED
      BY <2>1, <2>2, <2>3, <3>1, <3>2 DEF Measuring
  <2>8. CASE applied.id = LastId
    <3>1. Fresh(flight'[Len(flight) + 1])
      BY <2>5, <2>8 DEF Measurement, Fresh
    <3>2. buffer_len > 0 \/ (\E k \in 1..Len(received) : Fresh(received[k])) =>
            \A k \in 1..Len(flight') : Fresh(flight'[k])
      <4> SUFFICES ASSUME buffer_len > 0 \/ (\E k \in 1..Len(received) : Fresh(received[k])),
                          NEW k \in 1..Len(flight')
                   PROVE  Fresh(flight'[k])
        OBVIOUS
      <4>1. \A j \in 1..Len(flight) : Fresh(flight[j])
        BY <2>1 DEF Measuring
      <4> QED
        BY <2>5, <3>1, <4>1
    <3>3. ASSUME NEW j \in 1..Len(flight'), NEW k \in 1..Len(flight'),
                 j < k, Fresh(flight'[j])
          PROVE  Fresh(flight'[k])
      <4>1. CASE k = Len(flight) + 1
        BY <3>1, <4>1
      <4>2. CASE k \in 1..Len(flight)
        <5>1. j \in 1..Len(flight)
          BY <1>0, <3>3, <4>2
        <5> QED
          BY <2>1, <2>5, <3>3, <4>2, <5>1 DEF Measuring
      <4> QED
        BY <2>5, <4>1, <4>2
    <3>4. /\ expected_rx_id \in {LastId, max_tx_id}
          /\ \A k \in 1..Len(received) : Fresh(received[k]) => Right(received[k])
          /\ \A m \in buffer_seen : Right(m)
          /\ buffer_len > 0 => /\ expected_rx_id = LastId
                               /\ \A k \in 1..Len(received) : Fresh(received[k])
      BY <2>1 DEF Measuring
    <3> QED
      BY <2>1, <2>2, <2>3, <2>6, <2>8, <3>2, <3>3, <3>4 DEF Measuring
  <2> QED
    BY <2>7, <2>8
<1>9. CASE TakeUpdate /\ UNCHANGED sweep
  <2>1. /\ state = 3 /\ Pushed
        /\ UNCHANGED <<tx_id, received, flight, power_failed, curmod,
                       curtxpowind, expected_rx_id, buffer_len, buffer_seen>>
    BY <1>9 DEF TakeUpdate, sweep, point, buffers, settings, consumer, Pushed
  <2>2. LastId' = LastId /\ applied'.id = LastId
    BY <1>9, <2>1 DEF LastId, TakeUpdate, Radio
  <2> QED
    BY <2>1, <2>2 DEF Measuring, Fresh, Right
<1>10. CASE LookUp /\ UNCHANGED sweep
  <2>1. /\ state = 3 /\ Pushed
        /\ UNCHANGED <<tx_id, received, flight, applied, power_failed, curmod,
                       curtxpowind, expected_rx_id, buffer_len, buffer_seen>>
    BY <1>10 DEF LookUp, sweep, point, buffers, settings, radio, Pushed
  <2> QED
    BY <2>1 DEF Measuring, Fresh, Right, LastId
<1>11. CASE AppendReceived /\ UNCHANGED sweep
  <2>1. /\ state = 3 /\ Pushed
        /\ UNCHANGED <<tx_id, applied, power_failed, curmod,
                       curtxpowind, expected_rx_id, buffer_len, buffer_seen>>
    BY <1>11 DEF AppendReceived, sweep, point, buffers, settings, Pushed
  <2>2. \A m : /\ Right(m)' <=> Right(m)
               /\ Fresh(m)' <=> Fresh(m)
    BY <2>1 DEF Right, Fresh, LastId
  <2>3. LastId' = LastId
    BY <2>1 DEF LastId
  <2>4. /\ 1 \in 1..Len(flight) /\ Len(flight') = Len(flight) - 1
        /\ \A k \in 1..Len(flight') :
             k + 1 \in 1..Len(flight) /\ flight'[k] = flight[k + 1]
        /\ \A k \in 1..Len(received') :
             \/ k \in 1..Len(received) /\ received'[k] = received[k]
             \/ received'[k] = flight[1]
    BY <1>0, <1>11, ArrivalElements
  <2>5. \A k \in 1..Len(flight) : Fresh(flight[k]) => Right(flight[k])
    BY <2>1 DEF Measuring
  <2>6. \A k \in 1..Len(flight') : Fresh(flight'[k]) => Right(flight'[k])
    BY <2>4, <2>5
  <2>7. \A k \in 1..Len(received') : Fresh(received'[k]) => Right(received'[k])
    BY <2>1, <2>4, <2>5 DEF Measuring
  <2>8. applied.id # LastId =>
          /\ \A k \in 1..Len(received') : ~Fresh(received'[k])
          /\ \A k \in 1..Len(flight') : ~Fresh(flight'[k])
    BY <2>1, <2>4 DEF Measuring
  <2>9. \A j, k \in 1..Len(flight') : j < k /\ Fresh(flight'[j]) => Fresh(flight'[k])
    <3> SUFFICES ASSUME NEW j \in 1..Len(flight'), NEW k \in 1..Len(flight'),
                        j < k, Fresh(flight'[j])
                 PROVE  Fresh(flight'[k])
      OBVIOUS
    <3>1. j + 1 < k + 1
      BY <1>0, <2>4
    <3>2. /\ j + 1 \in 1..Len(flight) /\ k + 1 \in 1..Len(flight)
          /\ flight'[j] = flight[j + 1] /\ flight'[k] = flight[k + 1]
      BY <2>4
    <3> QED
      BY <2>1, <3>1, <3>2 DEF Measuring
  <2>10. ASSUME Fresh(flight[1]), NEW k \in 1..Len(flight')
         PROVE  Fresh(flight'[k])
    <3>1. k + 1 \in 1..Len(flight) /\ 1 < k + 1 /\ flight'[k] = flight[k + 1]
      BY <1>0, <2>4
    <3> QED
      BY <2>1, <2>4, <2>10, <3>1 DEF Measuring
  <2>11. buffer_len > 0 \/ (\E k \in 1..Len(received') : Fresh(received'[k])) =>
           \A k \in 1..Len(flight') : Fresh(flight'[k])
    <3>1. CASE buffer_len > 0 \/ \E k \in 1..Len(received) : Fresh(received[k])
      <4>1. \A k \in 1..Len(flight) : Fresh(flight[k])
        BY <2>1, <3>1 DEF Measuring
      <4> QED
        BY <2>4, <4>1
    <3>2. CASE ~(buffer_len > 0 \/ \E k \in 1..Len(received) : Fresh(received[k]))
      <4>1. (\E k \in 1..Len(received') : Fresh(received'[k])) => Fresh(flight[1])
        BY <2>4, <3>2
      <4> QED
        BY <2>10, <3>2, <4>1
    <3> QED
      BY <3>1, <3>2
  <2>12. buffer_len > 0 =>
           /\ expected_rx_id = LastId
           /\ \A k \in 1..Len(received') : Fresh(received'[k])
    BY <2>1, <2>4 DEF Measuring
  <2>13. /\ expected_rx_id \in {LastId, max_tx_id}
         /\ \A m \in buffer_seen : Right(m)
         /\ applied.id # LastId => buffer_len = 0
    BY <2>1 DEF Measuring
  <2> QED
    BY <2>1, <2>2, <2>3, <2>6, <2>7, <2>8, <2>9, <2>11, <2>12, <2>13 DEF Measuring
<1> QED
  BY <1>1, <1>2, <1>3, <1>4, <1>5, <1>6, <1>7, <1>8, <1>9, <1>10, <1>11
     DEF Next, Work, Base
-----------------------------------------------------------------------------
(* Theorems.                                                               *)

LEMMA InitIndInv == Init => IndInv
<1> SUFFICES ASSUME Init PROVE IndInv
  OBVIOUS
<1>1. TypeOK
  BY InitTypeOK
<1>2. /\ applied = [id |-> 1, mod |-> InitMod] /\ mod_map = InitMod /\ pc = "wait"
      /\ update = {} /\ flight = << >> /\ lag = 0 /\ orb = "none" /\ state = 0
      /\ tx_id = NextId(1)
  BY DEF Init
<1>3. LastId = 1
  <2>1. 1 \in Ids /\ NextId(1) \in Ids
    BY IdFacts DEF Ids
  <2> QED
    BY SMTT(30), <1>2, <2>1, IdFacts DEF LastId, Ids
<1>4. Radio
  BY <1>2, <1>3 DEF Radio, Pushed
<1> QED
  BY <1>1, <1>2, <1>4 DEF IndInv, Learning, Learned, Between, Announcing,
     Measuring, Sweeping

LEMMA NextIndInv == IndInv /\ [Next]_vars => IndInv'
<1> SUFFICES ASSUME IndInv, [Next]_vars PROVE IndInv'
  OBVIOUS
<1>1. /\ TypeOK /\ Radio /\ Learning /\ Learned /\ Between /\ Announcing
      /\ Measuring /\ Sweeping
  BY DEF IndInv
<1>2. TypeOK'
  <2>1. CASE UNCHANGED vars
    BY <1>1, <2>1 DEF TypeOK, vars, settings, consumer, radio, sweep, point, buffers
  <2>2. CASE Work
    BY <1>1, <2>2, WorkTypeOK
  <2>3. CASE Base /\ UNCHANGED sweep
    BY <1>1, <2>3, BaseTypeOK
  <2> QED
    BY <2>1, <2>2, <2>3 DEF Next
<1>3. Radio' /\ Learning' /\ Learned'
  BY <1>1, RadioStep, LearningStep, LearnedStep
<1>4. Between' /\ Announcing' /\ Measuring' /\ Sweeping'
  BY <1>1, BetweenStep, AnnouncingStep, MeasuringStep, SweepingStep
<1> QED
  BY <1>2, <1>3, <1>4 DEF IndInv

LEMMA Invariance == Spec => []IndInv
BY InitIndInv, NextIndInv, PTL DEF Spec

(* Types, for every number of ids, modulations, powers and measurements:   *)
(* the point stays one of the sweep's (rm_ber_measurement.py).             *)
THEOREM SweepTypes == Spec => []TypeOK
<1>1. IndInv => TypeOK
  BY DEF IndInv
<1> QED
  BY <1>1, Invariance, PTL

(* The id that the sweep learns before its first point is the id of the    *)
(* last update, however many measurements of earlier updates were under    *)
(* way, as long as it collects more than those (state 1 of work()).        *)
THEOREM SweepLearnsId == Spec => []IdLearned
<1>1. IndInv => IdLearned
  BY DEF IndInv, Learned, IdLearned
<1> QED
  BY <1>1, Invariance, PTL

(* No point is computed from a measurement of another point's settings     *)
(* (states 2 to 4 of work(), push_data and the consumer).                  *)
THEOREM SweepMeasuresItsPoint == Spec => []MeasuredAsConfigured
<1>1. IndInv => MeasuredAsConfigured
  <2> SUFFICES ASSUME IndInv, state = 3 PROVE MeasuredAsConfigured
    BY DEF MeasuredAsConfigured
  <2>1. /\ TypeOK /\ Announcing /\ Measuring /\ Sweeping
    BY DEF IndInv
  <2>2. mod_map = curmod /\ tx_amplitude = curtxpowind
    BY <2>1 DEF Sweeping
  <2>3. \A m \in buffer_seen : Right(m)
    BY <2>1 DEF Announcing, Measuring
  <2>4. ASSUME NEW k \in Matching PROVE Right(received[k])
    <3>1. k \in 1..Len(received) /\ received[k].id = expected_rx_id
      BY DEF Matching, Expected
    <3>2. CASE Pushed
      <4>1. expected_rx_id = LastId
        BY <2>1, <2>4, <3>2, MatchingFacts DEF Measuring
      <4> QED
        BY <2>1, <3>1, <3>2, <4>1 DEF Measuring, Fresh
    <3>3. CASE ~Pushed
      <4>1. expected_rx_id = NextId(LastId)
        BY <2>1, <2>4, <3>3, MatchingFacts DEF Announcing
      <4>2. NextId(LastId) # LastId
        BY <2>1, LastIdType DEF TypeOK
      <4>3. received[k].id = LastId
        BY <2>1, <3>1, <3>3 DEF Announcing, Fresh
      <4> QED
        BY <3>1, <4>1, <4>2, <4>3
    <3> QED
      BY <3>2, <3>3
  <2> QED
    BY <2>2, <2>3, <2>4 DEF MeasuredAsConfigured, Right
<1> QED
  BY <1>1, Invariance, PTL
=============================================================================
