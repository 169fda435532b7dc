--------------------------- MODULE TimeSyncProofs ---------------------------
(***************************************************************************)
(* The time synchronisation for blocks and prefixes of any length, any     *)
(* number of averaged blocks and any bound: types, what tracking begins    *)
(* on, and how the blocks that are cut follow each other.                  *)
(***************************************************************************)
EXTENDS TimeSync, BasicLemmas

half == d_blocklen \div 2

(* A running call: how far it may look, and what the search knows.         *)
Running ==
  /\ pc # "idle" => room > 0
  /\ pc = "search" => /\ d_state = "ACQUISITION"
                      /\ nin = Len(metric) - d_hist + 1
                      /\ nin >= 1 /\ i <= nin
                      /\ peak.val = sc_metric(i + peak.ind)
  /\ pc = "track" => /\ d_state = "TRACKING"
                     /\ nin = Len(metric) - d_hist - d_blocklen + 2
                     /\ i < nin
  /\ pc = "idle" => i = 0

(* Where the next block ends, relative to the last one.                    *)
Positions ==
  /\ d_state = "ACQUISITION" => block = NoBlock
  /\ d_state = "TRACKING" =>
       /\ d_s1_gi_failures <= d_s1_max_failures
       /\ block.kind \in {"detected", "cut"}
       /\ block.kind = "cut" => i + d_index_decision = block.end + d_blocklen
       /\ block.kind = "detected" =>
            /\ i = 0
            /\ d_window_shift = 0
            /\ block.end = half
            /\ d_index_decision \in Nat
            /\ 2 * (d_index_decision - half) \in (-d_cplen)..d_cplen
            /\ d_shift + half + 1 <= Len(metric)
            /\ sc_metric(half) > d_sc_threshold

IndInv == TypeOK /\ Running /\ Positions

-----------------------------------------------------------------------------
(* Numbers.                                                                *)

LEMMA Lengths ==
  /\ d_vlen \in Nat /\ d_vlen > 1 /\ d_cplen \in Nat /\ d_cplen >= 1
  /\ d_cplen < d_vlen
  /\ d_blocklen \in Nat /\ d_blocklen = d_vlen + d_cplen
  /\ d_shift = d_blocklen
  /\ d_hist \in Nat /\ d_hist >= 2 * d_blocklen
  /\ d_hist >= d_blocklen + d_vlen + 2
  /\ half \in Nat /\ 2 * half <= d_blocklen /\ d_blocklen <= 2 * half + 1
<1>1. /\ d_vlen \in Nat /\ d_vlen > 1 /\ d_cplen \in Nat /\ d_cplen >= 1
      /\ d_cplen < d_vlen
      /\ d_blocklen \in Nat /\ d_blocklen = d_vlen + d_cplen
      /\ d_shift = d_blocklen
  BY SyncAssumption DEF d_blocklen, d_shift
<1>2. d_hist \in Nat /\ d_hist >= 2 * d_blocklen
      /\ d_hist >= d_blocklen + d_vlen + 2
  <2>1. CASE d_avg_blocks = 1
    <3>1. d_hist = 2 * d_blocklen /\ d_cplen > 1
      BY <2>1, <1>1, SyncAssumption DEF d_hist
    <3> QED
      BY <3>1, <1>1
  <2>2. CASE d_avg_blocks > 1
    <3>1. d_avg_blocks + 1 \in Nat /\ d_avg_blocks + 1 >= 3
      BY <2>2, SyncAssumption
    <3>2. (d_avg_blocks + 1) * d_blocklen \in Nat
          /\ (d_avg_blocks + 1) * d_blocklen >= 3 * d_blocklen
      BY <3>1, <1>1
    <3> QED
      BY <3>2, <1>1 DEF d_hist
  <2> QED
    BY <2>1, <2>2, SyncAssumption
<1>3. half \in Nat /\ 2 * half <= d_blocklen /\ d_blocklen <= 2 * half + 1
  BY <1>1, DivMod DEF half
<1> QED
  BY <1>1, <1>2, <1>3

LEMMA GreatestMetric ==
  ASSUME NEW S \in SUBSET Metric, S # {}
  PROVE  Max(S) \in S
<1>1. Metric = {0, 1, 2}
  BY DEF Metric
<1>2. \E x \in S : \A y \in S : x >= y
  <2>1. CASE 2 \in S
    BY <2>1, <1>1
  <2>2. CASE 2 \notin S /\ 1 \in S
    BY <2>2, <1>1
  <2>3. CASE 2 \notin S /\ 1 \notin S
    <3>1. \A x \in S : x = 0
      BY <2>3, <1>1
    <3>2. PICK x \in S : TRUE
      OBVIOUS
    <3>3. \A y \in S : x >= y
      BY <3>1
    <3> QED
      BY <3>3
  <2> QED
    BY <2>1, <2>2, <2>3
<1> QED
  BY <1>2 DEF Max

(* The peak of a window that is within the buffer is a sample of it.       *)
LEMMA BootstrapPeak ==
  ASSUME metric \in Seq(Metric),
         NEW k \in Nat, d_shift + k + d_vlen <= Len(metric)
  PROVE  /\ Bootstrap(k) \in [ind : 0..d_vlen, val : Metric]
         /\ Bootstrap(k).val = sc_metric(k + Bootstrap(k).ind)
<1> DEFINE window == 0..(d_vlen - 1)
           val    == Max({sc_metric(k + j) : j \in window})
           ind    == Min({j \in window : sc_metric(k + j) = val})
<1>1. Bootstrap(k) = [ind |-> ind, val |-> val]
  BY DEF Bootstrap
<1>2. \A j \in window : sc_metric(k + j) \in Metric
  BY Lengths DEF sc_metric
<1>3. val \in {sc_metric(k + j) : j \in window}
  <2>1. {sc_metric(k + j) : j \in window} \in SUBSET Metric
    BY <1>2
  <2>2. 0 \in window
    BY Lengths
  <2> QED
    BY <2>1, <2>2, GreatestMetric
<1>4. ind \in {j \in window : sc_metric(k + j) = val}
  <2>1. PICK j \in window : sc_metric(k + j) = val
    BY <1>3
  <2>2. {m \in window : sc_metric(k + m) = val} \in SUBSET Nat
    BY Lengths
  <2> HIDE DEF window, val
  <2> QED
    BY <2>1, <2>2, Least
<1> HIDE DEF val, ind
<1>5. val \in Metric /\ ind \in 0..d_vlen
  BY SMTT(30), <1>2, <1>3, <1>4, Lengths
<1> QED
  BY <1>1, <1>4, <1>5

(* What is left of the buffer when n samples are consumed.                 *)
LEMMA Rest ==
  ASSUME metric \in Seq(Metric), NEW n \in 0..Len(metric)
  PROVE  LET rest == SubSeq(metric, n + 1, Len(metric))
         IN  /\ rest \in Seq(Metric)
             /\ Len(rest) = Len(metric) - n
             /\ \A k \in 1..(Len(metric) - n) : rest[k] = metric[n + k]
  OBVIOUS
-----------------------------------------------------------------------------
(* The steps.                                                              *)

LEMMA InitInd == Init => IndInv
<1> SUFFICES ASSUME Init PROVE IndInv
  OBVIOUS
<1>1. metric \in Seq(Metric)
  BY Lengths DEF Init, Metric
<1>2. TypeOK
  BY <1>1, Lengths, SyncAssumption DEF Init, TypeOK, NoBlock, Metric
<1>3. Running
  BY DEF Init, Running
<1>4. Positions
  BY DEF Init, Positions
<1> QED
  BY <1>2, <1>3, <1>4 DEF IndInv

LEMMA FeedStep == ASSUME IndInv, NEW val \in Metric, Feed(val) PROVE IndInv'
<1>1. /\ pc = "idle" /\ metric' = Append(metric, val)
      /\ UNCHANGED <<d_state, decision, call, block>>
  BY DEF Feed
<1>2. metric \in Seq(Metric)
  BY DEF IndInv, TypeOK
<1>3. /\ metric' \in Seq(Metric) /\ Len(metric') = Len(metric) + 1
      /\ \A k \in 1..Len(metric) : metric'[k] = metric[k]
  BY <1>1, <1>2
<1>4. TypeOK'
  BY <1>1, <1>3 DEF IndInv, TypeOK, decision, call
<1>5. Running'
  BY <1>1 DEF IndInv, Running, call
<1>6. Positions'
  <2>1. d_shift + half + 1 <= Len(metric) =>
          /\ d_shift + half + 1 <= Len(metric')
          /\ metric'[d_shift + half + 1] = metric[d_shift + half + 1]
    BY <1>2, <1>3, Lengths
  <2> QED
    BY <1>1, <2>1 DEF IndInv, Positions, decision, call, sc_metric
<1> QED
  BY <1>4, <1>5, <1>6 DEF IndInv

LEMMA CallStep == ASSUME IndInv, NEW n \in 1..RoomMax, Call(n) PROVE IndInv'
<1>1. /\ pc = "idle" /\ Len(metric) >= Required
      /\ i' = 0 /\ room' = n /\ nin' = Len(metric) - Required + 1
      /\ UNCHANGED <<metric, d_state, decision, block>>
  BY DEF Call
<1>2. metric \in Seq(Metric) /\ Len(metric) \in Nat
  BY DEF IndInv, TypeOK
<1>3. \/ /\ d_state = "ACQUISITION" /\ pc' = "search" /\ peak' = Bootstrap(0)
         /\ Required = d_hist
      \/ /\ d_state = "TRACKING" /\ pc' = "track" /\ peak' = peak
         /\ Required = d_hist + d_blocklen - 1
  BY DEF Call, Required, IndInv, TypeOK
<1>4. CASE d_state = "ACQUISITION"
  <2>1. /\ peak' \in [ind : 0..d_vlen, val : Metric]
        /\ peak'.val = sc_metric(peak'.ind)
    <3>1. d_shift + 0 + d_vlen <= Len(metric)
      BY <1>1, <1>2, <1>3, <1>4, Lengths
    <3>2. /\ Bootstrap(0) \in [ind : 0..d_vlen, val : Metric]
          /\ Bootstrap(0).val = sc_metric(0 + Bootstrap(0).ind)
      BY <1>2, <3>1, BootstrapPeak
    <3> QED
      BY <1>3, <1>4, <3>2, Lengths
  <2>2. TypeOK'
    BY <1>1, <1>2, <1>3, <1>4, <2>1, Lengths DEF IndInv, TypeOK, decision
  <2>3. Running'
    BY <1>1, <1>2, <1>3, <1>4, <2>1, Lengths DEF Running, sc_metric
  <2>4. Positions'
    BY <1>1, <1>3, <1>4 DEF IndInv, Positions, Running, decision, sc_metric
  <2> QED
    BY <2>2, <2>3, <2>4 DEF IndInv
<1>5. CASE d_state = "TRACKING"
  <2>1. TypeOK'
    BY <1>1, <1>2, <1>3, <1>5, Lengths DEF IndInv, TypeOK, decision
  <2>2. Running'
    BY <1>1, <1>2, <1>3, <1>5, Lengths DEF IndInv, Running
  <2>3. Positions'
    BY <1>1, <1>3, <1>5 DEF IndInv, Positions, Running, decision, sc_metric
  <2> QED
    BY <2>1, <2>2, <2>3 DEF IndInv
<1> QED
  BY <1>4, <1>5 DEF IndInv, TypeOK

(* A return leaves the rest of the buffer to the next call.                *)
LEMMA ReturnStep ==
  ASSUME IndInv, NEW n \in 0..Len(metric), NEW last, Return(n, last),
         last \in [kind : {"none", "detected", "cut"}, end : Int, start : BOOLEAN]
  PROVE  /\ metric' \in Seq(Metric)
         /\ Len(metric') = Len(metric) - n
         /\ \A k \in 1..(Len(metric) - n) : metric'[k] = metric[n + k]
         /\ pc' = "idle" /\ i' = 0 /\ nin' = 0 /\ room' = 0
         /\ peak' \in [ind : 0..d_vlen, val : Metric]
         /\ block' \in [kind : {"none", "detected", "cut"}, end : Int, start : BOOLEAN]
         /\ block'.kind = last.kind
         /\ block'.start = last.start
         /\ last.kind # "none" => block'.end = last.end - n
         /\ last.kind = "none" => block' = last
<1>1. metric \in Seq(Metric) /\ Len(metric) \in Nat
  BY DEF IndInv, TypeOK
<1>2. metric' = SubSeq(metric, n + 1, Len(metric))
  BY DEF Return
<1>3. /\ metric' \in Seq(Metric)
      /\ Len(metric') = Len(metric) - n
      /\ \A k \in 1..(Len(metric) - n) : metric'[k] = metric[n + k]
  BY <1>1, <1>2, Rest
<1>4. block' = IF last.kind = "none" THEN last ELSE [last EXCEPT !.end = @ - n]
  BY DEF Return
<1>5. pc' = "idle" /\ i' = 0 /\ nin' = 0 /\ room' = 0
      /\ peak' \in [ind : 0..d_vlen, val : Metric]
  BY Lengths DEF Return, Metric
<1> QED
  BY <1>3, <1>4, <1>5

LEMMA SearchPeakStep ==
  ASSUME IndInv, NEW gi_ind \in 0..(d_vlen - 1),
         gi_ind - d_blocklen \div 2 \in (1 - d_cplen)..(d_cplen - 1),
         SearchPeak(gi_ind)
  PROVE  IndInv' /\ sc_metric(i + peak.ind) > d_sc_threshold
<1>1. /\ pc = "search" /\ i < nin /\ peak.ind = half
      /\ peak.val > d_sc_threshold
      /\ d_state' = "TRACKING" /\ d_window_shift' = 0 /\ d_s1_gi_failures' = 0
      /\ d_index_decision' = (half + gi_ind) \div 2
      /\ Return(i, Detected)
  BY DEF SearchPeak, EnterState1, half
<1>2. /\ metric \in Seq(Metric) /\ Len(metric) \in Nat /\ i \in Nat
      /\ nin = Len(metric) - d_hist + 1
      /\ peak.val = sc_metric(i + peak.ind)
  BY <1>1 DEF IndInv, TypeOK, Running
<1>3. i \in 0..Len(metric) /\ Len(metric) - i >= d_hist
  BY <1>1, <1>2, Lengths
<1>4. /\ Detected \in [kind : {"none", "detected", "cut"}, end : Int, start : BOOLEAN]
      /\ Detected.kind = "detected" /\ Detected.end = i + half
  BY <1>1, <1>2, Lengths DEF Detected
<1>5. /\ metric' \in Seq(Metric)
      /\ Len(metric') = Len(metric) - i
      /\ \A k \in 1..(Len(metric) - i) : metric'[k] = metric[i + k]
      /\ pc' = "idle" /\ i' = 0 /\ nin' = 0 /\ room' = 0
      /\ peak' \in [ind : 0..d_vlen, val : Metric]
      /\ block' \in [kind : {"none", "detected", "cut"}, end : Int, start : BOOLEAN]
      /\ block'.kind = "detected"
      /\ block'.end = half
  <2>1. /\ metric' \in Seq(Metric)
        /\ Len(metric') = Len(metric) - i
        /\ \A k \in 1..(Len(metric) - i) : metric'[k] = metric[i + k]
        /\ pc' = "idle" /\ i' = 0 /\ nin' = 0 /\ room' = 0
        /\ peak' \in [ind : 0..d_vlen, val : Metric]
        /\ block' \in [kind : {"none", "detected", "cut"}, end : Int, start : BOOLEAN]
        /\ block'.kind = Detected.kind
        /\ block'.end = Detected.end - i
    BY <1>1, <1>3, <1>4, ReturnStep
  <2>2. Detected.end - i = half
    BY <1>2, <1>4, Lengths
  <2> QED
    BY <1>4, <2>1, <2>2
<1>6. sc_metric(i + half) > d_sc_threshold
  BY <1>1, <1>2
<1>7. d_shift + half + 1 <= Len(metric')
      /\ metric'[d_shift + half + 1] > d_sc_threshold
  <2>1. d_shift + half + 1 \in 1..(Len(metric) - i)
    BY <1>2, <1>3, Lengths
  <2>2. metric'[d_shift + half + 1] = metric[i + (d_shift + half + 1)]
    BY <1>5, <2>1
  <2>3. i + (d_shift + half + 1) = d_shift + (i + half) + 1
    BY <1>2, Lengths
  <2> QED
    BY <1>2, <1>5, <1>6, <2>1, <2>2, <2>3 DEF sc_metric
<1>8. /\ d_index_decision' \in Nat
      /\ 2 * (d_index_decision' - half) \in (-d_cplen)..d_cplen
  <2>1. gi_ind - half \in (1 - d_cplen)..(d_cplen - 1)
    BY DEF half
  <2>2. /\ half + gi_ind = 2 * ((half + gi_ind) \div 2) + ((half + gi_ind) % 2)
        /\ (half + gi_ind) % 2 \in 0..1
        /\ (half + gi_ind) \div 2 \in Nat
    BY Lengths, DivMod
  <2> QED
    BY <1>1, <2>1, <2>2, Lengths
<1>9. TypeOK'
  BY <1>1, <1>5, <1>8, SyncAssumption DEF IndInv, TypeOK
<1>10. Running' /\ Positions'
  BY <1>1, <1>5, <1>7, <1>8, SyncAssumption DEF Running, Positions, sc_metric
<1> QED
  BY <1>1, <1>6, <1>9, <1>10 DEF IndInv

LEMMA SearchOnStep == ASSUME IndInv, SearchOn PROVE IndInv'
<1>1. /\ pc = "search" /\ i < nin /\ peak' = ShiftWindow /\ i' = i + 1
      /\ UNCHANGED <<metric, d_state, decision, pc, nin, room, block>>
  BY DEF SearchOn
<1>2. /\ metric \in Seq(Metric) /\ Len(metric) \in Nat /\ i \in Nat
      /\ d_state = "ACQUISITION"
      /\ nin = Len(metric) - d_hist + 1
      /\ peak.val = sc_metric(i + peak.ind)
      /\ peak \in [ind : 0..d_vlen, val : Metric]
  BY <1>1 DEF IndInv, TypeOK, Running
<1>3. d_shift + (i + 1) + d_vlen + 1 <= Len(metric)
  BY <1>1, <1>2, Lengths
<1>4. /\ peak' \in [ind : 0..d_vlen, val : Metric]
      /\ peak'.val = sc_metric((i + 1) + peak'.ind)
  <2>1. CASE sc_metric(i + d_vlen + 1) > peak.val
    <3>1. peak' = [ind |-> d_vlen, val |-> sc_metric(i + d_vlen + 1)]
      BY <1>1, <2>1 DEF ShiftWindow
    <3>2. sc_metric(i + d_vlen + 1) \in Metric
      BY <1>2, <1>3, Lengths DEF sc_metric
    <3>3. i + d_vlen + 1 = (i + 1) + d_vlen
      BY <1>2, Lengths
    <3> QED
      BY <3>1, <3>2, <3>3, Lengths
  <2>2. CASE ~(sc_metric(i + d_vlen + 1) > peak.val) /\ peak.ind = 0
    <3>1. peak' = Bootstrap(i + 1)
      BY <1>1, <2>2 DEF ShiftWindow
    <3>2. i + 1 \in Nat /\ d_shift + (i + 1) + d_vlen <= Len(metric)
      BY <1>2, <1>3, Lengths
    <3> QED
      BY <1>2, <3>1, <3>2, BootstrapPeak
  <2>3. CASE ~(sc_metric(i + d_vlen + 1) > peak.val) /\ peak.ind # 0
    <3>1. peak' = [peak EXCEPT !.ind = @ - 1]
      BY <1>1, <2>3 DEF ShiftWindow
    <3>2. peak'.ind = peak.ind - 1 /\ peak'.val = peak.val
      BY <1>2, <3>1
    <3>3. (i + 1) + (peak.ind - 1) = i + peak.ind
      BY <1>2, Lengths
    <3>4. peak.ind - 1 \in 0..d_vlen
      BY <1>2, <2>3, Lengths
    <3> QED
      BY <1>2, <3>1, <3>2, <3>3, <3>4
  <2> QED
    BY <2>1, <2>2, <2>3
<1>5. TypeOK'
  BY <1>1, <1>2, <1>4 DEF IndInv, TypeOK, decision
<1>6. Running'
  BY <1>1, <1>2, <1>4, Lengths DEF IndInv, TypeOK, Running, sc_metric
<1>7. Positions'
  BY <1>1, <1>2 DEF IndInv, Positions, decision
<1> QED
  BY <1>5, <1>6, <1>7 DEF IndInv

LEMMA SearchReturnStep == ASSUME IndInv, SearchReturn PROVE IndInv'
<1>1. /\ pc = "search" /\ i >= nin /\ Return(i, block)
      /\ UNCHANGED <<d_state, decision>>
  BY DEF SearchReturn
<1>2. /\ metric \in Seq(Metric) /\ Len(metric) \in Nat /\ i \in Nat
      /\ d_state = "ACQUISITION" /\ i <= nin
      /\ nin = Len(metric) - d_hist + 1
      /\ block = NoBlock
      /\ block \in [kind : {"none", "detected", "cut"}, end : Int, start : BOOLEAN]
  BY <1>1 DEF IndInv, TypeOK, Running, Positions
<1>3. i \in 0..Len(metric)
  BY <1>2, Lengths
<1>4. /\ metric' \in Seq(Metric)
      /\ pc' = "idle" /\ i' = 0 /\ nin' = 0 /\ room' = 0
      /\ peak' \in [ind : 0..d_vlen, val : Metric]
      /\ block' = NoBlock
  BY <1>1, <1>2, <1>3, ReturnStep DEF NoBlock
<1>5. TypeOK'
  BY <1>1, <1>2, <1>4, SyncAssumption DEF IndInv, TypeOK, decision
<1> QED
  BY <1>1, <1>2, <1>4, <1>5 DEF IndInv, Running, Positions

(* The drift is counted within one step of a sample, and moves the cut by  *)
(* one sample at most; right after the search it cannot move it.           *)
LEMMA Drift ==
  ASSUME TypeOK, NEW drift \in -1..1
  PROVE  /\ Moved(drift) \in -1..1
         /\ (IF Moved(drift) # 0 THEN 0 ELSE WindowShift(drift))
              \in (1 - ShiftSteps)..(ShiftSteps - 1)
         /\ d_window_shift = 0 => Moved(drift) = 0
<1>1. /\ ShiftSteps \in Nat /\ ShiftSteps > 1
      /\ d_window_shift \in (1 - ShiftSteps)..(ShiftSteps - 1)
  BY SyncAssumption DEF TypeOK
<1>2. /\ WindowShift(drift) \in (-ShiftSteps)..ShiftSteps
      /\ d_window_shift = 0 => WindowShift(drift) \in -1..1
  BY <1>1 DEF WindowShift
<1>3. CASE WindowShift(drift) = ShiftSteps
  <2>1. ShiftSteps \div ShiftSteps = 1
    BY <1>1
  <2> QED
    BY <1>1, <1>2, <1>3, <2>1 DEF Moved
<1>4. CASE WindowShift(drift) = -ShiftSteps
  <2>1. (-ShiftSteps) \div ShiftSteps = -1
    BY <1>1
  <2> QED
    BY <1>1, <1>2, <1>4, <2>1 DEF Moved
<1>5. CASE WindowShift(drift) \notin {-ShiftSteps, ShiftSteps}
  BY <1>1, <1>2, <1>5 DEF Moved
<1> QED
  BY <1>3, <1>4, <1>5

LEMMA TrackLostStep ==
  ASSUME IndInv, NEW drift \in -1..1, TrackLost(drift) PROVE IndInv'
<1>1. /\ pc = "track" /\ i < nin
      /\ d_state' = "ACQUISITION"
      /\ d_s1_gi_failures' = d_s1_gi_failures + 1
      /\ d_index_decision' = d_index_decision + Moved(drift)
      /\ d_window_shift' = IF Moved(drift) # 0 THEN 0 ELSE WindowShift(drift)
      /\ Return(i, NoBlock)
  BY DEF TrackLost, Failures
<1>2. /\ metric \in Seq(Metric) /\ Len(metric) \in Nat /\ i \in Nat
      /\ nin = Len(metric) - d_hist - d_blocklen + 2
      /\ d_s1_gi_failures \in 0..d_s1_max_failures
      /\ d_index_decision \in Int
  BY <1>1, SyncAssumption DEF IndInv, TypeOK, Running, Positions
<1>3. i \in 0..Len(metric)
  BY <1>1, <1>2, Lengths
<1>4. /\ metric' \in Seq(Metric)
      /\ pc' = "idle" /\ i' = 0 /\ nin' = 0 /\ room' = 0
      /\ peak' \in [ind : 0..d_vlen, val : Metric]
      /\ block' = NoBlock
  <2>1. NoBlock \in [kind : {"none", "detected", "cut"}, end : Int, start : BOOLEAN]
        /\ NoBlock.kind = "none"
    BY DEF NoBlock
  <2> QED
    BY <1>1, <1>3, <2>1, ReturnStep
<1>5. TypeOK'
  <2>1. d_index_decision' \in Int
        /\ d_window_shift' \in (1 - ShiftSteps)..(ShiftSteps - 1)
    BY SMTT(30), <1>1, <1>2, Drift DEF IndInv
  <2>2. d_s1_gi_failures' \in 0..(d_s1_max_failures + 1)
    BY <1>1, <1>2, SyncAssumption
  <2> QED
    BY <1>1, <1>4, <2>1, <2>2, SyncAssumption DEF TypeOK, NoBlock
<1> QED
  BY <1>1, <1>4, <1>5 DEF IndInv, Running, Positions

(* Recentring moves the window and the index in it against each other, and *)
(* looks no further than the samples that are there.                       *)
LEMMA Recentring ==
  ASSUME NEW k \in Nat, NEW ind \in Int, nin \in Int
  PROVE  /\ Recentred(k, ind).i \in (k - 1)..(k + 1)
         /\ Recentred(k, ind).index \in Int
         /\ Recentred(k, ind).i + Recentred(k, ind).index = k + ind
         /\ Recentred(k, ind).i > k => nin > k + 1
<1>1. d_vlen \div 2 \in Int
  BY Lengths, DivMod
<1>2. CASE ind > d_vlen \div 2 /\ nin - k > 1
  BY <1>1, <1>2 DEF Recentred
<1>3. CASE ~(ind > d_vlen \div 2 /\ nin - k > 1) /\ ind < d_vlen \div 2
  BY <1>1, <1>3 DEF Recentred
<1>4. CASE ~(ind > d_vlen \div 2 /\ nin - k > 1) /\ ~(ind < d_vlen \div 2)
  BY <1>1, <1>4 DEF Recentred
<1> QED
  BY <1>2, <1>3, <1>4

Cuts == [kind : {"none", "detected", "cut"}, end : Int, start : BOOLEAN]

(* A block is cut: where it ends, and what the index says of the next one. *)
LEMMA TrackBlockStep ==
  ASSUME IndInv, NEW drift \in -1..1, NEW low \in BOOLEAN, TrackBlock(drift, low)
  PROVE  /\ IndInv'
         /\ Advance = i + d_index_decision + Moved(drift) - block.end
         /\ block'.start = (sc_metric(i + d_index_decision) > d_sc_threshold)
<1> DEFINE index == d_index_decision + Moved(drift)
           start == sc_metric(i + d_index_decision) > d_sc_threshold
<1>1. /\ pc = "track" /\ i < nin /\ d_state = "TRACKING" /\ d_state' = d_state
      /\ metric \in Seq(Metric) /\ Len(metric) \in Nat /\ i \in Nat
      /\ nin = Len(metric) - d_hist - d_blocklen + 2
      /\ d_index_decision \in Int /\ room \in 1..RoomMax
      /\ block.end \in Int
      /\ d_s1_gi_failures \in 0..d_s1_max_failures
      /\ RoomMax \in Nat
      /\ peak \in [ind : 0..d_vlen, val : Metric]
  BY SyncAssumption DEF IndInv, TypeOK, Running, Positions, TrackBlock
<1>2. /\ d_s1_gi_failures' \in 0..d_s1_max_failures
      /\ d_window_shift' = IF Moved(drift) # 0 THEN 0 ELSE WindowShift(drift)
  BY <1>1, SyncAssumption DEF TrackBlock, Failures
<1>3. /\ Moved(drift) \in -1..1
      /\ d_window_shift' \in (1 - ShiftSteps)..(ShiftSteps - 1)
  BY <1>2, Drift DEF IndInv
<1>4. index \in Int /\ index = d_index_decision + Moved(drift)
  BY <1>1, <1>3
<1>5. \E n \in 0..Len(metric) : \E ix \in Int : \E cut \in Cuts :
        /\ n + ix = i + index + d_blocklen
        /\ cut.kind = "cut" /\ cut.end = i + index /\ cut.start = start
        /\ d_index_decision' = ix
        /\ IF room = 1 \/ n >= nin
           THEN Return(n, cut)
           ELSE /\ i' = n
                /\ room' = room - 1
                /\ block' = cut
                /\ UNCHANGED <<metric, pc, nin, peak>>
  <2> DEFINE cut == [kind |-> "cut", end |-> i + index, start |-> start]
  <2>1. cut \in Cuts
    BY <1>1, <1>4 DEF Cuts
  <2>2. i + d_blocklen \in Nat /\ i + d_blocklen >= 1
        /\ i + d_blocklen + 1 <= Len(metric)
        /\ nin \in Int /\ nin <= Len(metric)
    BY <1>1, Lengths
  <2>3. CASE room = 1
    <3>1. d_index_decision' = index /\ Return(i + d_blocklen, cut)
      BY <2>3 DEF TrackBlock
    <3>2. i + d_blocklen \in 0..Len(metric)
          /\ (i + d_blocklen) + index = i + index + d_blocklen
      BY SMTT(30), <1>1, <1>4, <2>2, Lengths
    <3> HIDE DEF index
    <3> QED
      BY <1>4, <2>1, <2>3, <3>1, <3>2
  <2>4. CASE room # 1
    <3> DEFINE next == Recentred(i + d_blocklen, index)
    <3> HIDE DEF index
    <3>1. /\ d_index_decision' = next.index
          /\ IF room = 1 \/ next.i >= nin
             THEN Return(next.i, cut)
             ELSE /\ i' = next.i
                  /\ room' = room - 1
                  /\ block' = cut
                  /\ UNCHANGED <<metric, pc, nin, peak>>
      BY <2>4 DEF TrackBlock, index
    <3>2. /\ next.i \in (i + d_blocklen - 1)..(i + d_blocklen + 1)
          /\ next.index \in Int
          /\ next.i + next.index = i + d_blocklen + index
      <4>1. PICK k \in Nat : k = i + d_blocklen
        BY <2>2
      <4>2. index \in Int /\ nin \in Int
        BY <1>4, <2>2
      <4>3. /\ Recentred(k, index).i \in (k - 1)..(k + 1)
            /\ Recentred(k, index).index \in Int
            /\ Recentred(k, index).i + Recentred(k, index).index = k + index
        BY <4>2, Recentring
      <4> QED
        BY <1>1, <4>1, <4>2, <4>3, Lengths
    <3> HIDE DEF next
    <3>3. PICK n \in Int, ix \in Int : n = next.i /\ ix = next.index
      BY SMTT(30), <1>1, <3>2, Lengths
    <3>4. n \in 0..Len(metric) /\ n + ix = i + index + d_blocklen
      <4>1. n \in (i + d_blocklen - 1)..(i + d_blocklen + 1)
            /\ n + ix = i + d_blocklen + index
        BY <3>2, <3>3
      <4>2. i \in Int /\ d_blocklen \in Int /\ index \in Int /\ Len(metric) \in Int
        BY <1>1, <1>4, Lengths
      <4>3. i + d_blocklen - 1 >= 0 /\ i + d_blocklen + 1 <= Len(metric)
        BY <2>2, <4>2
      <4>4. n \in 0..Len(metric)
        BY <4>1, <4>2, <4>3
      <4>5. i + d_blocklen + index = i + index + d_blocklen
        BY <4>2
      <4> QED
        BY <4>1, <4>4, <4>5
    <3>5. PICK c \in Cuts : c = cut
      BY <2>1
    <3>6. cut.kind = "cut" /\ cut.end = i + index /\ cut.start = start
      OBVIOUS
    <3> HIDE DEF cut, start
    <3> QED
      BY <3>1, <3>3, <3>4, <3>5, <3>6
  <2> QED
    BY <2>3, <2>4
<1>6. /\ i + d_index_decision + Moved(drift) - block.end = i + index - block.end
      /\ (sc_metric(i + d_index_decision) > d_sc_threshold) = start
  <2>1. i + d_index_decision + Moved(drift) - block.end = i + index - block.end
    <3>1. PICK m \in Int : m = Moved(drift)
      BY <1>3
    <3>2. PICK e \in Int : e = block.end
      BY <1>1
    <3>3. i + d_index_decision + m - e = i + (d_index_decision + m) - e
      BY <1>1
    <3> QED
      BY <3>1, <3>2, <3>3
  <2>2. (sc_metric(i + d_index_decision) > d_sc_threshold) = start
    OBVIOUS
  <2> QED
    BY <2>1, <2>2
<1> HIDE DEF index, start
<1>7. PICK n \in 0..Len(metric), ix \in Int, cut \in Cuts :
        /\ n + ix = i + index + d_blocklen
        /\ cut.kind = "cut" /\ cut.end = i + index /\ cut.start = start
        /\ d_index_decision' = ix
        /\ IF room = 1 \/ n >= nin
           THEN Return(n, cut)
           ELSE /\ i' = n
                /\ room' = room - 1
                /\ block' = cut
                /\ UNCHANGED <<metric, pc, nin, peak>>
  BY <1>5
<1>8. CASE room = 1 \/ n >= nin
  <2>1. Return(n, cut)
    BY <1>7, <1>8
  <2>2. /\ metric' \in Seq(Metric)
        /\ Len(metric') = Len(metric) - n
        /\ pc' = "idle" /\ i' = 0 /\ nin' = 0 /\ room' = 0
        /\ peak' \in [ind : 0..d_vlen, val : Metric]
        /\ block' \in [kind : {"none", "detected", "cut"}, end : Int, start : BOOLEAN]
        /\ block'.kind = "cut" /\ block'.start = start
        /\ block'.end = i + index - n
    <3>1. cut \in [kind : {"none", "detected", "cut"}, end : Int, start : BOOLEAN]
          /\ cut.kind # "none"
      BY <1>7 DEF Cuts
    <3>2. /\ metric' \in Seq(Metric)
          /\ Len(metric') = Len(metric) - n
          /\ pc' = "idle" /\ i' = 0 /\ nin' = 0 /\ room' = 0
          /\ peak' \in [ind : 0..d_vlen, val : Metric]
          /\ block' \in [kind : {"none", "detected", "cut"}, end : Int, start : BOOLEAN]
          /\ block'.kind = cut.kind /\ block'.start = cut.start
          /\ block'.end = cut.end - n
      BY <2>1, <3>1, ReturnStep
    <3> QED
      BY <1>1, <1>4, <1>7, <3>2
  <2>3. TypeOK'
    BY <1>1, <1>2, <1>3, <1>7, <2>2, SyncAssumption DEF TypeOK
  <2>4. i' + d_index_decision' = block'.end + d_blocklen
    <3>1. i' = 0 /\ block'.end = i + index - n /\ d_index_decision' = ix
          /\ n + ix = i + index + d_blocklen
      BY <1>7, <2>2
    <3>2. i \in Int /\ index \in Int /\ n \in Int /\ ix \in Int /\ d_blocklen \in Int
      BY <1>1, <1>4, Lengths
    <3> QED
      BY <3>1, <3>2
  <2>5. Running' /\ Positions'
    BY <1>1, <1>2, <2>2, <2>4 DEF Running, Positions
  <2>6. Advance = i + index - block.end
    <3>1. Len(metric) - Len(metric') = n
      BY <1>1, <1>7, <2>2
    <3>2. Advance = (i + index - n) + n - block.end
      BY <2>2, <3>1 DEF Advance
    <3> QED
      BY SMTT(30), <1>1, <1>4, <3>2
  <2> QED
    BY <1>6, <2>2, <2>3, <2>5, <2>6 DEF IndInv
<1>9. CASE ~(room = 1 \/ n >= nin)
  <2>1. /\ i' = n /\ room' = room - 1 /\ block' = cut
        /\ UNCHANGED <<metric, pc, nin, peak>>
    BY <1>7, <1>9
  <2>2. TypeOK'
    BY <1>1, <1>2, <1>3, <1>7, <1>9, <2>1, SyncAssumption DEF TypeOK, Cuts
  <2>3. Running'
    BY <1>1, <1>7, <1>9, <2>1 DEF Running
  <2>4. Positions'
    <3>1. i' + d_index_decision' = block'.end + d_blocklen
      BY <1>1, <1>4, <1>7, <2>1, Lengths
    <3>2. block'.kind = "cut" /\ d_state' = "TRACKING"
      BY <1>1, <1>7, <2>1
    <3> QED
      BY <1>2, <3>1, <3>2 DEF Positions
  <2>5. Advance = i + index - block.end
    BY SMTT(30), <1>1, <1>4, <1>7, <2>1 DEF Advance
  <2> QED
    BY <1>6, <1>7, <2>1, <2>2, <2>3, <2>4, <2>5 DEF IndInv
<1> QED
  BY <1>8, <1>9

LEMMA IndStep == IndInv /\ [Next]_vars => IndInv'
<1> SUFFICES ASSUME IndInv, [Next]_vars PROVE IndInv'
  OBVIOUS
<1>1. CASE UNCHANGED vars
  <2>1. TypeOK'
    BY <1>1 DEF IndInv, TypeOK, vars, decision, call
  <2>2. Running' /\ Positions'
    BY <1>1 DEF IndInv, Running, Positions, vars, decision, call, sc_metric
  <2> QED
    BY <2>1, <2>2 DEF IndInv
<1>2. CASE Next
  BY <1>2, FeedStep, CallStep, SearchPeakStep, SearchOnStep, SearchReturnStep,
     TrackLostStep, TrackBlockStep DEF Next, GeneralWork, Search, Track
<1> QED
  BY <1>1, <1>2

LEMMA Invariance == Spec => []IndInv
  BY InitInd, IndStep, PTL DEF Spec

-----------------------------------------------------------------------------
(* The results.                                                            *)

(* Every variable keeps its type: no call looks outside its buffer.        *)
THEOREM SyncTypes == Spec => []TypeOK
<1>1. IndInv => TypeOK
  BY DEF IndInv
<1> QED
  BY <1>1, Invariance, PTL

(* Only a block that is cut in tracking makes CutsBlock true.              *)
LEMMA CutsAreTracked ==
  ASSUME IndInv, [Next]_vars, CutsBlock, ~UNCHANGED vars
  PROVE  \E drift \in -1..1 : \E low \in BOOLEAN : TrackBlock(drift, low)
<1>1. pc = "track" /\ d_state' = "TRACKING"
  BY DEF CutsBlock
<1>2. \/ \E val \in Metric : Feed(val)
      \/ \E n \in 1..RoomMax : Call(n)
      \/ Search
      \/ Track
  BY DEF Next, GeneralWork
<1>3. ~\E val \in Metric : Feed(val)
  BY <1>1 DEF Feed
<1>4. ~\E n \in 1..RoomMax : Call(n)
  BY <1>1 DEF Call
<1>5. ~Search
  BY <1>1 DEF Search, SearchPeak, SearchOn, SearchReturn
<1>6. ~\E drift \in -1..1 : TrackLost(drift)
  BY <1>1 DEF TrackLost
<1> QED
  BY <1>2, <1>3, <1>4, <1>5, <1>6 DEF Track

(* In tracking each block ends a block length after the last, or one       *)
(* sample beside that: for blocks of every length, wherever calls end and  *)
(* however the window is recentred in them.                                *)
THEOREM Adjoin == Spec => BlocksAdjoin
<1>1. IndInv /\ [Next]_vars =>
        [ CutsBlock /\ block.kind = "cut"
          => Advance \in (d_blocklen - 1)..(d_blocklen + 1) ]_vars
  <2> SUFFICES ASSUME IndInv, [Next]_vars, CutsBlock, block.kind = "cut",
                      ~UNCHANGED vars
               PROVE  Advance \in (d_blocklen - 1)..(d_blocklen + 1)
    OBVIOUS
  <2>1. PICK drift \in -1..1 : \E low \in BOOLEAN : TrackBlock(drift, low)
    BY CutsAreTracked
  <2>2. PICK low \in BOOLEAN : TrackBlock(drift, low)
    BY <2>1
  <2>3. Advance = i + d_index_decision + Moved(drift) - block.end
    BY <2>2, TrackBlockStep
  <2>4. /\ i + d_index_decision = block.end + d_blocklen
        /\ i \in Int /\ d_index_decision \in Int /\ block.end \in Int
        /\ Moved(drift) \in -1..1
    <3>1. pc = "track"
      BY <2>2 DEF TrackBlock
    <3>2. Moved(drift) \in -1..1
      BY Drift DEF IndInv
    <3> QED
      BY <3>1, <3>2 DEF IndInv, TypeOK, Running, Positions
  <2> QED
    BY <2>3, <2>4, Lengths
<1> QED
  BY <1>1, Invariance, PTL DEF Spec, BlocksAdjoin

(* The search enters tracking on a sample above the threshold, whichever   *)
(* way the running peak was carried along.                                 *)
THEOREM EntersRight == Spec => EntersOnPreamble
<1>1. IndInv /\ [Next]_vars =>
        [ d_state = "ACQUISITION" /\ d_state' = "TRACKING"
          => sc_metric(i + peak.ind) > d_sc_threshold ]_vars
  <2> SUFFICES ASSUME IndInv, Next, d_state = "ACQUISITION", d_state' = "TRACKING"
               PROVE  sc_metric(i + peak.ind) > d_sc_threshold
    OBVIOUS
  <2>1. CASE \E val \in Metric : Feed(val)
    BY <2>1 DEF Feed
  <2>2. CASE \E n \in 1..RoomMax : Call(n)
    BY <2>2 DEF Call
  <2>3. CASE Search
    <3>1. PICK gi_ind \in 0..(d_vlen - 1) :
            /\ gi_ind - d_blocklen \div 2 \in (1 - d_cplen)..(d_cplen - 1)
            /\ SearchPeak(gi_ind)
      BY <2>3 DEF Search, SearchOn, SearchReturn
    <3> QED
      BY <3>1, SearchPeakStep
  <2>4. CASE Track
    BY <2>4 DEF Track, TrackLost, TrackBlock
  <2> QED
    BY <2>1, <2>2, <2>3, <2>4 DEF Next, GeneralWork
<1> QED
  BY <1>1, Invariance, PTL DEF Spec, EntersOnPreamble

(* The first block cut is the preamble that was found, half a prefix       *)
(* beside the peak at most, however many calls and samples lie between     *)
(* the search and the cut.                                                 *)
THEOREM FirstCut == Spec => FirstBlockIsPreamble
<1>1. IndInv /\ [Next]_vars =>
        [ CutsBlock /\ block.kind = "detected"
          => /\ 2 * Advance \in (-d_cplen)..d_cplen
             /\ Advance = 0 => block'.start ]_vars
  <2> SUFFICES ASSUME IndInv, [Next]_vars, CutsBlock, block.kind = "detected",
                      ~UNCHANGED vars
               PROVE  /\ 2 * Advance \in (-d_cplen)..d_cplen
                      /\ Advance = 0 => block'.start
    OBVIOUS
  <2>1. PICK drift \in -1..1 : \E low \in BOOLEAN : TrackBlock(drift, low)
    BY CutsAreTracked
  <2>2. PICK low \in BOOLEAN : TrackBlock(drift, low)
    BY <2>1
  <2>3. /\ Advance = i + d_index_decision + Moved(drift) - block.end
        /\ block'.start = (sc_metric(i + d_index_decision) > d_sc_threshold)
    BY <2>2, TrackBlockStep
  <2>4. /\ i = 0 /\ d_window_shift = 0 /\ block.end = half
        /\ d_index_decision \in Nat
        /\ 2 * (d_index_decision - half) \in (-d_cplen)..d_cplen
        /\ sc_metric(half) > d_sc_threshold
    BY <2>2 DEF IndInv, Running, Positions, TrackBlock
  <2>5. Moved(drift) = 0
    BY <2>4, Drift DEF IndInv
  <2>6. Advance = d_index_decision - half
    BY <2>3, <2>4, <2>5, Lengths
  <2>7. Advance = 0 => i + d_index_decision = half
    BY <2>4, <2>6, Lengths
  <2> QED
    BY <2>3, <2>4, <2>6, <2>7
<1> QED
  BY <1>1, Invariance, PTL DEF Spec, FirstBlockIsPreamble
=============================================================================
