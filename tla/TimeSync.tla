------------------------------ MODULE TimeSync ------------------------------
(***************************************************************************)
(* The receiver's time synchronisation (lib/time_sync_impl.cc).  It        *)
(* searches a preamble in the Schmidl & Cox metric, sample by sample       *)
(* (ACQUISITION), and from there on cuts the stream into OFDM blocks,      *)
(* corrects the cut by a sample when the cyclic prefix drifts, and returns *)
(* to the search when the prefix is lost (TRACKING).  A call of            *)
(* general_work gets any number of samples, looks ahead of what it         *)
(* consumes, and keeps its place in an index relative to the first sample  *)
(* that is not consumed.                                                   *)
(*                                                                         *)
(* A sample's metric is nothing, noise, or a preamble's.  What the metric  *)
(* of the cyclic prefix says is a choice at every turn.                    *)
(* Positions are relative to the first sample that is not consumed.        *)
(***************************************************************************)
EXTENDS Integers, Sequences, SequencesExt

CONSTANTS
  d_vlen,             \* samples of an OFDM block without cyclic prefix
  d_cplen,            \* samples of the cyclic prefix
  d_avg_blocks,       \* blocks that the prefix's metric is averaged over
  d_s1_max_failures,
  ShiftSteps,         \* 1 / d_i_gain_shift: turns of drift that move the cut
  PeakMax,            \* bound: samples in the buffer with a metric above 0
  BufferMax,          \* bound: samples in the buffer
  IndexMax,           \* bound: how far drift takes the index, either way
  RoomMax             \* bound: output blocks of one call

ASSUME SyncAssumption ==
  /\ d_vlen \in Nat \ {0}
  /\ d_cplen \in 1..(d_vlen - 1)
  /\ d_avg_blocks \in Nat \ {0}
  /\ d_avg_blocks = 1 => d_cplen > 1
  /\ d_s1_max_failures \in Nat \ {0}
  /\ ShiftSteps \in Nat \ {0, 1}
  /\ PeakMax \in Nat
  /\ BufferMax \in Nat
  /\ IndexMax \in d_vlen..(d_vlen + d_cplen)
  /\ RoomMax \in Nat \ {0}

VARIABLES
  metric,             \* the Schmidl & Cox metrics in the input buffer
  d_state,
  d_index_decision,   \* end of the current block in the search window
  d_s1_gi_failures,
  d_window_shift,     \* in steps of d_i_gain_shift
  pc,                 \* "idle", or the loop in progress
  i,                  \* samples done in the running call
  nin,                \* samples the running call may do
  room,               \* output blocks it may still write
  peak,               \* ind and sc_val of the search
  block               \* the last block cut, or the preamble detected: where
                      \* it ends and whether it is marked as a frame's start

call == <<pc, i, nin, room, peak>>
decision == <<d_index_decision, d_s1_gi_failures, d_window_shift>>
vars == <<metric, d_state, decision, call, block>>

d_blocklen == d_vlen + d_cplen
d_shift == d_blocklen
d_hist == (d_avg_blocks + 1) * d_blocklen

Metric == 0..2
d_sc_threshold == 1

NoBlock == [kind |-> "none", end |-> 0, start |-> FALSE]

TypeOK ==
  /\ metric \in Seq(Metric)
  /\ d_state \in {"ACQUISITION", "TRACKING"}
  /\ d_index_decision \in Int
  /\ d_s1_gi_failures \in 0..(d_s1_max_failures + 1)
  /\ d_window_shift \in (1 - ShiftSteps)..(ShiftSteps - 1)
  /\ pc \in {"idle", "search", "track"}
  /\ i \in Nat
  /\ nin \in Int
  /\ room \in 0..RoomMax
  /\ peak \in [ind : 0..d_vlen, val : Metric]
  /\ block \in [kind : {"none", "detected", "cut"}, end : Int, start : BOOLEAN]

Init ==
  /\ metric = [k \in 1..(d_shift - 1) |-> 0]
  /\ d_state = "ACQUISITION"
  /\ d_index_decision = -1
  /\ d_s1_gi_failures = 0
  /\ d_window_shift = 0
  /\ pc = "idle"
  /\ i = 0
  /\ nin = 0
  /\ room = 0
  /\ peak = [ind |-> 0, val |-> 0]
  /\ block = NoBlock

-----------------------------------------------------------------------------
(* sc_metric[k] of the running call.                                       *)
sc_metric(k) == metric[d_shift + k + 1]

(* The first of the largest values of the vlen samples from k on.          *)
Bootstrap(k) ==
  LET window == 0..(d_vlen - 1)
      val    == Max({sc_metric(k + j) : j \in window})
  IN  [ind |-> Min({j \in window : sc_metric(k + j) = val}), val |-> val]

(* Return from general_work: n samples are consumed, last is the block     *)
(* that was cut last.                                                      *)
Return(n, last) ==
  /\ pc' = "idle"
  /\ metric' = SubSeq(metric, n + 1, Len(metric))
  /\ block' = IF last.kind = "none" THEN last ELSE [last EXCEPT !.end = @ - n]
  /\ i' = 0
  /\ nin' = 0
  /\ room' = 0
  /\ peak' = [ind |-> 0, val |-> 0]

(* The samples of the last call are there before the next one begins;      *)
(* what arrives during a call is seen by the next.                         *)
Feed(val) ==
  /\ pc = "idle"
  /\ Len(metric) < BufferMax
  /\ val > 0 => Len(SelectSeq(metric, LAMBDA v : v > 0)) < PeakMax
  /\ metric' = Append(metric, val)
  /\ UNCHANGED <<d_state, decision, call, block>>

Required == IF d_state = "TRACKING" THEN d_hist + d_blocklen - 1 ELSE d_hist

Call(noutput_items) ==
  /\ pc = "idle"
  /\ Len(metric) >= Required
  /\ i' = 0
  /\ room' = noutput_items
  /\ nin' = Len(metric) - Required + 1
  /\ IF d_state = "ACQUISITION"
     THEN pc' = "search" /\ peak' = Bootstrap(0)
     ELSE pc' = "track" /\ UNCHANGED peak
  /\ UNCHANGED <<metric, d_state, decision, block>>

-----------------------------------------------------------------------------
(* Defect: the failures of the last tracking, up to the limit, are kept.   *)
EnterState1Counting(ind) ==
  /\ d_state' = "TRACKING"
  /\ d_index_decision' = ind
  /\ d_window_shift' = 0
  /\ d_s1_gi_failures' = IF d_s1_gi_failures > d_s1_max_failures
                         THEN d_s1_max_failures ELSE d_s1_gi_failures

(* Defect: the drift seen in the last tracking is kept.                    *)
EnterState1Drifting(ind) ==
  /\ d_state' = "TRACKING"
  /\ d_index_decision' = ind
  /\ d_s1_gi_failures' = 0
  /\ UNCHANGED d_window_shift

EnterState1(ind) ==
  /\ d_state' = "TRACKING"
  /\ d_index_decision' = ind
  /\ d_window_shift' = 0
  /\ d_s1_gi_failures' = 0

Detected == [kind |-> "detected", end |-> i + peak.ind, start |-> TRUE]

(* frame_detected: the peak is in the middle, and the prefix's metric has  *)
(* a peak of its own, at gi_ind, close to it.                              *)
SearchPeak(gi_ind) ==
  /\ pc = "search"
  /\ i < nin
  /\ peak.ind = d_blocklen \div 2
  /\ peak.val > d_sc_threshold
  /\ EnterState1((peak.ind + gi_ind) \div 2)
  /\ Return(i, Detected)

(* Defect: the index of a new peak is that of the last window.             *)
ShiftWindowStale ==
  IF sc_metric(i + d_vlen + 1) > peak.val
  THEN [ind |-> d_vlen - 1, val |-> sc_metric(i + d_vlen + 1)]
  ELSE IF peak.ind = 0 THEN Bootstrap(i + 1)
  ELSE [peak EXCEPT !.ind = @ - 1]

(* The peak of the window that is one sample further on.                   *)
ShiftWindow ==
  IF sc_metric(i + d_vlen + 1) > peak.val
  THEN [ind |-> d_vlen, val |-> sc_metric(i + d_vlen + 1)]
  ELSE IF peak.ind = 0 THEN Bootstrap(i + 1)
  ELSE [peak EXCEPT !.ind = @ - 1]

(* Not detected: the prefix's metric may deny any peak.                    *)
SearchOn ==
  /\ pc = "search"
  /\ i < nin
  /\ peak' = ShiftWindow
  /\ i' = i + 1
  /\ UNCHANGED <<metric, d_state, decision, pc, nin, room, block>>

SearchReturn ==
  /\ pc = "search"
  /\ i >= nin
  /\ Return(i, block)
  /\ UNCHANGED <<d_state, decision>>

-----------------------------------------------------------------------------
(* s1_track_cyclic_prefix: the prefix is one sample to the left (-1), to   *)
(* the right (1) or where it was (0).                                      *)
WindowShift(drift) ==
  d_window_shift + (IF drift # 0 THEN drift
                    ELSE IF d_window_shift > 0 THEN -1 ELSE 1)

(* Defect: > in place of >=.                                               *)
MovedLate(drift) == IF WindowShift(drift) > ShiftSteps THEN 1
                    ELSE IF WindowShift(drift) < -ShiftSteps THEN -1 ELSE 0

(* What the cut moves by, in whole samples.                                *)
Moved(drift) == IF WindowShift(drift) \in {-ShiftSteps, ShiftSteps}
                THEN WindowShift(drift) \div ShiftSteps ELSE 0

Failures(low) == IF low THEN d_s1_gi_failures + 1 ELSE 0

(* s1_must_recover, after s1_track_cyclic_prefix.                          *)
TrackLost(drift) ==
  /\ pc = "track"
  /\ i < nin
  /\ Failures(TRUE) > d_s1_max_failures
  /\ d_state' = "ACQUISITION"
  /\ d_s1_gi_failures' = Failures(TRUE)
  /\ d_index_decision' = d_index_decision + Moved(drift)
  /\ d_window_shift' = IF Moved(drift) # 0 THEN 0 ELSE WindowShift(drift)
  /\ Return(i, NoBlock)

(* Defect: the window moves, the index in it does not.                     *)
RecentredWindowOnly(next, index) ==
  [i |-> next + (IF index > d_vlen \div 2 /\ nin - next > 1 THEN 1
                 ELSE IF index < d_vlen \div 2 THEN -1 ELSE 0),
   index |-> index]

(* Where the loop goes on, and the index there: one sample towards the     *)
(* middle of the window.                                                   *)
Recentred(next, index) ==
  IF index > d_vlen \div 2 /\ nin - next > 1
  THEN [i |-> next + 1, index |-> index - 1]
  ELSE IF index < d_vlen \div 2 THEN [i |-> next - 1, index |-> index + 1]
  ELSE [i |-> next, index |-> index]

TrackBlock(drift, low) ==
  /\ pc = "track"
  /\ i < nin
  /\ Failures(low) <= d_s1_max_failures
  /\ d_s1_gi_failures' = Failures(low)
  /\ d_window_shift' = IF Moved(drift) # 0 THEN 0 ELSE WindowShift(drift)
  /\ LET index == d_index_decision + Moved(drift)
         next  == IF room = 1 THEN [i |-> i + d_blocklen, index |-> index]
                  ELSE Recentred(i + d_blocklen, index)
         cut   == [kind  |-> "cut", end |-> i + index,
                   start |-> sc_metric(i + d_index_decision) > d_sc_threshold]
     IN  /\ index \in (-IndexMax)..IndexMax
         /\ d_index_decision' = next.index
         /\ IF room = 1 \/ next.i >= nin
            THEN Return(next.i, cut)
            ELSE /\ i' = next.i
                 /\ room' = room - 1
                 /\ block' = cut
                 /\ UNCHANGED <<metric, pc, nin, peak>>
  /\ UNCHANGED d_state

-----------------------------------------------------------------------------
Search ==
  \/ \E gi_ind \in 0..(d_vlen - 1) :
       /\ gi_ind - d_blocklen \div 2 \in (1 - d_cplen)..(d_cplen - 1)
       /\ SearchPeak(gi_ind)
  \/ SearchOn
  \/ SearchReturn

Track ==
  \E drift \in -1..1 : TrackLost(drift) \/ \E low \in BOOLEAN : TrackBlock(drift, low)

GeneralWork == (\E n \in 1..RoomMax : Call(n)) \/ Search \/ Track

Next == (\E val \in Metric : Feed(val)) \/ GeneralWork

Spec == Init /\ [][Next]_vars

(* The scheduler calls the block when its forecast is met.  Samples need   *)
(* not come.                                                               *)
FairSpec == Spec /\ WF_vars(GeneralWork)

-----------------------------------------------------------------------------
(* Properties.                                                             *)

(* From the last position to that of the block that is cut in this step.   *)
Advance == block'.end + (Len(metric) - Len(metric')) - block.end

CutsBlock == pc = "track" /\ d_state' = "TRACKING"

(* Tracking begins on a preamble: where the peak was counted down to, in   *)
(* whichever way the search window got there, the metric is above the      *)
(* threshold.                                                              *)
EntersOnPreamble ==
  [][ d_state = "ACQUISITION" /\ d_state' = "TRACKING"
      => sc_metric(i + peak.ind) > d_sc_threshold ]_vars

(* The first block that is cut, in a later call, is the preamble that was  *)
(* detected: it ends at most half a cyclic prefix beside the peak, and is  *)
(* marked as a frame's start when it ends on it.                           *)
FirstBlockIsPreamble ==
  [][ CutsBlock /\ block.kind = "detected"
      => /\ 2 * Advance \in (-d_cplen)..d_cplen
         /\ Advance = 0 => block'.start ]_vars

(* In tracking, the next block ends a block length after the last one, or  *)
(* one sample beside that when the prefix has drifted: no sample is lost   *)
(* or cut twice, wherever calls end, however much room they have and       *)
(* however the window is recentred.                                        *)
BlocksAdjoin ==
  [][ CutsBlock /\ block.kind = "cut"
      => Advance \in (d_blocklen - 1)..(d_blocklen + 1) ]_vars

(* As long as there is what a call needs, samples are consumed again and   *)
(* again: losing the prefix and finding the same preamble do not follow    *)
(* each other for ever on the same samples.                                *)
SamplesConsumed ==
  []<>(Len(metric) < Required) \/ []<><<Len(metric') < Len(metric)>>_vars
=============================================================================
