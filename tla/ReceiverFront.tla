---------------------------- MODULE ReceiverFront ----------------------------
(***************************************************************************)
(* The receiver between the time synchronisation and the pilot subcarrier  *)
(* filter (python/ofdm/ofdm_receiver2.py and receive_path.py): frequency   *)
(* correction, channel estimation, equalisation, phase tracking, and the   *)
(* frame sampler with the pilot block filter.                              *)
(*                                                                         *)
(* time_sync hands out OFDM blocks and marks some of them as the start of  *)
(* a frame.  The offset and the channel estimated from a frame's preambles *)
(* are streams with one item for each mark, which the corrections have to  *)
(* rejoin with the blocks.  Every GNU Radio block runs in a thread of its  *)
(* own, on whatever has arrived and with whatever room there is.           *)
(*                                                                         *)
(* An OFDM block is known by its number; an estimate by the number of the  *)
(* block it was made from, 0 standing for what the filters start with.     *)
(* Blocks that hand on one item for each item (the FFT, the masks, the     *)
(* estimators themselves) are left out.                                    *)
(***************************************************************************)
EXTENDS Loops, Sequences, FiniteSets, SequencesExt

CONSTANTS
  frame_length,
  pilotsym_pos,   \* positions of the preambles in a frame, from 0
  Items,          \* OFDM blocks that a buffer between two threads holds
  BlockMax,       \* bound: OFDM blocks cut in a behaviour
  RoomMax         \* bound: room in the output of one call

(* The first two blocks are preambles, and some block is data.  The        *)
(* scheduler gives a buffer at least the history of its reader.            *)
ASSUME FrontAssumption ==
  /\ frame_length \in Nat
  /\ pilotsym_pos \subseteq 0..(frame_length - 1)
  /\ {0, 1} \subseteq pilotsym_pos
  /\ pilotsym_pos # 0..(frame_length - 1)
  /\ Items \in Nat /\ Items >= frame_length
  /\ BlockMax \in Nat
  /\ RoomMax \in Nat \ {0}

VARIABLES
  frame_start,  \* of each block that time_sync has cut
  preamble,     \* sampler_preamble: blocks done, and the estimates made
  shift,        \* frequency_shift_vcc, and the offset of each block done
  chest,        \* sampled_chest_preamble, like preamble
  equalizer,    \* channel_equalizer, and the estimates of each block done
  tracking,     \* lms_phase_tracking_dc_null: d_blk of each block done, next
  sampler,      \* frame_sampler: blocks done, and the first of each frame
  skip          \* skip of pilot_block_filter: items done, its state, outputs

vars == <<frame_start, preamble, shift, chest, equalizer, tracking, sampler, skip>>

Blocks == 0..BlockMax
Sampler == [done : Blocks, out : Seq(Blocks \ {0})]
Correction == [need : 0..1, taken : Blocks, last : Blocks, out : Seq(Blocks)]
SkipLocals ==
  [done : Nat, d_item : 0..frame_length, out : Seq(Blocks),
   trigger : Seq(BOOLEAN)]

TypeOK ==
  /\ frame_start \in Seq(BOOLEAN) /\ Len(frame_start) \in Blocks
  /\ {preamble, chest, sampler} \subseteq Sampler
  /\ {shift, equalizer} \subseteq Correction
  /\ tracking \in [d_blk : Blocks, out : Seq(Blocks)]
  /\ skip \in SkipLocals

Init ==
  /\ frame_start = <<>>
  /\ preamble = [done |-> 0, out |-> <<>>]
  /\ shift = [need |-> 1, taken |-> 0, last |-> 0, out |-> <<>>]
  /\ chest = [done |-> 0, out |-> <<>>]
  /\ equalizer = [need |-> 1, taken |-> 0, last |-> 0, out |-> <<>>]
  /\ tracking = [d_blk |-> 0, out |-> <<>>]
  /\ sampler = [done |-> 0, out |-> <<>>]
  /\ skip = [done |-> 0, d_item |-> frame_length, out |-> <<>>, trigger |-> <<>>]

-----------------------------------------------------------------------------
(* The marks of blocks a to b, in a stream delayed by blocks.delay.        *)
Marks(a, b, delay) == {k \in a..b : k > delay /\ frame_start[k - delay]}

(* The members of a finite set of numbers, the smallest first.  (Defined   *)
(* by rank, since the sort of the TLC module has no definition to prove    *)
(* about.)                                                                 *)
Below(S, x) == {y \in S : y < x}

Ascending(S) ==
  [i \in 1..Cardinality(S) |-> CHOOSE x \in S : Cardinality(Below(S, x)) = i - 1]

(* Defect: what there is no room for is consumed all the same.             *)
ConsumedAll(hits, room, avail) == avail

(* The input is consumed up to the mark that there is no room for.         *)
Consumed(hits, room, avail) ==
  IF room < Len(hits) THEN hits[room + 1] - 1 ELSE avail

(* Defect: the vector ends before the mark.                                *)
FirstOfBefore(mark, vlen) == mark - vlen

FirstOf(mark, vlen) == mark - vlen + 1

(* A call of vector_sampler: at each mark, the vlen items that end there   *)
(* are put out.  A vector is known by its first item.                      *)
Sample(s, avail, delay, vlen, room) ==
  LET hits == Ascending(Marks(s.done + 1, avail, delay))
      out  == SubSeq(hits, 1, Min({room, Len(hits)}))
  IN  [done |-> Consumed(hits, room, avail),
       out  |-> s.out \o [h \in DOMAIN out |-> FirstOf(out[h], vlen)]]

(* Defect: once one estimate was missing, each call waits for another.     *)
NeedForever(missing, took, need) == IF missing THEN 1 ELSE need

(* d_need_eps, d_need_input: the next call waits for an estimate.          *)
Need(missing, took, need) == IF missing THEN 1 ELSE IF took THEN 0 ELSE need

(* A call of frequency_shift_vcc or channel_equalizer: a marked block      *)
(* takes the next estimate, the others keep it.  The call ends before the  *)
(* mark whose estimate is missing.                                         *)
Correct(c, avail, estimates, room) ==
  LET done    == Len(c.out)
      last    == done + Min({room, avail - done})
      have    == Len(estimates) - c.taken
      to      == Max({k \in done..last : Cardinality(Marks(done + 1, k, 0)) <= have})
      used(k) == c.taken + Cardinality(Marks(done + 1, k, 0))
      val(k)  == IF used(k) = c.taken THEN c.last ELSE estimates[used(k)]
  IN  [need  |-> Need(to < last, used(to) > c.taken, c.need),
       taken |-> used(to),
       last  |-> val(to),
       out   |-> c.out \o [k \in 1..(to - done) |-> val(done + k)]]

(* forecast of these two.                                                  *)
Ready(c, avail, estimates) ==
  /\ avail > Len(c.out)
  /\ Len(estimates) - c.taken >= c.need

-----------------------------------------------------------------------------
(* time_sync cuts a block.  A false peak of the metric, or one missed, may *)
(* mark any block or none; but a first frame is marked before the buffer   *)
(* is full of blocks that no estimate is there for.                        *)
Cut(start) ==
  /\ Len(frame_start) < BlockMax
  /\ Len(frame_start) < Items + Min({preamble.done, Len(shift.out)})
  /\ \/ start
     \/ Len(frame_start) + 1 < Items
     \/ \E k \in DOMAIN frame_start : frame_start[k]
  /\ frame_start' = Append(frame_start, start)
  /\ UNCHANGED <<preamble, shift, chest, equalizer, tracking, sampler, skip>>

(* sampler_preamble, with the frequency estimator and its filter.          *)
EstimateOffset(room) ==
  /\ preamble.done < Len(frame_start)
  /\ preamble' = Sample(preamble, Len(frame_start), 0, 1, room)
  /\ UNCHANGED <<frame_start, shift, chest, equalizer, tracking, sampler, skip>>

FrequencyShift(room) ==
  /\ Ready(shift, Len(frame_start), preamble.out)
  /\ room <= Items + Min({chest.done, Len(equalizer.out)}) - Len(shift.out)
  /\ shift' = Correct(shift, Len(frame_start), preamble.out, room)
  /\ UNCHANGED <<frame_start, preamble, chest, equalizer, tracking, sampler, skip>>

(* The preamble after the one that is marked: chest_pre_trigger.           *)
EstimateChannel(room) ==
  /\ chest.done < Len(shift.out)
  /\ room <= Items + equalizer.taken - Len(chest.out)
  /\ chest' = Sample(chest, Len(shift.out), 1, 1, room)
  /\ UNCHANGED <<frame_start, preamble, shift, equalizer, tracking, sampler, skip>>

Equalize(room) ==
  /\ Ready(equalizer, Len(shift.out), chest.out)
  /\ room <= Items + Len(tracking.out) - Len(equalizer.out)
  /\ equalizer' = Correct(equalizer, Len(shift.out), chest.out, room)
  /\ UNCHANGED <<frame_start, preamble, shift, chest, tracking, sampler, skip>>

(* Positions of blocks a to b, counted from the last mark before each.     *)
PositionsFrom(d_blk, a, b) ==
  [k \in 1..(b - a + 1) |->
     LET marks == Marks(a, a + k - 1, 0)
     IN  IF marks = {} THEN d_blk + k - 1 ELSE a + k - 1 - Max(marks)]

(* The phase is compensated, from the mark on, in blocks whose d_blk is    *)
(* not that of a preamble.                                                 *)
TrackPhase(room) ==
  LET a   == Len(tracking.out) + 1
      b   == Min({Len(equalizer.out), Len(tracking.out) + room})
      blk == PositionsFrom(tracking.d_blk, a, b)
  IN  /\ a <= b
      /\ room <= Items + sampler.done - (frame_length - 1) - Len(tracking.out)
      /\ tracking' = [d_blk |-> Last(blk) + 1, out |-> tracking.out \o blk]
      /\ UNCHANGED <<frame_start, preamble, shift, chest, equalizer, sampler, skip>>

(* delayed_frame_start and frame_sampler of ofdm_frame_sampler.            *)
SampleFrame(room) ==
  /\ sampler.done < Len(tracking.out)
  /\ sampler' = Sample(sampler, Len(tracking.out), frame_length - 1, frame_length, room)
  /\ UNCHANGED <<frame_start, preamble, shift, chest, equalizer, tracking, skip>>

-----------------------------------------------------------------------------
(* symbol_output: the frames' blocks one after the other, marked by        *)
(* damn_static_frame_trigger.                                              *)
Symbol(j) == sampler.out[(j - 1) \div frame_length + 1] + ((j - 1) % frame_length)
StaticTrigger(j) == (j - 1) % frame_length = 0

DataPositions == (0..(frame_length - 1)) \ pilotsym_pos

(* Defect: a mark is seen only while the count runs.                       *)
ItemRunning(s, j) ==
  IF StaticTrigger(j) /\ s.d_item < frame_length THEN 0 ELSE s.d_item

Item(s, j) == IF StaticTrigger(j) THEN 0 ELSE s.d_item

(* One turn of skip's loop, for item j.                                    *)
SkipItem(s, j) ==
  LET item == Item(s, j)
      next == [s EXCEPT !.done = j, !.d_item = item]
  IN  IF item >= frame_length THEN [next EXCEPT !.out = Append(@, Symbol(j))]
      ELSE IF item \in pilotsym_pos THEN [next EXCEPT !.d_item = item + 1]
      ELSE [next EXCEPT !.d_item = item + 1,
                        !.out = Append(@, Symbol(j)),
                        !.trigger = Append(@, item = Min(DataPositions))]

(* pilot_block_filter: the call ends when its output is full.  Both        *)
(* outputs grow by the number of blocks; marks not written are 0.          *)
FilterBlocks(room) ==
  LET avail == frame_length * Len(sampler.out)
      turn  == [s \in SkipLocals |->
                  IF s.done = avail \/ Len(s.out) = Len(skip.out) + room THEN s
                  ELSE SkipItem(s, s.done + 1)]
      done  == Turns(turn, skip, avail - skip.done)
  IN  /\ avail > skip.done
      /\ avail - skip.done >= (room * frame_length) \div Cardinality(DataPositions)
      /\ skip' = [done EXCEPT !.trigger = @ \o [n \in 1..(Len(done.out) - Len(@)) |-> FALSE]]
      /\ UNCHANGED <<frame_start, preamble, shift, chest, equalizer, tracking, sampler>>

-----------------------------------------------------------------------------
Rooms == 1..RoomMax

Sync == \E start \in BOOLEAN : Cut(start)

Next ==
  \/ Sync
  \/ \E room \in Rooms :
       \/ EstimateOffset(room)
       \/ FrequencyShift(room)
       \/ EstimateChannel(room)
       \/ Equalize(room)
       \/ TrackPhase(room)
       \/ SampleFrame(room)
       \/ FilterBlocks(room)

Spec == Init /\ [][Next]_vars

(* Every thread is scheduled while it has input and room.  Blocks need not *)
(* come.                                                                   *)
FairSpec ==
  /\ Spec
  /\ WF_vars(\E room \in Rooms : EstimateOffset(room))
  /\ WF_vars(\E room \in Rooms : FrequencyShift(room))
  /\ WF_vars(\E room \in Rooms : EstimateChannel(room))
  /\ WF_vars(\E room \in Rooms : Equalize(room))
  /\ WF_vars(\E room \in Rooms : TrackPhase(room))
  /\ WF_vars(\E room \in Rooms : SampleFrame(room))
  /\ WF_vars(\E room \in Rooms : FilterBlocks(room))

-----------------------------------------------------------------------------
(* Properties.                                                             *)

Starts == {k \in DOMAIN frame_start : frame_start[k]}

(* The mark that block k belongs to, 0 before the first.                   *)
StartOf(k) == Max({0} \cup {p \in Starts : p <= k})

(* The estimates rejoin the blocks they were made for, however calls of    *)
(* the threads fall and however closely marks follow each other: a block's *)
(* offset is that of the last marked block, its channel that of the block  *)
(* after that one, and its position is counted from the mark.              *)
CorrectedByOwnFrame ==
  /\ \A k \in DOMAIN shift.out : shift.out[k] = StartOf(k)
  /\ \A k \in DOMAIN equalizer.out :
       equalizer.out[k] = IF StartOf(k) = 0 THEN 0 ELSE StartOf(k) + 1
  /\ \A k \in DOMAIN tracking.out :
       tracking.out[k] = k - Max({1, StartOf(k)})

(* The outer receiver gets one frame for each mark, in the order of the    *)
(* marks and each from its mark on, as soon as the frame sampler has done  *)
(* its last block; none is lost for want of room, so the channel           *)
(* estimates, one for each mark too, stay in step with the frames.         *)
OneFramePerStart ==
  sampler.out = Ascending({p \in Starts : p + frame_length - 1 <= sampler.done})

(* What the pilot block filter lets through is the data blocks of the      *)
(* frames, in order, and the mark of a frame is on its first one, though   *)
(* the marks are written through a pointer of their own.                   *)
DataBlocksFramed ==
  LET offsets == Ascending(DataPositions)
      n       == Len(offsets)
  IN  /\ Len(skip.trigger) = Len(skip.out)
      /\ \A d \in DOMAIN skip.out :
           /\ skip.out[d] = sampler.out[(d - 1) \div n + 1] + offsets[((d - 1) % n) + 1]
           /\ skip.trigger[d] = ((d - 1) % n = 0)

(* No thread waits for ever on one that waits on it, though the channel    *)
(* that a marked block waits for is estimated from the block behind it: a  *)
(* frame and one block more, which its last block may have to wait for,    *)
(* and the frame's data blocks are handed on.  (With as many preambles as  *)
(* data blocks, skip's forecast keeps the last one back for the next       *)
(* frame.)                                                                 *)
EveryFrameHandedOn ==
  frame_length < 2 * Cardinality(DataPositions) =>
  \A p \in 1..(BlockMax - frame_length) :
    p \in Starts /\ Len(frame_start) >= p + frame_length
      ~> Len(skip.out) >= Cardinality({q \in Starts : q <= p}) * Cardinality(DataPositions)
=============================================================================
