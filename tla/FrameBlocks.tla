----------------------------- MODULE FrameBlocks -----------------------------
(***************************************************************************)
(* Blocks that the transmitter and the receiver both run, as functions     *)
(* from the items a call of work is given to what it consumes and          *)
(* produces: reference_data_source_02_ib and multiply_frame_fc; and what   *)
(* both ends know of a frame.                                              *)
(*                                                                         *)
(* A frame is one id symbol and frame_size - 1 data symbols.  Its bits     *)
(* carry their frame and their place in it, which no stream of the program *)
(* holds: the blocks can only count.                                       *)
(***************************************************************************)
EXTENDS Loops, Sequences, SequencesExt

CONSTANTS
  dsubc,       \* data subcarriers; the id symbol carries one bit on each
  frame_size   \* config.frame_data_part: OFDM symbols of a frame

ASSUME FrameAssumption ==
  /\ dsubc \in Nat \ {0}
  /\ frame_size \in Nat \ {0, 1}

IdBits(f) == [b \in 1..dsubc |-> [kind |-> "id", frame |-> f, pos |-> b]]

DataBits(f, count) ==
  [b \in 1..count |-> [kind |-> "data", frame |-> f, pos |-> b]]

Take(seq, n) == SubSeq(seq, 1, n)

Drop(seq, n) == SubSeq(seq, n + 1, Len(seq))

-----------------------------------------------------------------------------
(* Defect: the loop does not stop at a frame with another bit count.       *)
EqualCountAll(counts, runs, bitcount) == runs

(* How many of the first runs frames have this bit count.  The two blocks  *)
(* whose output per frame depends on it work on equal frames only.         *)
EqualCount(counts, runs, bitcount) ==
  Max({k \in 0..runs : \A j \in 1..k : counts[j] = bitcount})

-----------------------------------------------------------------------------
(* multiply_frame_fc, called with n symbols and these power vectors.  It   *)
(* takes a vector for every frame_size symbols and returns early when it   *)
(* has none.                                                               *)

(* Defect: without a vector the symbols are not left for a later call but  *)
(* take the power that is held.                                            *)
PowerTakenHeld(power, n, powers) ==
  LET begun == n - power.counter
      taken == IF begun <= 0 THEN 0
               ELSE (begun + frame_size - 1) \div frame_size
      used(j) == IF j <= power.counter \/ powers = << >> THEN power.hold
                 ELSE powers[Min({Len(powers),
                                  1 + (j - power.counter - 1) \div frame_size})]
  IN  [done  |-> n,
       taken |-> taken,
       used  |-> [j \in 1..n |-> used(j)],
       next  |-> [hold    |-> IF n = 0 THEN power.hold ELSE used(n),
                  counter |-> power.counter + taken * frame_size - n]]

PowerTaken(power, n, powers) ==
  LET done  == Min({n, power.counter + Len(powers) * frame_size})
      begun == done - power.counter
      taken == IF begun <= 0 THEN 0
               ELSE (begun + frame_size - 1) \div frame_size
      used(j) == IF j <= power.counter THEN power.hold
                 ELSE powers[1 + (j - power.counter - 1) \div frame_size]
  IN  [done  |-> done,
       taken |-> taken,
       used  |-> [j \in 1..done |-> used(j)],
       next  |-> [hold    |-> IF done = 0 THEN power.hold ELSE used(done),
                  counter |-> power.counter + taken * frame_size - done]]
=============================================================================
