------------------------- MODULE AllocationChannels -------------------------
(***************************************************************************)
(* What the adaptive transmitter and the receiver share.  An allocation    *)
(* says how many bits and how much power every data subcarrier carries.    *)
(* The transmitter (allocation_src) announces the allocation of every      *)
(* frame on a ZeroMQ PUB socket and modulates the frame with it; the       *)
(* receiver (allocation_buffer) decodes only the frame id from the air and *)
(* must look the allocation up in what the socket delivered.               *)
(*                                                                         *)
(* A vector over the subcarriers is a function on Subcarriers.  A power is *)
(* a natural number; its inverse, which the code sends, is written as the  *)
(* divisor the receiver applies.                                           *)
(***************************************************************************)
EXTENDS Naturals, Sequences, FiniteSets, Folds, Functions

CONSTANTS
  Subcarriers,    \* the data subcarriers
  DataSymbols,    \* data OFDM symbols per frame
  Coding,         \* TRUE: modes index the tables of code rates, no feedback
  IdSpace,        \* number of frame ids; 256 in the code (uint8_t)
  Allocations,    \* the allocations callers set and the loaders compute
  Amplitudes,     \* values of d_amplitude_abs
  Unit,           \* amplitude 1
  Window          \* frames that fit between the two blocks

(* The number of bits of a mode: the mode itself without coding, the       *)
(* table d_bitspermode with it.  The code divides the table's sum by two.  *)
d_bitspermode == <<1, 2, 3, 4, 6, 8, 9, 10, 12>>

d_modulbitspermode == <<1, 2, 2, 4, 4, 6, 6, 6, 8>>

Modes == IF Coding THEN 1..9 ELSE 0..8

Allocation == [bitloading : [Subcarriers -> Modes],
               power      : [Subcarriers -> Nat]]

ASSUME ConstantsAssumption ==
  /\ IsFiniteSet(Subcarriers)
  /\ DataSymbols \in Nat
  /\ Coding \in BOOLEAN
  /\ IdSpace \in Nat \ {0}
  /\ Window \in 1..IdSpace
  /\ Allocations \subseteq Allocation
  /\ Unit \in Amplitudes

-----------------------------------------------------------------------------
(* Payload bits of one frame, computed with the same formula on both       *)
(* sides.                                                                  *)
BitCount(bl) ==
  IF Coding
  THEN (SumFunction([s \in Subcarriers |-> d_bitspermode[bl[s]]])
          * DataSymbols) \div 2
  ELSE SumFunction(bl) * DataSymbols

(* Coded bits of one frame, what the mapper consumes when coding is on.    *)
ModulBitCount(bl) ==
  SumFunction([s \in Subcarriers |-> d_modulbitspermode[bl[s]]]) * DataSymbols

(* The default both sides start from: BPSK and unit power everywhere.      *)
Default == [bitloading |-> [s \in Subcarriers |-> 1],
            power      |-> [s \in Subcarriers |-> 1]]

(* Defect: the power is squared with coding too.                           *)
GainSquared(p) == [s \in Subcarriers |-> p[s] * p[s]]

(* What the transmitter scales a subcarrier by: general_work squares the   *)
(* power it outputs unless coding is on.                                   *)
Gain(p) == [s \in Subcarriers |-> IF Coding THEN p[s] ELSE p[s] * p[s]]

(* Inverse power as a divisor; a nulled subcarrier is not scaled.          *)
Divisor(p) == [s \in Subcarriers |-> IF p[s] = 0 THEN 1 ELSE p[s]]

-----------------------------------------------------------------------------
VARIABLES
  wire,   \* announcements published and still in transit, oldest first
  inbox,  \* announcements in the receiver's SUB queue, oldest first
  air,    \* frames on their way from allocation_src to allocation_buffer
  lost    \* history: numbers of the frames whose announcement was dropped

chanVars == <<wire, inbox, air, lost>>

BitCounts == {BitCount(bl) : bl \in [Subcarriers -> Modes]}

(* "frame" is history: the running number of the frame, which no variable  *)
(* of the program holds.                                                   *)
Announcement == [id : 0..(IdSpace - 1), frame : Nat,
                 bitloading : [Subcarriers -> Modes],
                 divisor    : [Subcarriers -> Nat]]

Frame == [id : 0..(IdSpace - 1), frame : Nat,
          bitloading : [Subcarriers -> Modes],
          gain       : [Subcarriers -> Nat],
          amplitude  : Amplitudes,
          bitcount   : BitCounts]

ChanInit ==
  /\ wire = << >>
  /\ inbox = << >>
  /\ air = << >>
  /\ lost = {}

ChanTypeOK ==
  /\ wire \in Seq(Announcement)
  /\ inbox \in Seq(Announcement)
  /\ air \in Seq(Frame)
  /\ lost \subseteq Nat

InTransit == {wire[k].frame : k \in 1..Len(wire)}

(* A PUB socket delivers in order and reaches the SUB queue at any time.   *)
Deliver ==
  /\ wire # << >>
  /\ inbox' = Append(inbox, Head(wire))
  /\ wire' = Tail(wire)
  /\ UNCHANGED <<air, lost>>

(* ... or is dropped: no subscriber yet, high-water mark, broken link.     *)
Lose ==
  /\ wire # << >>
  /\ lost' = lost \cup {Head(wire).frame}
  /\ wire' = Tail(wire)
  /\ UNCHANGED <<inbox, air>>
=============================================================================
