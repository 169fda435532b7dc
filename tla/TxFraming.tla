------------------------------ MODULE TxFraming ------------------------------
(***************************************************************************)
(* The transmitter between allocation_src and the pilot inserter, without  *)
(* coding (python/ofdm/transmit_path.py).  For every frame allocation_src  *)
(* puts one item on each of its outputs; from there five streams go        *)
(* different ways, cross blocks of different rates and meet again in the   *)
(* multiplexer, the mapper and the power allocator.  Nothing marks the     *)
(* frames in the streams.  Every block runs in a thread of its own and is  *)
(* called with any number of the items that are there.                     *)
(***************************************************************************)
EXTENDS FrameBlocks

CONSTANTS
  Loads,      \* bits an OFDM data symbol may carry: the sum of a bitloading
  FrameMax,   \* bound: frames sent in a behaviour
  CallMax     \* bound: output items or frames of one call of work

(* A frame without bits stops reference_data_source with a division by     *)
(* zero.                                                                   *)
ASSUME TxAssumption ==
  /\ Loads \subseteq Nat \ {0}
  /\ FrameMax \in Nat
  /\ CallMax \in Nat \ {0}

VARIABLES
  load,          \* bits per data symbol of the frames sent, oldest first
  buf,           \* the streams between the blocks
  ref_bitcount,  \* reference_data_source_02_ib: d_bitcount
  mux_bitcount,  \* tx_mux_ctrl: d_bitcount
  d_next_input,  \* stream_controlled_mux_b
  mapper,        \* generic_mapper_bcv
  power,         \* multiply_frame_fc
  out            \* the symbols that went to the pilot inserter

vars == <<load, buf, ref_bitcount, mux_bitcount, d_next_input, mapper, power,
          out>>

(* The first five are the outputs of allocation_src, a frame being known   *)
(* by its number: the id for the encoder, the id and the bit count for the *)
(* reference data, the bit count for the multiplexer's control, the bit    *)
(* loading and the power.                                                  *)
Streams == {"id", "ref", "count", "map", "pow",
            "ctrl", "idbits", "data", "bits", "symbols"}

(* Defect: one data symbol less than the frame has.                        *)
BitCountShort(f) == load[f] * (frame_size - 2)

BitCount(f) == load[f] * (frame_size - 1)

Bit == [kind : {"id", "data"}, frame : Nat, pos : Nat]

TypeOK ==
  /\ load \in Seq(Loads)
  /\ DOMAIN buf = Streams
  /\ \A s \in {"id", "ref", "count", "map", "pow"} : buf[s] \in Seq(Nat)
  /\ buf["ctrl"] \in Seq({0, 1})
  /\ \A s \in {"idbits", "data", "bits"} : buf[s] \in Seq(Bit)
  /\ ref_bitcount \in Nat \cup {-1}
  /\ mux_bitcount \in Nat
  /\ d_next_input \in 0..2
  /\ mapper \in [bitmap : Nat \cup {-1}, need_bits : Nat,
                 need_bitmap : {0, 1}, counter : 0..(frame_size - 1)]
  /\ power \in [hold : Nat, counter : 0..(frame_size - 1)]

(* Bitmap 0 is the one of the id symbol, -1 the initial one without bits.  *)
Init ==
  /\ load = << >>
  /\ buf = [s \in Streams |-> << >>]
  /\ ref_bitcount = -1
  /\ mux_bitcount = 0
  /\ d_next_input = 0
  /\ mapper = [bitmap |-> -1, need_bits |-> 0, need_bitmap |-> 1, counter |-> 0]
  /\ power = [hold |-> 0, counter |-> 0]
  /\ out = << >>

-----------------------------------------------------------------------------
SendFrame(l) ==
  /\ Len(load) < FrameMax
  /\ load' = Append(load, l)
  /\ buf' = [s \in Streams |->
               IF s \in {"id", "ref", "count", "map", "pow"}
               THEN Append(buf[s], Len(load) + 1) ELSE buf[s]]
  /\ UNCHANGED <<ref_bitcount, mux_bitcount, d_next_input, mapper, power, out>>

(* repetition_encoder_sb: dsubc bits for each id.                          *)
EncodeIds(n) ==
  /\ n <= Len(buf["id"])
  /\ buf' = [buf EXCEPT
       !["id"] = Drop(@, n),
       !["idbits"] = @ \o FlattenSeq([k \in 1..n |-> IdBits(buf["id"][k])])]
  /\ UNCHANGED <<load, ref_bitcount, mux_bitcount, d_next_input, mapper, power,
                 out>>

(* reference_data_source_02_ib.  A call that finds another bit count at    *)
(* the front only adapts its interpolation.                                *)
SetReference ==
  /\ buf["ref"] # << >>
  /\ BitCount(buf["ref"][1]) # ref_bitcount
  /\ ref_bitcount' = BitCount(buf["ref"][1])
  /\ UNCHANGED <<load, buf, mux_bitcount, d_next_input, mapper, power, out>>

Reference(runs) ==
  /\ runs <= Len(buf["ref"])
  /\ BitCount(buf["ref"][1]) = ref_bitcount
  /\ LET n == EqualCount([k \in 1..runs |-> BitCount(buf["ref"][k])], runs,
                         ref_bitcount)
     IN  buf' = [buf EXCEPT
           !["ref"] = Drop(@, n),
           !["data"] = @ \o FlattenSeq([k \in 1..n |->
                              DataBits(buf["ref"][k], ref_bitcount)])]
  /\ UNCHANGED <<load, ref_bitcount, mux_bitcount, d_next_input, mapper, power,
                 out>>

(* tx_mux_ctrl: input 0 for the id symbol, input 1 for the payload bits.   *)
CtrlStream(bitcount) ==
  [b \in 1..dsubc |-> 0] \o [b \in 1..bitcount |-> 1]

SetCtrlStream ==
  /\ buf["count"] # << >>
  /\ BitCount(buf["count"][1]) # mux_bitcount
  /\ mux_bitcount' = BitCount(buf["count"][1])
  /\ UNCHANGED <<load, buf, ref_bitcount, d_next_input, mapper, power, out>>

MuxCtrl(runs) ==
  /\ runs <= Len(buf["count"])
  /\ BitCount(buf["count"][1]) = mux_bitcount
  /\ LET n == EqualCount([k \in 1..runs |-> BitCount(buf["count"][k])], runs,
                         mux_bitcount)
     IN  buf' = [buf EXCEPT
           !["count"] = Drop(@, n),
           !["ctrl"] = @ \o FlattenSeq([k \in 1..n |->
                              CtrlStream(mux_bitcount)])]
  /\ UNCHANGED <<load, ref_bitcount, mux_bitcount, d_next_input, mapper, power,
                 out>>

(* stream_controlled_mux_b, called for n items: it stops at the first item *)
(* whose input is empty and remembers that input for forecast.             *)
Selected(input, k) == Cardinality({j \in 1..k : buf["ctrl"][j] = input})

Mux(n) ==
  /\ n <= Len(buf["ctrl"])
  /\ d_next_input = 1 => buf["idbits"] # << >>
  /\ d_next_input = 2 => buf["data"] # << >>
  /\ LET fits(k) == /\ Selected(0, k) <= Len(buf["idbits"])
                    /\ Selected(1, k) <= Len(buf["data"])
         done    == Max({k \in 0..n : fits(k)})
         item(k) == IF buf["ctrl"][k] = 0
                    THEN buf["idbits"][Selected(0, k)]
                    ELSE buf["data"][Selected(1, k)]
     IN  /\ buf' = [buf EXCEPT
              !["ctrl"] = Drop(@, done),
              !["idbits"] = Drop(@, Selected(0, done)),
              !["data"] = Drop(@, Selected(1, done)),
              !["bits"] = @ \o [k \in 1..done |-> item(k)]]
         /\ d_next_input' = IF done = n THEN 0 ELSE buf["ctrl"][done + 1] + 1
  /\ UNCHANGED <<load, ref_bitcount, mux_bitcount, mapper, power, out>>

-----------------------------------------------------------------------------
(* generic_mapper_bcv.                                                     *)
BitsOf(bitmap) ==
  CASE bitmap = -1 -> 0
    [] bitmap = 0  -> dsubc
    [] OTHER       -> load[bitmap]

(* The bitmap of the next symbol: the id's, the next of the input or the   *)
(* one in use.                                                             *)
NextBitmap(s) ==
  CASE s.counter = 0 -> 0
    [] s.counter = 1 -> Head(s.maps)
    [] OTHER         -> s.bitmap

(* Defect: the counter runs on.                                            *)
NextCounterUnwrapped(counter) == counter + 1

NextCounter(counter) == (counter + 1) % frame_size

(* One turn of the loop on the locals s of a call.                         *)
MapSymbol(s) ==
  LET bitmap == NextBitmap(s)
      fetch  == s.counter \in {0, 1}
      need   == IF fetch THEN BitsOf(bitmap) ELSE s.need_bits
  IN  IF s.stopped THEN s
      ELSE IF Len(s.bits) < need
      THEN [s EXCEPT !.stopped = TRUE, !.bitmap = bitmap, !.need_bits = need,
                     !.need_bitmap = IF fetch THEN 1 ELSE @]
      ELSE [s EXCEPT
              !.bitmap = bitmap,
              !.need_bits = need,
              !.need_bitmap = IF fetch THEN 0 ELSE @,
              !.copy = @ \/ fetch,
              !.maps = IF s.counter = 1 THEN Tail(@) ELSE @,
              !.counter = NextCounter(@),
              !.bits = Drop(@, need),
              !.symbols = Append(@, [map |-> bitmap, bits |-> Take(s.bits, need)])]

Symbol == [map : Nat, bits : Seq(Bit)]

MapLocals ==
  [bitmap : Nat \cup {-1}, need_bits : Nat, need_bitmap : {0, 1}, counter : Nat,
   bits : Seq(Bit), maps : Seq(Nat), symbols : Seq(Symbol), copy : BOOLEAN,
   stopped : BOOLEAN]

MapCall(n) ==
  Turns([s \in MapLocals |-> MapSymbol(s)],
        [bitmap |-> mapper.bitmap, need_bits |-> mapper.need_bits,
         need_bitmap |-> mapper.need_bitmap, counter |-> mapper.counter,
         bits |-> buf["bits"], maps |-> buf["map"], symbols |-> << >>,
         copy |-> FALSE, stopped |-> FALSE],
        Min({n, Len(buf["map"])}))

Mapper(n) ==
  /\ Len(buf["bits"]) >= mapper.need_bits
  /\ Len(buf["map"]) >= mapper.need_bitmap
  /\ \E s \in {MapCall(n)} :
         /\ mapper' = [bitmap |-> IF s.copy THEN s.bitmap ELSE mapper.bitmap,
                       need_bits |-> s.need_bits,
                       need_bitmap |-> s.need_bitmap,
                       counter |-> s.counter]
         /\ buf' = [buf EXCEPT !["bits"] = s.bits,
                               !["map"] = s.maps,
                               !["symbols"] = @ \o s.symbols]
  /\ UNCHANGED <<load, ref_bitcount, mux_bitcount, d_next_input, power, out>>

(* multiply_frame_fc.                                                      *)
Power(n) ==
  /\ n <= Len(buf["symbols"])
  /\ n \div frame_size <= Len(buf["pow"])
  /\ LET p == PowerTaken(power, n, buf["pow"])
     IN  /\ power' = p.next
         /\ buf' = [buf EXCEPT !["symbols"] = Drop(@, p.done),
                               !["pow"] = Drop(@, p.taken)]
         /\ out' = out \o [k \in 1..p.done |->
                             [map |-> buf["symbols"][k].map,
                              bits |-> buf["symbols"][k].bits,
                              power |-> p.used[k]]]
  /\ UNCHANGED <<load, ref_bitcount, mux_bitcount, d_next_input, mapper>>

-----------------------------------------------------------------------------
Calls == 1..CallMax

IdEncoder == \E n \in Calls : EncodeIds(n)
ReferenceSource == SetReference \/ \E n \in Calls : Reference(n)
Control == SetCtrlStream \/ \E n \in Calls : MuxCtrl(n)
Multiplexer == \E n \in Calls : Mux(n)
Modulator == \E n \in Calls : Mapper(n)
PowerAllocator == \E n \in Calls : Power(n)

Blocks ==
  \/ IdEncoder
  \/ ReferenceSource
  \/ Control
  \/ Multiplexer
  \/ Modulator
  \/ PowerAllocator

Next == (\E l \in Loads : SendFrame(l)) \/ Blocks

Spec == Init /\ [][Next]_vars

(* The scheduler does not rest while a block whose forecast is met can do  *)
(* something.  allocation_src need not send.                               *)
FairSpec == Spec /\ WF_vars(Blocks)

-----------------------------------------------------------------------------
(* Properties.                                                             *)

(* The k-th symbol of a transmission, from 0: the id symbol of its frame,  *)
(* then its payload in order, with this frame's bit loading and power.     *)
Expected(k) ==
  LET f == k \div frame_size + 1
      j == k % frame_size
  IN  [map   |-> IF j = 0 THEN 0 ELSE f,
       power |-> f,
       bits  |-> IF j = 0 THEN IdBits(f)
                 ELSE SubSeq(DataBits(f, BitCount(f)),
                             (j - 1) * load[f] + 1, j * load[f])]

(* Whatever chunks the scheduler calls the blocks with, the streams meet   *)
(* in step: every symbol sent carries the bits of its own frame, mapped    *)
(* with this frame's bit loading and scaled with its power.                *)
SymbolsFramed == \A k \in 1..Len(out) : out[k] = Expected(k - 1)

(* Every frame is sent in full once allocation_src has produced the next   *)
(* one: the blocks never wait for each other in a circle.  "The next one"  *)
(* because the mapper's loop runs at most as often as there are bit        *)
(* loadings in its input, so that it does not finish a frame before the    *)
(* next bit loading is there.                                              *)
FramesLeave ==
  \A f \in 1..(FrameMax - 1) :
    (Len(load) > f) ~> (Len(out) >= f * frame_size)
=============================================================================
