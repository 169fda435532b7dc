------------------------------ MODULE RxFraming ------------------------------
(***************************************************************************)
(* The receiver from the pilot filters to the published bit error rate,    *)
(* without coding (python/ofdm/receive_path.py).  A frame's symbols, its   *)
(* bit loading, power and bit count and its id take different ways; the    *)
(* demapped bits and the reference bits regenerated from the id meet in    *)
(* ber_measurement, one pair per bit, and a trigger built from the bit     *)
(* counts picks one of its values per frame.  Nothing marks the frames in  *)
(* the streams, and every block is called with any number of items.        *)
(*                                                                         *)
(* The id and the allocation of a frame are the right ones here: the       *)
(* modules of the allocation link say when they are.                       *)
(***************************************************************************)
EXTENDS FrameBlocks

CONSTANTS
  Loads,      \* bits an OFDM data symbol may carry: the sum of a bitloading
  Wrong,      \* <<frame, position>> of the bits that the channel inverts
  sliding_window_length,
  FrameMax,   \* bound: frames received in a behaviour
  CallMax     \* bound: output items or frames of one call of work

(* A frame without bits stops reference_data_source with a division by     *)
(* zero.                                                                   *)
ASSUME RxAssumption ==
  /\ Loads \subseteq Nat \ {0}
  /\ Wrong \subseteq Nat \X Nat
  /\ sliding_window_length \in Nat \ {0}
  /\ FrameMax \in Nat
  /\ CallMax \in Nat \ {0}

VARIABLES
  load,          \* bits per data symbol of the frames received, oldest first
  decoded,       \* how many of them have their id decoded
  buf,           \* the streams between the blocks
  power,         \* multiply_frame_fc
  demapper,      \* generic_demapper_vcb
  ref_bitcount,  \* reference_data_source_02_ib: d_bitcount
  ber,           \* ber_measurement, with its history of the inputs
  d_produced,    \* dynamic_trigger_ib
  out            \* the bit error rates published

vars ==
  <<load, decoded, buf, power, demapper, ref_bitcount, ber, d_produced, out>>

(* A frame is known by its number in the streams of its settings: the      *)
(* power, the bit loading, the id with the bit count, and the bit count.   *)
Settings == {"pow", "map", "ref", "count"}

Streams ==
  Settings \cup {"samples", "symbols", "data", "refdata", "rates", "trigger"}

BitCount(f) == load[f] * (frame_size - 1)

(* A frame's symbols with the pilots removed; symbol 0 holds the id.       *)
Symbols(f) == [j \in 1..frame_size |-> [frame |-> f, pos |-> j - 1]]

Sample == [frame : Nat, pos : 0..(frame_size - 1)]
Symbol == [frame : Nat, pos : 0..(frame_size - 1), power : Nat]
Rate == [bits : Int, errs : Int]

TypeOK ==
  /\ load \in Seq(Loads)
  /\ decoded \in 0..Len(load)
  /\ DOMAIN buf = Streams
  /\ \A s \in Settings : buf[s] \in Seq(Nat)
  /\ buf["samples"] \in Seq(Sample)
  /\ buf["symbols"] \in Seq(Symbol)
  /\ buf["rates"] \in Seq(Rate)
  /\ buf["trigger"] \in Seq(BOOLEAN)
  /\ power \in [hold : Nat, counter : 0..(frame_size - 1)]
  /\ demapper \in [bitmap : Nat, need_bitmap : {0, 1}, multiple : {1} \cup Loads,
                   counter : 0..(frame_size - 1)]
  /\ ref_bitcount \in Nat \cup {-1}
  /\ ber.rate \in Rate
  /\ ber.history \in [1..sliding_window_length -> {0, 1}]
  /\ d_produced \in Nat
  /\ IF buf["count"] = << >> THEN d_produced = 0
     ELSE d_produced < BitCount(buf["count"][1])
  /\ out \in Seq(Rate)

(* The runtime fills the history with zeros: bits received as sent.        *)
Init ==
  /\ load = << >>
  /\ decoded = 0
  /\ buf = [s \in Streams |-> << >>]
  /\ power = [hold |-> 0, counter |-> 0]
  /\ demapper = [bitmap |-> 0, need_bitmap |-> 1, multiple |-> 1, counter |-> 0]
  /\ ref_bitcount = -1
  /\ ber = [rate |-> [bits |-> sliding_window_length, errs |-> 0],
            history |-> [b \in 1..sliding_window_length |-> 0]]
  /\ d_produced = 0
  /\ out = << >>

-----------------------------------------------------------------------------
RecvFrame(l) ==
  /\ Len(load) < FrameMax
  /\ load' = Append(load, l)
  /\ buf' = [buf EXCEPT !["samples"] = @ \o Symbols(Len(load) + 1)]
  /\ UNCHANGED <<decoded, power, demapper, ref_bitcount, ber, d_produced, out>>

(* The id decoder and allocation_buffer: what is known of a frame comes    *)
(* from the id in its own symbols, at any time after them.                 *)
DecodeId ==
  /\ decoded < Len(load)
  /\ decoded' = decoded + 1
  /\ buf' = [s \in Streams |->
               IF s \in Settings THEN Append(buf[s], decoded + 1) ELSE buf[s]]
  /\ UNCHANGED <<load, power, demapper, ref_bitcount, ber, d_produced, out>>

(* multiply_frame_fc.                                                      *)
Power(n) ==
  /\ n <= Len(buf["samples"])
  /\ n \div frame_size <= Len(buf["pow"])
  /\ LET p == PowerTaken(power, n, buf["pow"])
     IN  /\ power' = p.next
         /\ buf' = [buf EXCEPT
              !["samples"] = Drop(@, p.done),
              !["pow"] = Drop(@, p.taken),
              !["symbols"] = @ \o [k \in 1..p.done |->
                                     [frame |-> buf["samples"][k].frame,
                                      pos   |-> buf["samples"][k].pos,
                                      power |-> p.used[k]]]]
  /\ UNCHANGED <<load, decoded, demapper, ref_bitcount, ber, d_produced, out>>

-----------------------------------------------------------------------------
(* generic_demapper_vcb.  The id's bitmap, 0, has no bits here: the id is  *)
(* decoded elsewhere.                                                      *)
BitsPerSymbol(bitmap) == IF bitmap = 0 THEN 0 ELSE load[bitmap]

Demodulated(symbol, bitmap) ==
  LET bps == BitsPerSymbol(bitmap)
  IN  [b \in 1..bps |-> [frame |-> symbol.frame,
                         pos   |-> (symbol.pos - 1) * bps + b,
                         map   |-> bitmap,
                         power |-> symbol.power]]

(* Defect: the bitmap of the next frame is waited for.                     *)
NeedBitmapAgain(s) == IF s.counter \in {0, 1} THEN 1 ELSE s.need_bitmap

NeedBitmap(s) == IF s.counter \in {0, 1} THEN 0 ELSE s.need_bitmap

(* Without room for a symbol's bits the runtime is asked for so many.      *)
NoRoom(s, bps) == [s EXCEPT !.stopped = TRUE, !.multiple = bps]

(* One turn of the loop on the locals s of a call.                         *)
DemapSymbol(s) ==
  LET bitmap == CASE s.counter = 0 -> 0
                  [] s.counter = 1 -> Head(s.maps)
                  [] OTHER         -> s.bitmap
      bps    == BitsPerSymbol(bitmap)
  IN  IF s.stopped \/ s.symbols = << >> THEN s
      ELSE IF s.counter = 1 /\ s.maps = << >>
      THEN [s EXCEPT !.stopped = TRUE, !.need_bitmap = 1]
      ELSE IF s.room < bps
      THEN NoRoom(s, bps)
      ELSE [s EXCEPT
              !.bitmap = bitmap,
              !.need_bitmap = NeedBitmap(s),
              !.maps = IF s.counter = 1 THEN Tail(@) ELSE @,
              !.counter = (s.counter + 1) % frame_size,
              !.room = @ - bps,
              !.symbols = Tail(@),
              !.bits = @ \o Demodulated(Head(s.symbols), bitmap)]

Bit == [frame : Nat, pos : Nat, map : Nat, power : Nat]

DemapLocals ==
  [bitmap : Nat, need_bitmap : {0, 1}, multiple : Nat, counter : Nat,
   maps : Seq(Nat), symbols : Seq(Symbol), room : Nat, bits : Seq(Bit),
   stopped : BOOLEAN]

DemapCall(n) ==
  Turns([s \in DemapLocals |-> DemapSymbol(s)],
        [bitmap |-> demapper.bitmap, need_bitmap |-> demapper.need_bitmap,
         multiple |-> 1, counter |-> demapper.counter, maps |-> buf["map"],
         symbols |-> buf["symbols"], room |-> n, bits |-> << >>,
         stopped |-> FALSE],
        Len(buf["symbols"]))

Demap(n) ==
  /\ n % demapper.multiple = 0
  /\ buf["symbols"] # << >>
  /\ Len(buf["map"]) >= demapper.need_bitmap
  /\ \E s \in {DemapCall(n)} :
         /\ demapper' = [bitmap |-> s.bitmap, need_bitmap |-> s.need_bitmap,
                         multiple |-> s.multiple, counter |-> s.counter]
         /\ buf' = [buf EXCEPT !["symbols"] = s.symbols,
                               !["map"] = s.maps,
                               !["data"] = @ \o s.bits]
  /\ UNCHANGED <<load, decoded, power, ref_bitcount, ber, d_produced, out>>

-----------------------------------------------------------------------------
(* reference_data_source_02_ib.                                            *)
SetReference ==
  /\ buf["ref"] # << >>
  /\ BitCount(buf["ref"][1]) # ref_bitcount
  /\ ref_bitcount' = BitCount(buf["ref"][1])
  /\ UNCHANGED <<load, decoded, buf, power, demapper, ber, d_produced, out>>

Reference(runs) ==
  /\ runs <= Len(buf["ref"])
  /\ BitCount(buf["ref"][1]) = ref_bitcount
  /\ LET n == EqualCount([k \in 1..runs |-> BitCount(buf["ref"][k])], runs,
                         ref_bitcount)
     IN  buf' = [buf EXCEPT
           !["ref"] = Drop(@, n),
           !["refdata"] = @ \o FlattenSeq([k \in 1..n |->
                                 DataBits(buf["ref"][k], ref_bitcount)])]
  /\ UNCHANGED <<load, decoded, power, demapper, ref_bitcount, ber, d_produced, out>>

-----------------------------------------------------------------------------
(* ber_measurement.  A bit comes out right if it is compared with itself,  *)
(* was demapped and scaled as sent and was not inverted on the way.        *)
Errors(bit, reference) ==
  IF /\ bit.frame = reference.frame
     /\ bit.pos = reference.pos
     /\ bit.map = bit.frame
     /\ bit.power = bit.frame
     /\ <<bit.frame, bit.pos>> \notin Wrong
  THEN 0 ELSE 1

(* Defect: a bit enters the window and none leaves it.                     *)
SlideGrowing(s) ==
  LET enters == s.inputs[sliding_window_length + 1]
      rate   == [s.rate EXCEPT !.errs = @ + enters]
  IN  [rate |-> rate, inputs |-> Tail(s.inputs), rates |-> Append(s.rates, rate)]

(* The window slides by one bit.  Every bit of a demapper is 0 or 1, so    *)
(* that one leaves the number of bits and one enters it.                   *)
Slide(s) ==
  LET leaves == s.inputs[1]
      enters == s.inputs[sliding_window_length + 1]
      rate   == [bits |-> s.rate.bits - 1 + 1,
                 errs |-> s.rate.errs - leaves + enters]
  IN  [rate |-> rate, inputs |-> Tail(s.inputs), rates |-> Append(s.rates, rate)]

SlideLocals == [rate : Rate, inputs : Seq({0, 1}), rates : Seq(Rate)]

BerMeasurement(n) ==
  /\ n <= Len(buf["data"])
  /\ n <= Len(buf["refdata"])
  /\ LET inputs == ber.history
                     \o [k \in 1..n |-> Errors(buf["data"][k], buf["refdata"][k])]
         call   == [rate |-> ber.rate, inputs |-> inputs, rates |-> << >>]
     IN  \E s \in {Turns([s \in SlideLocals |-> Slide(s)], call, n)} :
           /\ ber' = [rate |-> s.rate, history |-> s.inputs]
           /\ buf' = [buf EXCEPT !["data"] = Drop(@, n),
                                 !["refdata"] = Drop(@, n),
                                 !["rates"] = @ \o s.rates]
  /\ UNCHANGED <<load, decoded, power, demapper, ref_bitcount, d_produced, out>>

(* dynamic_trigger_ib: a trigger at the last of in[0] output items.        *)

(* Defect: the items of the frames before are counted.                     *)
TriggerTurnCounting(s) ==
  LET n    == Min({s.room, BitCount(s.in[1]) - s.produced})
      last == s.produced + n = BitCount(s.in[1])
  IN  IF s.room = 0 \/ s.in = << >> THEN s
      ELSE [in       |-> IF last THEN Tail(s.in) ELSE s.in,
            room     |-> s.room - n,
            produced |-> s.produced + n,
            out      |-> s.out \o [k \in 1..n |-> last /\ k = n]]

TriggerTurn(s) ==
  LET n    == Min({s.room, BitCount(s.in[1]) - s.produced})
      last == s.produced + n = BitCount(s.in[1])
  IN  IF s.room = 0 \/ s.in = << >> THEN s
      ELSE [in       |-> IF last THEN Tail(s.in) ELSE s.in,
            room     |-> s.room - n,
            produced |-> IF last THEN 0 ELSE s.produced + n,
            out      |-> s.out \o [k \in 1..n |-> last /\ k = n]]

TriggerLocals ==
  [in : Seq(Nat), room : Nat, produced : Nat, out : Seq(BOOLEAN)]

TriggerCall(n) ==
  Turns([s \in TriggerLocals |-> TriggerTurn(s)],
        [in |-> buf["count"], room |-> n, produced |-> d_produced, out |-> << >>],
        n)

DynamicTrigger(n) ==
  /\ buf["count"] # << >>
  /\ \E s \in {TriggerCall(n)} :
       /\ d_produced' = s.produced
       /\ buf' = [buf EXCEPT !["count"] = s.in,
                             !["trigger"] = @ \o s.out]
  /\ UNCHANGED <<load, decoded, power, demapper, ref_bitcount, ber, out>>

(* vector_sampler for single items: it stops before the trigger for which  *)
(* the output has no room.                                                 *)
Triggers(i) == {k \in 1..i : buf["trigger"][k]}

Sampler(n) ==
  /\ buf["rates"] # << >>
  /\ buf["trigger"] # << >>
  /\ LET i_max == Min({Len(buf["rates"]), Len(buf["trigger"])})
         done  == Max({i \in 0..i_max : Cardinality(Triggers(i)) <= n})
     IN  /\ buf' = [buf EXCEPT !["rates"] = Drop(@, done),
                               !["trigger"] = Drop(@, done)]
         /\ out' = out \o [k \in 1..Cardinality(Triggers(done)) |->
                             buf["rates"][Min({i \in 1..done :
                                                 Cardinality(Triggers(i)) = k})]]
  /\ UNCHANGED <<load, decoded, power, demapper, ref_bitcount, ber, d_produced>>

-----------------------------------------------------------------------------
Calls == 1..CallMax

PowerDeallocator == \E n \in Calls : Power(n)
Demapper == \E n \in Calls : Demap(n)
ReferenceSource == SetReference \/ \E n \in Calls : Reference(n)
Measurement == \E n \in Calls : BerMeasurement(n)
Trigger == \E n \in Calls : DynamicTrigger(n)
BerSampler == \E n \in Calls : Sampler(n)

Blocks ==
  \/ DecodeId
  \/ PowerDeallocator
  \/ Demapper
  \/ ReferenceSource
  \/ Measurement
  \/ Trigger
  \/ BerSampler

Next == (\E l \in Loads : RecvFrame(l)) \/ Blocks

Spec == Init /\ [][Next]_vars

(* The scheduler does not rest while a block whose forecast is met can do  *)
(* something.  Frames need not arrive.                                     *)
FairSpec == Spec /\ WF_vars(Blocks)

-----------------------------------------------------------------------------
(* Properties.                                                             *)

(* Whatever chunks the blocks are called with, ber_measurement compares    *)
(* each bit with the reference of the same frame and place, and the bit    *)
(* was demapped with this frame's bit loading and scaled with its power.   *)
ComparedInStep ==
  \A k \in 1..Min({Len(buf["data"]), Len(buf["refdata"])}) :
    LET bit == buf["data"][k]
        reference == buf["refdata"][k]
    IN  /\ bit.frame = reference.frame
        /\ bit.pos = reference.pos
        /\ bit.map = bit.frame
        /\ bit.power = bit.frame

(* The bits received up to the end of a frame, oldest first.               *)
BitsUpTo(f) ==
  FlattenSeq([g \in 1..f |-> [b \in 1..BitCount(g) |-> <<g, b>>]])

(* The rate published for a frame is that of the window that ends with the *)
(* frame's last bit, whatever was measured of the next frames by then.     *)
RatePerFrame ==
  \A f \in 1..Len(out) :
    LET bits  == BitsUpTo(f)
        first == Max({1, Len(bits) - sliding_window_length + 1})
    IN  out[f] = [bits |-> sliding_window_length,
                  errs |-> Cardinality({k \in first..Len(bits) : bits[k] \in Wrong})]

(* Every frame's rate is published: a demapper without room for a symbol,  *)
(* a reference with another bit count and a trigger in the middle of a     *)
(* frame all go on, none of them waiting for the next frame.               *)
RatePublished ==
  \A f \in 1..FrameMax : (Len(load) >= f) ~> (Len(out) >= f)
=============================================================================
