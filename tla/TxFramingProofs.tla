-------------------------- MODULE TxFramingProofs --------------------------
(***************************************************************************)
(* The transmitter's framing for every frame size, number of subcarriers   *)
(* and bit loading, however the blocks are called and however many frames  *)
(* are sent.                                                               *)
(*                                                                         *)
(* Bits, control items and symbols are numbered from the first one sent.   *)
(* The multiplexer takes the n-th id bit or the n-th payload bit where the *)
(* control says so for the n-th time; that these are the bits of the frame *)
(* the control was made for is counting, and so is that the mapper cuts    *)
(* the multiplexed bits where the frames' symbols end.                     *)
(***************************************************************************)
EXTENDS TxFraming, BasicLemmas

(* The payload bits and the control of the frames with these loads, all of *)
(* them, and how many those of the first f frames are.                     *)
DataBit == [kind : {"data"}, frame : Nat, pos : Nat]

FrameBits(l) == [f \in 1..Len(l) |-> DataBits(f, l[f] * (frame_size - 1))]

AllBits(l) == Joined(FrameBits(l), Len(l))

At(l, f) == End(FrameBits(l), f)

FrameCtrl(l) == [f \in 1..Len(l) |-> CtrlStream(l[f] * (frame_size - 1))]

AllCtrl(l) == Joined(FrameCtrl(l), Len(l))

CtrlAt(l, f) == End(FrameCtrl(l), f)

(* How many of the first n bits are taken from this input.                 *)
Inputs(l, input, n) == CountOf(AllCtrl(l), input, n)

(* What the streams carry: the n-th frame, id bit, multiplexed bit and     *)
(* symbol.                                                                 *)
IdAt ==
  [n \in Nat \ {0} |-> [kind |-> "id", frame |-> ((n - 1) \div dsubc) + 1,
                        pos |-> ((n - 1) % dsubc) + 1]]

MuxedAt(l) ==
  [n \in Nat \ {0} |-> IF AllCtrl(l)[n] = 0 THEN IdAt[Inputs(l, 0, n)]
                       ELSE AllBits(l)[Inputs(l, 1, n)]]

FrameOf(n) == ((n - 1) \div frame_size) + 1

SymbolOf(l, f, j) ==
  [map  |-> IF j = 0 THEN 0 ELSE f,
   bits |-> IF j = 0 THEN IdBits(f)
            ELSE SubSeq(DataBits(f, l[f] * (frame_size - 1)),
                        (j - 1) * l[f] + 1, j * l[f])]

SymbolAt(l) ==
  [n \in Nat \ {0} |-> SymbolOf(l, FrameOf(n), (n - 1) % frame_size)]

SentAt(l) ==
  [n \in Nat \ {0} |-> [map   |-> SymbolAt(l)[n].map,
                        bits  |-> SymbolAt(l)[n].bits,
                        power |-> FrameOf(n)]]

SentSymbol == [map : Nat, bits : Seq(Bit), power : Nat]

(* The bits of the first c symbols.                                        *)
BitsBefore(l, c) ==
  CtrlAt(l, c \div frame_size)
    + (IF c % frame_size = 0 THEN 0
       ELSE dsubc + ((c % frame_size) - 1) * l[(c \div frame_size) + 1])

-----------------------------------------------------------------------------
(* The inductive invariant.                                                *)

(* Frames whose item one of the five streams has handed on.                *)
Taken(s) == Len(load) - Len(buf[s])

(* Bits multiplexed and symbols mapped.                                    *)
Muxed == CtrlAt(load, Taken("count")) - Len(buf["ctrl"])
Mapped == Len(out) + Len(buf["symbols"])

FrameStreams ==
  \A s \in {"id", "ref", "count", "map", "pow"} :
    Taken(s) \in Nat /\ Segment(buf[s], FrameAt, Taken(s))

CtrlItems == Muxed \in Nat /\ Segment(buf["ctrl"], AllCtrl(load), Muxed)

IdStream ==
  /\ Inputs(load, 0, Muxed) + Len(buf["idbits"]) = Taken("id") * dsubc
  /\ Segment(buf["idbits"], IdAt, Inputs(load, 0, Muxed))

DataStream ==
  /\ Inputs(load, 1, Muxed) + Len(buf["data"]) = At(load, Taken("ref"))
  /\ Segment(buf["data"], AllBits(load), Inputs(load, 1, Muxed))

BitStream ==
  /\ BitsBefore(load, Mapped) + Len(buf["bits"]) = Muxed
  /\ Segment(buf["bits"], MuxedAt(load), BitsBefore(load, Mapped))

(* The mapper after c symbols and m bit loadings.                          *)
AfterSymbols(l, c, m, s) ==
  /\ c <= Len(l) * frame_size
  /\ s.counter = c % frame_size
  /\ IF s.counter \in {0, 1} THEN m = c \div frame_size
     ELSE /\ m = (c \div frame_size) + 1
          /\ s.bitmap = m
          /\ s.need_bits = l[m]

BitmapHeld == AfterSymbols(load, Mapped, Taken("map"), mapper)

SymbolStream ==
  /\ buf["symbols"] \in Seq(Symbol)
  /\ Segment(buf["symbols"], SymbolAt(load), Len(out))

PowerHeld ==
  /\ power.hold = Taken("pow")
  /\ Len(out) = Taken("pow") * frame_size - power.counter

Sent == out \in Seq(SentSymbol) /\ Segment(out, SentAt(load), 0)

IndInv ==
  /\ TypeOK
  /\ FrameStreams
  /\ CtrlItems
  /\ IdStream
  /\ DataStream
  /\ BitStream
  /\ BitmapHeld
  /\ SymbolStream
  /\ PowerHeld
  /\ Sent

-----------------------------------------------------------------------------
(* The frames' bits.                                                       *)

LEMMA Sizes ==
  /\ frame_size \in Nat /\ frame_size >= 2 /\ frame_size - 1 \in Nat \ {0}
  /\ dsubc \in Nat \ {0}
  /\ Loads \subseteq Nat \ {0}
BY FrameAssumption, TxAssumption

LEMMA FrameBitsType ==
  ASSUME NEW l \in Seq(Loads)
  PROVE  /\ Len(l) \in Nat
         /\ FrameBits(l) \in [1..Len(l) -> Seq(DataBit)]
         /\ \A f \in 1..Len(l) :
              /\ l[f] \in Nat \ {0}
              /\ l[f] * (frame_size - 1) \in Nat \ {0}
              /\ FrameBits(l)[f] = DataBits(f, l[f] * (frame_size - 1))
              /\ Len(FrameBits(l)[f]) = l[f] * (frame_size - 1)
<1>1. Len(l) \in Nat
  BY LenProperties
<1>2. ASSUME NEW f \in 1..Len(l)
      PROVE  /\ l[f] \in Nat \ {0}
             /\ l[f] * (frame_size - 1) \in Nat \ {0}
             /\ DataBits(f, l[f] * (frame_size - 1)) \in Seq(DataBit)
             /\ Len(DataBits(f, l[f] * (frame_size - 1))) = l[f] * (frame_size - 1)
  <2>1. l[f] \in Loads
    BY ElementOfSeq
  <2>2. l[f] \in Nat \ {0}
    BY <2>1, Sizes
  <2> DEFINE b == l[f]
             n == b * (frame_size - 1)
  <2>3. n \in Nat \ {0}
    <3>1. b \in Nat /\ 1 <= b /\ frame_size - 1 \in Nat /\ 1 <= frame_size - 1
      BY <2>2, Sizes
    <3> HIDE DEF b
    <3> DEFINE d == frame_size - 1
    <3>2. d \in Nat /\ 1 <= d
      BY <3>1
    <3> HIDE DEF d
    <3>3. b * 1 <= b * d /\ b * d \in Nat /\ b * 1 = b
      BY <3>1, <3>2, TimesMonotonic
    <3>4. b * d >= 1
      BY <3>1, <3>3
    <3> QED
      BY <3>3, <3>4 DEF d
  <2> HIDE DEF n
  <2>4. DataBits(f, n) \in Seq(DataBit) /\ Len(DataBits(f, n)) = n
    BY <1>1, <2>3 DEF DataBits, DataBit
  <2> QED
    BY <2>2, <2>3, <2>4 DEF n
<1> QED
  BY <1>1, <1>2 DEF FrameBits

LEMMA AtSucc ==
  ASSUME NEW l \in Seq(Loads), NEW f \in 0..(Len(l) - 1)
  PROVE  /\ At(l, f) \in Nat /\ At(l, f + 1) \in Nat
         /\ At(l, f + 1) = At(l, f) + l[f + 1] * (frame_size - 1)
         /\ At(l, f) < At(l, f + 1)
<1>1. /\ Len(l) \in Nat /\ FrameBits(l) \in [1..Len(l) -> Seq(DataBit)]
      /\ f + 1 \in 1..Len(l)
  BY FrameBitsType
<1>2. /\ l[f + 1] * (frame_size - 1) \in Nat \ {0}
      /\ Len(FrameBits(l)[f + 1]) = l[f + 1] * (frame_size - 1)
  BY <1>1, FrameBitsType
<1> DEFINE s == FrameBits(l)
           n == Len(l)
<1>3. n \in Nat /\ s \in [1..n -> Seq(DataBit)] /\ f \in 0..(n - 1)
  BY <1>1
<1> HIDE DEF s, n
<1>4. End(s, f) \in Nat /\ End(s, f + 1) = End(s, f) + Len(s[f + 1])
  BY SMTT(30), <1>3, JoinedSucc
<1> QED
  BY <1>2, <1>4 DEF s, n, At

LEMMA AtNone == \A l : At(l, 0) = 0
BY JoinedNone DEF At

LEMMA AtMonotonic ==
  ASSUME NEW l \in Seq(Loads), NEW f \in 0..Len(l), NEW g \in f..Len(l)
  PROVE  /\ At(l, f) \in Nat /\ At(l, g) \in Nat
         /\ At(l, f) <= At(l, g)
         /\ f < g => At(l, f) < At(l, g)
<1> DEFINE s == FrameBits(l)
           n == Len(l)
<1>1. n \in Nat /\ s \in [1..n -> Seq(DataBit)] /\ f \in 0..n /\ g \in f..n
  BY FrameBitsType
<1> HIDE DEF s, n
<1>2. g \in 0..n
  BY <1>1
<1>3. End(s, f) \in Nat /\ End(s, g) \in Nat
  BY <1>1, <1>2, JoinedType
<1>4. End(s, f) <= End(s, g)
  BY <1>1, JoinedPrefix
<1>5. ASSUME f < g PROVE End(s, f) < End(s, g)
  <2>1. f \in 0..(n - 1) /\ f + 1 \in 0..n /\ g \in (f + 1)..n
    BY <1>1, <1>5
  <2>2. At(l, f) < At(l, f + 1) /\ At(l, f + 1) \in Nat
    BY <2>1, AtSucc DEF n
  <2>3. End(s, f + 1) <= End(s, g)
    BY <1>1, <2>1, JoinedPrefix
  <2> QED
    BY <1>3, <2>2, <2>3 DEF At, s
<1> QED
  BY <1>3, <1>4, <1>5 DEF At, s

LEMMA BitAt ==
  ASSUME NEW l \in Seq(Loads), NEW f \in 0..(Len(l) - 1),
         NEW b \in 1..(l[f + 1] * (frame_size - 1))
  PROVE  /\ AllBits(l)[At(l, f) + b] = [kind |-> "data", frame |-> f + 1, pos |-> b]
         /\ At(l, f) + b \in 1..At(l, Len(l))
<1> DEFINE s == FrameBits(l)
           n == Len(l)
<1>1. n \in Nat /\ s \in [1..n -> Seq(DataBit)] /\ f \in 0..(n - 1)
      /\ f + 1 \in 1..n /\ n \in (f + 1)..n
  BY FrameBitsType
<1>2. s[f + 1] = DataBits(f + 1, l[f + 1] * (frame_size - 1))
      /\ Len(s[f + 1]) = l[f + 1] * (frame_size - 1)
  BY <1>1, FrameBitsType
<1>3. b \in 1..Len(s[f + 1])
  BY <1>2
<1>4. s[f + 1][b] = [kind |-> "data", frame |-> f + 1, pos |-> b]
  BY <1>2 DEF DataBits
<1> HIDE DEF s, n
<1>5. Joined(s, n)[End(s, f) + b] = s[f + 1][b] /\ End(s, f) + b \in 1..End(s, n)
  BY <1>1, <1>3, JoinedAt
<1> QED
  BY <1>4, <1>5 DEF AllBits, At, s, n

(* A further frame leaves the bits of the others where they are.           *)
LEMMA Grow ==
  ASSUME NEW l \in Seq(Loads), NEW x \in Loads
  PROVE  /\ Append(l, x) \in Seq(Loads)
         /\ Len(Append(l, x)) = Len(l) + 1
         /\ \A f \in 1..Len(l) : Append(l, x)[f] = l[f]
         /\ \A f \in 0..Len(l) : At(Append(l, x), f) = At(l, f)
         /\ \A n \in 1..At(l, Len(l)) : AllBits(Append(l, x))[n] = AllBits(l)[n]
<1> DEFINE m == Append(l, x)
           n == Len(l)
<1>1. /\ m \in Seq(Loads) /\ Len(m) = n + 1 /\ n \in Nat
      /\ \A f \in 1..n : m[f] = l[f]
  BY AppendProperties, LenProperties
<1> HIDE DEF m
<1>2. \A f \in 1..n : FrameBits(m)[f] = FrameBits(l)[f]
  BY <1>1 DEF FrameBits
<1>3. ASSUME NEW f \in 0..n
      PROVE  Joined(FrameBits(m), f) = Joined(FrameBits(l), f)
             /\ End(FrameBits(m), f) = End(FrameBits(l), f)
  <2>1. \A g \in 1..f : FrameBits(m)[g] = FrameBits(l)[g]
    BY <1>1, <1>2
  <2> QED
    BY <2>1, JoinedSame
<1>4. \A k \in 1..End(FrameBits(l), n) : Joined(FrameBits(m), n + 1)[k] = Joined(FrameBits(l), n)[k]
  <2> DEFINE s == FrameBits(m)
             e == n + 1
  <2>1. e \in Nat /\ s \in [1..e -> Seq(DataBit)] /\ n \in 0..e /\ e \in n..e
    BY <1>1, FrameBitsType
  <2> HIDE DEF s, e
  <2>2. \A k \in 1..End(s, n) : Joined(s, e)[k] = Joined(s, n)[k]
    BY ZenonT(60), <2>1, JoinedPrefix
  <2>3. n \in 0..n
    BY <1>1
  <2> QED
    BY <1>3, <2>2, <2>3 DEF s, e
<1> QED
  BY <1>1, <1>3, <1>4 DEF At, AllBits, m

-----------------------------------------------------------------------------
(* The frames' control: dsubc zeros and then a one for each bit.           *)

LEMMA FrameCtrlType ==
  ASSUME NEW l \in Seq(Loads)
  PROVE  /\ Len(l) \in Nat
         /\ FrameCtrl(l) \in [1..Len(l) -> Seq({0, 1})]
         /\ \A f \in 1..Len(l) :
              LET w == l[f] * (frame_size - 1)
              IN  /\ w \in Nat
                  /\ FrameCtrl(l)[f] = CtrlStream(w)
                  /\ Len(FrameCtrl(l)[f]) = dsubc + w
                  /\ \A o \in 1..dsubc : FrameCtrl(l)[f][o] = 0
                  /\ \A o \in 1..w : FrameCtrl(l)[f][dsubc + o] = 1
<1>1. Len(l) \in Nat
  BY LenProperties
<1>2. ASSUME NEW w \in Nat
      PROVE  /\ CtrlStream(w) \in Seq({0, 1})
             /\ Len(CtrlStream(w)) = dsubc + w
             /\ \A o \in 1..dsubc : CtrlStream(w)[o] = 0
             /\ \A o \in 1..w : CtrlStream(w)[dsubc + o] = 1
  <2> DEFINE d == dsubc
             p == [b \in 1..d |-> 0]
             q == [b \in 1..w |-> 1]
  <2>1. d \in Nat
    BY Sizes
  <2>2. p \in Seq({0, 1}) /\ Len(p) = d /\ q \in Seq({0, 1}) /\ Len(q) = w
    BY <2>1
  <2>3. (\A o \in 1..d : p[o] = 0) /\ (\A o \in 1..w : q[o] = 1)
    OBVIOUS
  <2> HIDE DEF p, q, d
  <2>4. /\ p \o q \in Seq({0, 1}) /\ Len(p \o q) = Len(p) + Len(q)
        /\ \A k \in 1..(Len(p) + Len(q)) :
             (p \o q)[k] = IF k <= Len(p) THEN p[k] ELSE q[k - Len(p)]
    BY <2>2, ConcatProperties
  <2>5. ASSUME NEW o \in 1..d PROVE (p \o q)[o] = 0
    <3>1. o \in 1..(Len(p) + Len(q)) /\ o <= Len(p)
      BY <2>1, <2>2
    <3> QED
      BY <2>3, <2>4, <3>1
  <2>6. ASSUME NEW o \in 1..w PROVE (p \o q)[d + o] = 1
    <3>1. d + o \in 1..(Len(p) + Len(q)) /\ ~(d + o <= Len(p)) /\ (d + o) - Len(p) = o
      BY <2>1, <2>2
    <3> QED
      BY <2>3, <2>4, <3>1
  <2>7. CtrlStream(w) = p \o q
    BY DEF CtrlStream, p, q, d
  <2> QED
    BY <2>2, <2>4, <2>5, <2>6, <2>7 DEF d
<1>3. ASSUME NEW f \in 1..Len(l)
      PROVE  FrameCtrl(l)[f] = CtrlStream(l[f] * (frame_size - 1))
             /\ l[f] * (frame_size - 1) \in Nat
  BY FrameBitsType DEF FrameCtrl
<1>4. FrameCtrl(l) \in [1..Len(l) -> Seq({0, 1})]
  BY <1>2, <1>3 DEF FrameCtrl
<1>5. ASSUME NEW f \in 1..Len(l)
      PROVE  LET w == l[f] * (frame_size - 1)
             IN  /\ w \in Nat
                 /\ FrameCtrl(l)[f] = CtrlStream(w)
                 /\ Len(FrameCtrl(l)[f]) = dsubc + w
                 /\ \A o \in 1..dsubc : FrameCtrl(l)[f][o] = 0
                 /\ \A o \in 1..w : FrameCtrl(l)[f][dsubc + o] = 1
  <2> DEFINE w == l[f] * (frame_size - 1)
             c == FrameCtrl(l)[f]
  <2>1. w \in Nat /\ c = CtrlStream(w)
    BY <1>3
  <2> HIDE DEF w, c
  <2>2. /\ Len(c) = dsubc + w
        /\ \A o \in 1..dsubc : c[o] = 0
        /\ \A o \in 1..w : c[dsubc + o] = 1
    BY <1>2, <2>1
  <2> QED
    BY <2>1, <2>2 DEF w, c
<1> QED
  BY <1>1, <1>4, <1>5

LEMMA CtrlAtSucc ==
  ASSUME NEW l \in Seq(Loads), NEW f \in 0..(Len(l) - 1)
  PROVE  /\ CtrlAt(l, f) \in Nat /\ CtrlAt(l, f + 1) \in Nat
         /\ CtrlAt(l, f + 1) = CtrlAt(l, f) + dsubc + l[f + 1] * (frame_size - 1)
<1> DEFINE s == FrameCtrl(l)
           n == Len(l)
           w == l[f + 1] * (frame_size - 1)
<1>1. n \in Nat /\ s \in [1..n -> Seq({0, 1})] /\ f \in 0..(n - 1) /\ f + 1 \in 1..n
  BY FrameCtrlType
<1>2. w \in Nat /\ Len(s[f + 1]) = dsubc + w
  BY <1>1, FrameCtrlType
<1> HIDE DEF s, n, w
<1>3. End(s, f) \in Nat /\ End(s, f + 1) = End(s, f) + Len(s[f + 1])
  BY SMTT(30), <1>1, JoinedSucc
<1>4. dsubc \in Nat
  BY Sizes
<1>5. End(s, f + 1) = End(s, f) + dsubc + w /\ End(s, f + 1) \in Nat
  BY <1>2, <1>3, <1>4
<1> QED
  BY <1>3, <1>5 DEF s, n, w, CtrlAt

LEMMA CtrlAtNone == \A l : CtrlAt(l, 0) = 0
BY JoinedNone DEF CtrlAt

LEMMA CtrlAtMonotonic ==
  ASSUME NEW l \in Seq(Loads), NEW f \in 0..Len(l), NEW g \in f..Len(l)
  PROVE  CtrlAt(l, f) \in Nat /\ CtrlAt(l, g) \in Nat /\ CtrlAt(l, f) <= CtrlAt(l, g)
<1> DEFINE s == FrameCtrl(l)
           n == Len(l)
<1>1. n \in Nat /\ s \in [1..n -> Seq({0, 1})] /\ f \in 0..n /\ g \in f..n
  BY FrameCtrlType
<1> HIDE DEF s, n
<1>2. g \in 0..n
  BY <1>1
<1>3. End(s, f) \in Nat /\ End(s, g) \in Nat
  BY <1>1, <1>2, JoinedType
<1>4. End(s, f) <= End(s, g)
  BY <1>1, JoinedPrefix
<1> QED
  BY <1>3, <1>4 DEF CtrlAt, s

LEMMA CtrlItem ==
  ASSUME NEW l \in Seq(Loads), NEW f \in 0..(Len(l) - 1)
  PROVE  /\ \A o \in 1..dsubc : AllCtrl(l)[CtrlAt(l, f) + o] = 0
         /\ \A o \in 1..(l[f + 1] * (frame_size - 1)) :
              AllCtrl(l)[(CtrlAt(l, f) + dsubc) + o] = 1
<1> DEFINE s == FrameCtrl(l)
           n == Len(l)
           w == l[f + 1] * (frame_size - 1)
           d == dsubc
<1>1. n \in Nat /\ s \in [1..n -> Seq({0, 1})] /\ f \in 0..(n - 1)
      /\ f + 1 \in 1..n /\ n \in (f + 1)..n
  BY FrameCtrlType
<1>2. /\ w \in Nat /\ Len(s[f + 1]) = d + w
      /\ \A o \in 1..d : s[f + 1][o] = 0
      /\ \A o \in 1..w : s[f + 1][d + o] = 1
  BY <1>1, FrameCtrlType
<1>3. d \in Nat
  BY Sizes
<1> HIDE DEF s, n, w, d
<1>4. ASSUME NEW b \in 1..(d + w) PROVE Joined(s, n)[End(s, f) + b] = s[f + 1][b]
  <2>1. b \in 1..Len(s[f + 1])
    BY <1>2
  <2>2. Joined(s, n)[End(s, f) + b] = s[f + 1][b] /\ End(s, f) + b \in 1..End(s, n)
    BY <1>1, <2>1, JoinedAt
  <2> QED
    BY <2>2
<1>5. ASSUME NEW o \in 1..d PROVE Joined(s, n)[End(s, f) + o] = 0
  <2>1. o \in 1..(d + w)
    BY <1>2, <1>3
  <2> QED
    BY <1>2, <1>4, <2>1
<1>6. ASSUME NEW o \in 1..w PROVE Joined(s, n)[(End(s, f) + d) + o] = 1
  <2>1. d + o \in 1..(d + w)
    BY <1>2, <1>3
  <2>2. End(s, f) \in Nat
    BY <1>1, JoinedSucc
  <2>3. (End(s, f) + d) + o = End(s, f) + (d + o)
    BY <1>3, <2>2
  <2> QED
    BY <1>2, <1>4, <2>1, <2>3
<1> QED
  BY <1>5, <1>6 DEF s, n, w, d, AllCtrl, CtrlAt

-----------------------------------------------------------------------------
(* What the multiplexer has taken from its inputs at the frames' ends, and *)
(* which bits those of a frame are.                                        *)

InputsFrom(l, p, a, b, w) ==
  /\ a \in Nat /\ b \in Nat
  /\ \A o \in 0..dsubc : Inputs(l, 0, p + o) = a + o /\ Inputs(l, 1, p + o) = b
  /\ \A o \in 0..w : /\ Inputs(l, 0, (p + dsubc) + o) = a + dsubc
                     /\ Inputs(l, 1, (p + dsubc) + o) = b + o

LEMMA FrameInputs ==
  ASSUME NEW l \in Seq(Loads), NEW f \in 0..(Len(l) - 1)
  PROVE  InputsFrom(l, CtrlAt(l, f), Inputs(l, 0, CtrlAt(l, f)),
                    Inputs(l, 1, CtrlAt(l, f)), l[f + 1] * (frame_size - 1))
<1> DEFINE x == AllCtrl(l)
           p == CtrlAt(l, f)
           w == l[f + 1] * (frame_size - 1)
           d == dsubc
<1>1. p \in Nat /\ d \in Nat
  BY CtrlAtSucc, Sizes
<1>2. w \in Nat
  <2>1. f + 1 \in 1..Len(l)
    BY FrameCtrlType
  <2> QED
    BY <2>1, FrameCtrlType
<1>3. /\ \A o \in 1..d : x[p + o] = 0
      /\ \A o \in 1..w : x[(p + d) + o] = 1
  BY CtrlItem
<1> HIDE DEF x, p, w, d
<1>4. ASSUME NEW v PROVE RunCounts(x, v, 0, p, d)
  <2>1. IsRunOf(x, 0, p, d)
    BY <1>3 DEF IsRunOf
  <2> QED
    BY <1>1, <2>1, CountRun
<1>5. ASSUME NEW v PROVE RunCounts(x, v, 1, p + d, w)
  <2> DEFINE q == p + d
  <2>1. q \in Nat /\ IsRunOf(x, 1, q, w)
    BY <1>1, <1>3 DEF IsRunOf
  <2> HIDE DEF q
  <2>2. RunCounts(x, v, 1, q, w)
    BY <1>2, <2>1, CountRun
  <2> QED
    BY <2>2 DEF q
<1> DEFINE a == CountOf(x, 0, p)
           b == CountOf(x, 1, p)
<1>6. a \in Nat /\ b \in Nat
  BY <1>1, CountSucc
<1>7. \A o \in 0..d : CountOf(x, 0, p + o) = a + o /\ CountOf(x, 1, p + o) = b
  <2>1. RunCounts(x, 0, 0, p, d) /\ RunCounts(x, 1, 0, p, d)
    BY <1>4
  <2> QED
    BY <1>6, <2>1 DEF RunCounts
<1>8. \A o \in 0..w : /\ CountOf(x, 0, (p + d) + o) = a + d
                      /\ CountOf(x, 1, (p + d) + o) = b + o
  <2>1. d \in 0..d
    BY <1>1
  <2>2. CountOf(x, 0, p + d) = a + d /\ CountOf(x, 1, p + d) = b
    BY <1>7, <2>1
  <2>3. RunCounts(x, 0, 1, p + d, w) /\ RunCounts(x, 1, 1, p + d, w)
    BY <1>5
  <2> HIDE DEF a, b
  <2> QED
    BY <1>1, <1>6, <2>2, <2>3 DEF RunCounts
<1> QED
  BY <1>6, <1>7, <1>8 DEF InputsFrom, Inputs, x, p, w, d

LEMMA InputsAt ==
  ASSUME NEW l \in Seq(Loads), NEW f \in 0..Len(l)
  PROVE  /\ Inputs(l, 0, CtrlAt(l, f)) = f * dsubc
         /\ Inputs(l, 1, CtrlAt(l, f)) = At(l, f)
<1> DEFINE n == Len(l)
           OK(h) == /\ Inputs(l, 0, CtrlAt(l, h)) = h * dsubc
                    /\ Inputs(l, 1, CtrlAt(l, h)) = At(l, h)
           T == {h \in 0..n : ~OK(h)}
<1>1. n \in Nat /\ dsubc \in Nat
  BY FrameCtrlType, Sizes
<1>2. 0 \notin T
  <2>1. CtrlAt(l, 0) = 0 /\ At(l, 0) = 0 /\ 0 * dsubc = 0
    BY <1>1, CtrlAtNone, AtNone
  <2>2. Inputs(l, 0, 0) = 0 /\ Inputs(l, 1, 0) = 0
    BY CountNone DEF Inputs
  <2> QED
    BY <2>1, <2>2
<1>3. ASSUME NEW h \in 0..(n - 1), h \notin T PROVE h + 1 \notin T
  <2> DEFINE p == CtrlAt(l, h)
             w == l[h + 1] * (frame_size - 1)
             a == Inputs(l, 0, p)
             b == Inputs(l, 1, p)
             d == dsubc
  <2>1. InputsFrom(l, p, a, b, w)
    BY FrameInputs
  <2>2. p \in Nat /\ CtrlAt(l, h + 1) = p + d + w
    BY CtrlAtSucc
  <2>3. At(l, h) \in Nat /\ At(l, h + 1) = At(l, h) + w
    BY AtSucc
  <2>4. w \in Nat
    <3>1. h + 1 \in 1..n
      BY <1>1
    <3> QED
      BY <3>1, FrameCtrlType
  <2>5. a = h * d /\ b = At(l, h)
    <3>1. h \in 0..n
      BY <1>1
    <3> QED
      BY <1>3, <3>1
  <2>6. (h + 1) * d = h * d + d
    BY <1>1
  <2> HIDE DEF p, w, a, b, d
  <2>7. w \in 0..w /\ p + d + w = (p + d) + w
    BY <2>4
  <2>8. /\ Inputs(l, 0, (p + d) + w) = a + d
        /\ Inputs(l, 1, (p + d) + w) = b + w
    BY <2>1, <2>7 DEF InputsFrom, d
  <2>9. OK(h + 1)
    BY <2>2, <2>3, <2>5, <2>6, <2>7, <2>8 DEF d
  <2> QED
    BY <2>9
<1>4. T = {}
  <2>1. T \in SUBSET (0..n)
    OBVIOUS
  <2> HIDE DEF T
  <2> QED
    BY <1>1, <1>2, <1>3, <2>1, NoFirst
<1> QED
  BY <1>4

LEMMA IdBitAt ==
  ASSUME NEW f \in Nat, NEW o \in 1..dsubc, NEW n, n = f * dsubc + o
  PROVE  IdAt[n] = [kind |-> "id", frame |-> f + 1, pos |-> o]
<1> DEFINE F == dsubc
           x == f * F
           r == o - 1
<1>1. F \in Nat \ {0} /\ x \in Nat /\ x = f * F /\ n = x + o
  BY Sizes
<1> HIDE DEF F, x
<1>2. o \in 1..F
  BY DEF F
<1>3. r \in 0..(F - 1) /\ n \in Nat \ {0} /\ n - 1 = x + r
  BY <1>1, <1>2
<1>4. IsItem(F, n, f, r)
  BY <1>1, <1>3, FrameNumberIs
<1>5. ((n - 1) \div F) + 1 = f + 1 /\ ((n - 1) % F) + 1 = o
  BY <1>2, <1>4 DEF IsItem
<1> QED
  BY <1>3, <1>5 DEF IdAt, F

(* The bits of a frame among the multiplexed.                              *)
LEMMA MuxedBits ==
  ASSUME NEW l \in Seq(Loads), NEW f \in 0..(Len(l) - 1)
  PROVE  /\ \A o \in 1..dsubc :
              MuxedAt(l)[CtrlAt(l, f) + o]
                = [kind |-> "id", frame |-> f + 1, pos |-> o]
         /\ \A o \in 1..(l[f + 1] * (frame_size - 1)) :
              MuxedAt(l)[(CtrlAt(l, f) + dsubc) + o]
                = [kind |-> "data", frame |-> f + 1, pos |-> o]
<1> DEFINE p == CtrlAt(l, f)
           w == l[f + 1] * (frame_size - 1)
           d == dsubc
           a == f * d
           b == At(l, f)
<1>1. p \in Nat /\ d \in Nat \ {0} /\ f \in Nat /\ Len(l) \in Nat
  BY CtrlAtSucc, Sizes, FrameCtrlType
<1>2. w \in Nat
  <2>1. f + 1 \in 1..Len(l)
    BY <1>1
  <2> QED
    BY <2>1, FrameCtrlType
<1>3. InputsFrom(l, p, a, b, w)
  <2>1. Inputs(l, 0, p) = a /\ Inputs(l, 1, p) = b
    <3>1. f \in 0..Len(l)
      BY <1>1
    <3> QED
      BY <3>1, InputsAt
  <2>2. InputsFrom(l, p, Inputs(l, 0, p), Inputs(l, 1, p), w)
    BY FrameInputs
  <2> HIDE DEF p, a, b, w
  <2> QED
    BY <2>1, <2>2
<1>4. /\ \A o \in 1..d : AllCtrl(l)[p + o] = 0
      /\ \A o \in 1..w : AllCtrl(l)[(p + d) + o] = 1
  BY CtrlItem
<1>5. ASSUME NEW o \in 1..d
      PROVE  MuxedAt(l)[p + o] = [kind |-> "id", frame |-> f + 1, pos |-> o]
  <2> DEFINE n == p + o
  <2>1. n \in Nat \ {0} /\ o \in 0..d
    BY <1>1
  <2>2. AllCtrl(l)[n] = 0 /\ Inputs(l, 0, n) = a + o
    BY <1>3, <1>4, <2>1 DEF InputsFrom
  <2> HIDE DEF n
  <2>3. MuxedAt(l)[n] = IdAt[Inputs(l, 0, n)]
    BY <2>1, <2>2 DEF MuxedAt
  <2>4. IdAt[a + o] = [kind |-> "id", frame |-> f + 1, pos |-> o]
    BY <1>1, IdBitAt
  <2> QED
    BY <2>2, <2>3, <2>4 DEF n
<1>6. ASSUME NEW o \in 1..w
      PROVE  MuxedAt(l)[(p + d) + o] = [kind |-> "data", frame |-> f + 1, pos |-> o]
  <2> DEFINE n == (p + d) + o
  <2>1. n \in Nat \ {0} /\ o \in 0..w
    <3> HIDE DEF p, w, d
    <3> QED
      BY <1>1, <1>2
  <2>2. AllCtrl(l)[n] = 1 /\ Inputs(l, 1, n) = b + o
    BY <1>3, <1>4, <2>1 DEF InputsFrom
  <2> HIDE DEF n
  <2>3. MuxedAt(l)[n] = AllBits(l)[Inputs(l, 1, n)]
    BY <2>1, <2>2 DEF MuxedAt
  <2>4. AllBits(l)[b + o] = [kind |-> "data", frame |-> f + 1, pos |-> o]
    BY BitAt
  <2> QED
    BY <2>2, <2>3, <2>4 DEF n
<1> QED
  BY <1>5, <1>6

-----------------------------------------------------------------------------
(* Where the symbols' bits begin and which they are.                       *)

(* Symbol c, from 0, is symbol r of frame q + 1.                           *)
LEMMA SymbolStart ==
  ASSUME NEW l \in Seq(Loads), NEW c \in Nat, c < Len(l) * frame_size,
         NEW q, NEW r, q = c \div frame_size, r = c % frame_size
  PROVE  /\ q \in 0..(Len(l) - 1) /\ q + 1 \in 1..Len(l)
         /\ r \in 0..(frame_size - 1)
         /\ l[q + 1] \in Nat \ {0}
         /\ CtrlAt(l, q) \in Nat
         /\ BitsBefore(l, c) \in Nat
         /\ BitsBefore(l, c)
              = CtrlAt(l, q) + (IF r = 0 THEN 0 ELSE dsubc + (r - 1) * l[q + 1])
         /\ BitsBefore(l, c + 1)
              = BitsBefore(l, c) + (IF r = 0 THEN dsubc ELSE l[q + 1])
         /\ r # 0 => /\ (r - 1) * l[q + 1] \in Nat
                     /\ r * l[q + 1] = (r - 1) * l[q + 1] + l[q + 1]
                     /\ r * l[q + 1] <= l[q + 1] * (frame_size - 1)
         /\ l[q + 1] * (frame_size - 1) \in Nat
<1> DEFINE F == frame_size
           n == Len(l)
           x == l[q + 1]
           y == (r - 1) * x
           z == x * (F - 1)
           d == dsubc
<1>1. F \in Nat /\ F >= 2 /\ F \in Nat \ {0} /\ n \in Nat /\ F - 1 \in Nat
      /\ d \in Nat
  BY Sizes, FrameBitsType
<1>2. c = F * q + r /\ q \in Nat /\ r \in 0..(F - 1)
  BY <1>1, DivMod
<1>3. q < n
  <2>1. n * F = F * n
    BY <1>1
  <2>2. F * q \in Nat
    BY <1>1, <1>2
  <2> DEFINE v == F * q
             w == F * n
  <2>3. c = v + r /\ v \in Nat /\ c < w /\ w \in Nat
    BY <1>1, <1>2, <2>1, <2>2
  <2> HIDE DEF v, w
  <2>4. v < w
    BY <1>2, <2>3
  <2> QED
    BY <1>1, <1>2, <2>4, TimesCancel DEF v, w
<1>4. q \in 0..(n - 1) /\ q + 1 \in 1..n
  BY <1>1, <1>2, <1>3
<1>5. x \in Nat \ {0}
  BY <1>4, FrameBitsType
<1>6. CtrlAt(l, q) \in Nat /\ CtrlAt(l, q + 1) = CtrlAt(l, q) + d + z
  BY <1>4, CtrlAtSucc
<1>7. z \in Nat /\ y \in Int
      /\ (r # 0 => y \in Nat /\ r * x = y + x /\ r * x <= z)
      /\ (r = F - 1 => y + x = z)
  <2> HIDE DEF x
  <2>1. z \in Nat /\ y \in Int
    BY <1>1, <1>2, <1>5
  <2>2. ASSUME r # 0 PROVE y \in Nat /\ r * x = y + x /\ r * x <= z
    <3>1. r - 1 \in Nat /\ r \in Nat /\ r <= F - 1
      BY <1>2, <2>2
    <3> DEFINE a == r - 1
    <3>2. y \in Nat
      <4>1. a \in Nat /\ y = a * x
        BY <3>1
      <4> HIDE DEF a, y
      <4> QED
        BY <1>5, <4>1
    <3>3. x * r <= x * (F - 1)
      BY <1>1, <1>5, <3>1, TimesMonotonic
    <3>4. y + x = x * r /\ r * x = x * r
      BY <1>2, <1>5
    <3> QED
      BY <3>2, <3>3, <3>4
  <2>3. ASSUME r = F - 1 PROVE y + x = z
    BY <1>1, <1>2, <1>5, <2>3
  <2> QED
    BY <2>1, <2>2, <2>3
<1>9. BitsBefore(l, c) = CtrlAt(l, q) + (IF r = 0 THEN 0 ELSE d + y)
  BY DEF BitsBefore
<1>10. IF r = F - 1
       THEN (c + 1) \div F = q + 1 /\ (c + 1) % F = 0
       ELSE (c + 1) \div F = q /\ (c + 1) % F = r + 1
  BY <1>1, DivModSucc
<1>11. BitsBefore(l, c + 1) = BitsBefore(l, c) + (IF r = 0 THEN d ELSE x)
  <2>1. CASE r = F - 1
    <3>1. BitsBefore(l, c + 1) = CtrlAt(l, q + 1) + 0
      BY <1>10, <2>1 DEF BitsBefore
    <3>2. r # 0
      BY <1>1, <2>1
    <3> HIDE DEF x, y, z, F, d
    <3> QED
      BY SMTT(30), <1>1, <1>5, <1>6, <1>7, <1>9, <2>1, <3>1, <3>2
  <2>2. CASE r # F - 1
    <3> DEFINE w == ((r + 1) - 1) * x
    <3>1. BitsBefore(l, c + 1) = CtrlAt(l, q) + (IF r + 1 = 0 THEN 0 ELSE d + w)
      BY <1>10, <2>2 DEF BitsBefore
    <3>2. w = y + x /\ r + 1 # 0 /\ w \in Nat
      <4>1. r \in Nat /\ r + 1 # 0 /\ (r + 1) - 1 = r
        BY <1>2
      <4> HIDE DEF x
      <4>2. w = y + x /\ w \in Nat
        BY <4>1, <1>5
      <4> QED
        BY <4>1, <4>2
    <3>3. CASE r = 0
      <4>1. w = 0
        <5> HIDE DEF x
        <5> QED
          BY <1>5, <3>3
      <4> HIDE DEF x, y, z, w, d
      <4> QED
        BY <1>1, <1>6, <1>9, <3>1, <3>2, <3>3, <4>1
    <3>4. CASE r # 0
      <4> HIDE DEF x, y, z, w, d
      <4> QED
        BY SMTT(30), <1>1, <1>5, <1>6, <1>7, <1>9, <3>1, <3>2, <3>4
    <3> QED
      BY <3>3, <3>4
  <2> QED
    BY <2>1, <2>2
<1>12. BitsBefore(l, c) \in Nat
  <2> HIDE DEF x, y, z, n, d
  <2> QED
    BY SMTT(30), <1>1, <1>5, <1>6, <1>7, <1>9
<1> QED
  BY <1>2, <1>4, <1>5, <1>6, <1>7, <1>9, <1>11, <1>12

(* The bits of a symbol are those that are multiplexed there.              *)
HasBits(l, symbol, a, n) ==
  /\ symbol.map \in Nat
  /\ symbol.bits \in Seq(Bit) /\ Len(symbol.bits) = n
  /\ \A b \in 1..n : symbol.bits[b] = MuxedAt(l)[a + b]
  /\ symbol = [map |-> symbol.map, bits |-> symbol.bits]

LEMMA SymbolBits ==
  ASSUME NEW l \in Seq(Loads), NEW c \in Nat, c < Len(l) * frame_size,
         NEW q, NEW r, q = c \div frame_size, r = c % frame_size
  PROVE  /\ SymbolAt(l)[c + 1] = SymbolOf(l, q + 1, r)
         /\ HasBits(l, SymbolOf(l, q + 1, r), BitsBefore(l, c),
                    IF r = 0 THEN dsubc ELSE l[q + 1])
<1> DEFINE f == q + 1
           x == l[f]
           y == (r - 1) * x
           z == x * (frame_size - 1)
           d == dsubc
           p == CtrlAt(l, q)
           s == SymbolOf(l, f, r)
<1>1. /\ q \in 0..(Len(l) - 1) /\ f \in 1..Len(l) /\ f \in Nat
      /\ r \in 0..(frame_size - 1)
      /\ x \in Nat \ {0} /\ p \in Nat /\ d \in Nat /\ z \in Nat
      /\ BitsBefore(l, c) = p + (IF r = 0 THEN 0 ELSE d + y)
      /\ r # 0 => y \in Nat /\ r * x = y + x /\ r * x <= z
  <2>1. Len(l) \in Nat /\ d \in Nat
    BY FrameBitsType, Sizes
  <2>2. /\ q \in 0..(Len(l) - 1) /\ f \in 1..Len(l)
        /\ r \in 0..(frame_size - 1)
        /\ x \in Nat \ {0} /\ p \in Nat
        /\ BitsBefore(l, c) = p + (IF r = 0 THEN 0 ELSE d + y)
        /\ r # 0 => y \in Nat /\ r * x = y + x /\ r * x <= z
        /\ z \in Nat
    BY SMTT(30), SymbolStart
  <2> HIDE DEF x, y, z, d, p
  <2> QED
    BY <2>1, <2>2
<1>2. SymbolAt(l)[c + 1] = s
  <2>1. c + 1 \in Nat \ {0} /\ (c + 1) - 1 = c
    OBVIOUS
  <2> QED
    BY <2>1 DEF SymbolAt, FrameOf
<1>3. /\ \A o \in 1..d : MuxedAt(l)[p + o] = [kind |-> "id", frame |-> f, pos |-> o]
      /\ \A o \in 1..z :
           MuxedAt(l)[(p + d) + o] = [kind |-> "data", frame |-> f, pos |-> o]
  BY <1>1, MuxedBits
<1> HIDE DEF f, x, y, z, d, p
<1>4. CASE r = 0
  <2>1. s = [map |-> 0, bits |-> IdBits(f)]
    BY <1>4 DEF SymbolOf
  <2>2. /\ IdBits(f) \in Seq(Bit) /\ Len(IdBits(f)) = d
        /\ \A o \in 1..d : IdBits(f)[o] = [kind |-> "id", frame |-> f, pos |-> o]
    BY <1>1 DEF IdBits, Bit, d
  <2> DEFINE u == IdBits(f)
  <2> HIDE DEF u, s
  <2>3. s.map = 0 /\ s.bits = u
    BY <2>1 DEF u
  <2>4. HasBits(l, s, p, d)
    <3>1. u \in Seq(Bit) /\ Len(u) = d /\ \A o \in 1..d : u[o] = MuxedAt(l)[p + o]
      BY <1>3, <2>2 DEF u
    <3> QED
      BY <2>1, <2>3, <3>1 DEF HasBits, u
  <2>5. BitsBefore(l, c) = p
    BY <1>1, <1>4
  <2> QED
    BY <1>2, <1>4, <2>4, <2>5 DEF f, d, s
<1>5. CASE r # 0
  <2> DEFINE g == DataBits(f, z)
             u == SubSeq(g, y + 1, r * x)
  <2>1. s = [map |-> f, bits |-> u]
    BY <1>5 DEF SymbolOf, x, y, z
  <2>2. /\ g \in Seq(Bit) /\ Len(g) = z
        /\ \A o \in 1..z : g[o] = [kind |-> "data", frame |-> f, pos |-> o]
    BY <1>1 DEF DataBits, Bit
  <2> DEFINE e == r * x
  <2>3. y \in Nat /\ e = y + x /\ e <= z /\ x \in Nat /\ z \in Nat
    BY <1>1, <1>5
  <2> HIDE DEF g, e
  <2>4. /\ u \in Seq(Bit) /\ Len(u) = x
        /\ \A b \in 1..x : u[b] = g[y + b]
    <3>1. y + 1 \in 1..(Len(g) + 1) /\ e \in 0..Len(g) /\ e - (y + 1) + 1 = x
      BY <2>2, <2>3
    <3>2. /\ u = SubSeq(g, y + 1, e)
          /\ \A i \in (y + 1)..e : i \in 1..Len(g)
      BY <2>2, <2>3 DEF e
    <3>3. \A i \in 1..Len(g) : g[i] \in Bit
      BY <2>2, ElementOfSeq
    <3>4. u = [b \in 1..x |-> g[(y + 1) + b - 1]]
      <4>1. (y + 1)..e \subseteq DOMAIN g
        BY <2>2, <3>2
      <4> QED
        BY SMTT(30), <2>2, <2>3, <3>1, <3>2, <4>1
    <3>5. \A b \in 1..x : (y + 1) + b - 1 = y + b /\ y + b \in 1..Len(g)
      BY <2>2, <2>3
    <3> HIDE DEF u
    <3>6. \A b \in 1..x : u[b] = g[y + b] /\ u[b] \in Bit
      BY <3>3, <3>4, <3>5
    <3>7. u = [b \in 1..x |-> u[b]]
      BY <3>4, <3>6
    <3> QED
      BY <2>3, <3>6, <3>7, SequenceOf
  <2> HIDE DEF u, s
  <2>5. s.map = f /\ s.bits = u
    BY <2>1
  <2>6. ASSUME NEW b \in 1..x
        PROVE  u[b] = MuxedAt(l)[(p + (d + y)) + b]
    <3>1. y + b \in 1..z /\ (p + d) + (y + b) = (p + (d + y)) + b
      BY <1>1, <2>3
    <3> QED
      BY <1>3, <2>2, <2>4, <3>1
  <2>7. HasBits(l, s, p + (d + y), x)
    BY <1>1, <2>1, <2>4, <2>5, <2>6 DEF HasBits
  <2>8. BitsBefore(l, c) = p + (d + y)
    BY <1>1, <1>5
  <2> QED
    BY <1>2, <1>5, <2>7, <2>8 DEF f, x, s
<1> QED
  BY <1>4, <1>5

LEMMA SymbolsBegun ==
  ASSUME NEW c \in Nat
  PROVE  FrameOf(c + 1) = (c \div frame_size) + 1
<1>1. (c + 1) - 1 = c
  OBVIOUS
<1> QED
  BY <1>1 DEF FrameOf

LEMMA BitsBeforeType ==
  ASSUME NEW l \in Seq(Loads), NEW c \in Nat, c <= Len(l) * frame_size
  PROVE  BitsBefore(l, c) \in Nat
<1>1. CASE c < Len(l) * frame_size
  BY <1>1, SymbolStart
<1>2. CASE c = Len(l) * frame_size
  <2> DEFINE F == frame_size
             n == Len(l)
  <2>1. n \in Nat /\ F \in Nat \ {0} /\ 0 \in 0..(F - 1)
    BY Sizes, FrameBitsType
  <2>2. c = F * n + 0
    BY <1>2, <2>1
  <2>3. (F * n + 0) \div F = n /\ (F * n + 0) % F = 0
    BY <2>1, DivModIs
  <2>4. CtrlAt(l, n) \in Nat
    BY <2>1, CtrlAtMonotonic
  <2>5. BitsBefore(l, c) = CtrlAt(l, n) + 0
    BY <2>2, <2>3 DEF BitsBefore
  <2> QED
    BY <2>4, <2>5
<1>3. Len(l) * frame_size \in Nat
  BY Sizes, FrameBitsType
<1> QED
  BY <1>1, <1>2, <1>3

(* What the streams carry does not change with a further frame.            *)
LEMMA GrowCtrl ==
  ASSUME NEW l \in Seq(Loads), NEW x \in Loads, NEW m, m = Append(l, x)
  PROVE  /\ \A f \in 0..Len(l) : CtrlAt(m, f) = CtrlAt(l, f)
         /\ \A k \in 1..CtrlAt(l, Len(l)) : AllCtrl(m)[k] = AllCtrl(l)[k]
<1> DEFINE n == Len(l)
<1>1. /\ m \in Seq(Loads) /\ Len(m) = n + 1 /\ n \in Nat
      /\ \A f \in 1..n : m[f] = l[f]
  BY AppendProperties, LenProperties
<1>2. \A f \in 1..n : FrameCtrl(m)[f] = FrameCtrl(l)[f]
  BY <1>1 DEF FrameCtrl
<1>3. ASSUME NEW f \in 0..n
      PROVE  Joined(FrameCtrl(m), f) = Joined(FrameCtrl(l), f)
             /\ End(FrameCtrl(m), f) = End(FrameCtrl(l), f)
  <2>1. \A g \in 1..f : FrameCtrl(m)[g] = FrameCtrl(l)[g]
    BY <1>1, <1>2
  <2> QED
    BY <2>1, JoinedSame
<1>4. \A k \in 1..End(FrameCtrl(l), n) : Joined(FrameCtrl(m), n + 1)[k] = Joined(FrameCtrl(l), n)[k]
  <2> DEFINE s == FrameCtrl(m)
             e == n + 1
  <2>1. e \in Nat /\ s \in [1..e -> Seq({0, 1})] /\ n \in 0..e /\ e \in n..e
    <3>1. Len(m) \in Nat /\ FrameCtrl(m) \in [1..Len(m) -> Seq({0, 1})]
      BY <1>1, FrameCtrlType
    <3> HIDE DEF s
    <3> QED
      BY <1>1, <3>1 DEF s
  <2> HIDE DEF s, e
  <2>2. \A k \in 1..End(s, n) : Joined(s, e)[k] = Joined(s, n)[k]
    BY ZenonT(60), <2>1, JoinedPrefix
  <2>3. n \in 0..n
    BY <1>1
  <2> QED
    BY <1>3, <2>2, <2>3 DEF s, e
<1> QED
  BY <1>1, <1>3, <1>4 DEF CtrlAt, AllCtrl

LEMMA AllCtrlType ==
  ASSUME NEW l \in Seq(Loads)
  PROVE  /\ AllCtrl(l) \in Seq({0, 1}) /\ CtrlAt(l, Len(l)) \in Nat
         /\ \A k \in 1..CtrlAt(l, Len(l)) : AllCtrl(l)[k] \in {0, 1}
<1> DEFINE n == Len(l)
           s == FrameCtrl(l)
<1>1. n \in Nat /\ s \in [1..n -> Seq({0, 1})] /\ n \in 0..n
  BY FrameCtrlType
<1> HIDE DEF n, s
<1>2. Joined(s, n) \in Seq({0, 1}) /\ End(s, n) \in Nat
  BY <1>1, JoinedType
<1>3. \A k \in 1..Len(Joined(s, n)) : Joined(s, n)[k] \in {0, 1}
  BY <1>2, ElementOfSeq
<1> QED
  BY <1>2, <1>3 DEF AllCtrl, CtrlAt, End, n, s

LEMMA CountSame ==
  ASSUME NEW x, NEW y, NEW v, NEW n \in Nat, \A k \in 1..n : x[k] = y[k]
  PROVE  CountOf(x, v, n) = CountOf(y, v, n)
<1>1. {j \in 1..n : x[j] = v} = {j \in 1..n : y[j] = v}
  OBVIOUS
<1> QED
  BY <1>1 DEF CountOf

LEMMA InputsUpTo ==
  ASSUME NEW l \in Seq(Loads), NEW v, NEW k \in 0..CtrlAt(l, Len(l))
  PROVE  /\ Inputs(l, v, k) \in Nat
         /\ Inputs(l, v, k) <= Inputs(l, v, CtrlAt(l, Len(l)))
         /\ k # 0 /\ AllCtrl(l)[k] = v => Inputs(l, v, k) >= 1
<1>1. CtrlAt(l, Len(l)) \in Nat
  BY AllCtrlType
<1> QED
  BY <1>1, CountMonotonic DEF Inputs

SameUpTo(m, l, e) ==
  /\ \A k \in 1..e : AllCtrl(m)[k] = AllCtrl(l)[k] /\ MuxedAt(m)[k] = MuxedAt(l)[k]
  /\ \A k \in 0..e : Inputs(m, 0, k) = Inputs(l, 0, k) /\ Inputs(m, 1, k) = Inputs(l, 1, k)
  /\ \A k \in 1..At(l, Len(l)) : AllBits(m)[k] = AllBits(l)[k]

LEMMA GrowStreams ==
  ASSUME NEW l \in Seq(Loads), NEW x \in Loads,
         NEW m, m = Append(l, x), NEW e, e = CtrlAt(l, Len(l))
  PROVE  /\ e \in Nat
         /\ SameUpTo(m, l, e)
<1> DEFINE n == Len(l)
<1>1. /\ m \in Seq(Loads) /\ n \in Nat /\ Len(m) = n + 1
      /\ \A f \in 0..n : At(m, f) = At(l, f)
      /\ \A k \in 1..At(l, n) : AllBits(m)[k] = AllBits(l)[k]
      /\ \A k \in 1..e : AllCtrl(m)[k] = AllCtrl(l)[k]
      /\ \A k \in 1..e : AllCtrl(l)[k] \in {0, 1}
      /\ e \in Nat
  <2>1. /\ m \in Seq(Loads) /\ Len(m) = n + 1
        /\ \A f \in 0..n : At(m, f) = At(l, f)
        /\ \A k \in 1..At(l, n) : AllBits(m)[k] = AllBits(l)[k]
    BY Grow
  <2>2. n \in Nat
    BY FrameBitsType
  <2>3. \A k \in 1..e : AllCtrl(m)[k] = AllCtrl(l)[k]
    BY GrowCtrl
  <2>4. e \in Nat /\ \A k \in 1..e : AllCtrl(l)[k] \in {0, 1}
    BY AllCtrlType
  <2> QED
    BY <2>1, <2>2, <2>3, <2>4
<1>2. ASSUME NEW k \in 0..e, NEW v
      PROVE  Inputs(m, v, k) = Inputs(l, v, k)
  <2>1. k \in Nat /\ \A i \in 1..k : AllCtrl(m)[i] = AllCtrl(l)[i]
    BY <1>1
  <2> QED
    BY <2>1, CountSame DEF Inputs
<1>3. ASSUME NEW k \in 1..e PROVE MuxedAt(m)[k] = MuxedAt(l)[k]
  <2>1. k \in Nat \ {0} /\ k \in 0..e
    BY <1>1
  <2>2. Inputs(m, 0, k) = Inputs(l, 0, k) /\ Inputs(m, 1, k) = Inputs(l, 1, k)
    BY <1>2, <2>1
  <2>3. AllCtrl(l)[k] # 0 => AllBits(m)[Inputs(l, 1, k)] = AllBits(l)[Inputs(l, 1, k)]
    <3> SUFFICES ASSUME AllCtrl(l)[k] # 0
                 PROVE  AllBits(m)[Inputs(l, 1, k)] = AllBits(l)[Inputs(l, 1, k)]
      OBVIOUS
    <3>1. AllCtrl(l)[k] = 1
      BY <1>1
    <3>2. /\ Inputs(l, 1, k) \in Nat /\ Inputs(l, 1, k) >= 1
          /\ Inputs(l, 1, k) <= Inputs(l, 1, e)
      BY <2>1, <3>1, InputsUpTo
    <3>3. Inputs(l, 1, e) = At(l, n) /\ At(l, n) \in Nat
      <4>1. n \in 0..n /\ n \in n..n
        BY <1>1
      <4> QED
        BY <4>1, InputsAt, AtMonotonic
    <3>4. Inputs(l, 1, k) \in 1..At(l, n)
      <4> DEFINE i == Inputs(l, 1, k)
                 j == At(l, n)
      <4>1. i \in Nat /\ j \in Nat /\ i >= 1 /\ i <= j
        BY <3>2, <3>3
      <4> HIDE DEF i, j
      <4>2. i \in 1..j
        BY <4>1
      <4> QED
        BY <4>2 DEF i, j
    <3> QED
      BY <1>1, <3>4
  <2> QED
    BY <1>1, <2>1, <2>2, <2>3 DEF MuxedAt
<1> QED
  BY <1>1, <1>2, <1>3 DEF SameUpTo

LEMMA GrowSymbols ==
  ASSUME NEW l \in Seq(Loads), NEW x \in Loads, NEW m, m = Append(l, x),
         NEW c \in Nat, c <= Len(l) * frame_size
  PROVE  /\ BitsBefore(m, c) = BitsBefore(l, c)
         /\ c # 0 => SymbolAt(m)[c] = SymbolAt(l)[c] /\ SentAt(m)[c] = SentAt(l)[c]
<1> DEFINE n == Len(l)
           F == frame_size
<1>1. /\ m \in Seq(Loads) /\ n \in Nat /\ F \in Nat \ {0} /\ F \in Nat
      /\ \A f \in 1..n : m[f] = l[f]
      /\ \A f \in 0..n : CtrlAt(m, f) = CtrlAt(l, f)
  <2>1. m \in Seq(Loads) /\ \A f \in 1..n : m[f] = l[f]
    BY Grow
  <2>2. n \in Nat
    BY FrameBitsType
  <2>3. \A f \in 0..n : CtrlAt(m, f) = CtrlAt(l, f)
    BY GrowCtrl
  <2> QED
    BY <2>1, <2>2, <2>3, Sizes
<1>2. n * F \in Nat
  BY <1>1
<1>3. BitsBefore(m, c) = BitsBefore(l, c)
  <2>1. CASE c < n * F
    <3>1. (c \div F) + 1 \in 1..n /\ c \div F \in 0..n
      <4>1. c \div F \in 0..(n - 1) /\ (c \div F) + 1 \in 1..n
        BY <2>1, SymbolStart
      <4> QED
        BY <1>1, <4>1
    <3> QED
      BY <1>1, <3>1 DEF BitsBefore
  <2>2. CASE c = n * F
    <3>1. 0 \in 0..(F - 1) /\ c = F * n + 0
      BY <1>1, <2>2
    <3>2. (F * n + 0) \div F = n /\ (F * n + 0) % F = 0
      BY <1>1, <3>1, DivModIs
    <3>3. c \div F = n /\ c % F = 0 /\ n \in 0..n
      BY <1>1, <3>1, <3>2
    <3> QED
      BY <1>1, <3>3 DEF BitsBefore
  <2> QED
    BY <1>2, <2>1, <2>2
<1>4. ASSUME c # 0 PROVE SymbolAt(m)[c] = SymbolAt(l)[c] /\ SentAt(m)[c] = SentAt(l)[c]
  <2> DEFINE b == c - 1
  <2>1. b \in Nat /\ b < n * F /\ c \in Nat \ {0}
    BY <1>2, <1>4
  <2>2. (b \div F) + 1 \in 1..n
    <3> HIDE DEF b
    <3> QED
      BY <2>1, SymbolStart
  <2>3. FrameOf(c) \in 1..n
    BY <2>2 DEF FrameOf
  <2>4. m[FrameOf(c)] = l[FrameOf(c)]
    BY <1>1, <2>3
  <2>5. SymbolAt(m)[c] = SymbolAt(l)[c]
    BY <2>1, <2>4 DEF SymbolAt, SymbolOf
  <2> QED
    BY <2>1, <2>5 DEF SentAt
<1> QED
  BY <1>3, <1>4

-----------------------------------------------------------------------------
(* What the invariant says of the lengths of the streams.                  *)
LEMMA Lengths ==
  ASSUME IndInv
  PROVE  /\ load \in Seq(Loads) /\ Len(load) \in Nat /\ DOMAIN buf = Streams
         /\ \A s \in {"id", "ref", "count", "map", "pow"} :
              /\ buf[s] \in Seq(Nat) /\ Len(buf[s]) \in Nat
              /\ Taken(s) \in 0..Len(load) /\ Taken(s) + Len(buf[s]) = Len(load)
              /\ Taken(s) \in Nat
              /\ Segment(buf[s], FrameAt, Taken(s))
         /\ buf["ctrl"] \in Seq({0, 1}) /\ Len(buf["ctrl"]) \in Nat
         /\ CtrlAt(load, Taken("count")) \in Nat /\ Muxed \in Nat
         /\ Muxed + Len(buf["ctrl"]) = CtrlAt(load, Taken("count"))
         /\ CtrlAt(load, Len(load)) \in Nat /\ Muxed + Len(buf["ctrl"]) <= CtrlAt(load, Len(load))
         /\ buf["idbits"] \in Seq(Bit) /\ Len(buf["idbits"]) \in Nat
         /\ buf["data"] \in Seq(Bit) /\ Len(buf["data"]) \in Nat
         /\ buf["bits"] \in Seq(Bit) /\ Len(buf["bits"]) \in Nat
         /\ Inputs(load, 0, Muxed) \in Nat /\ Inputs(load, 1, Muxed) \in Nat
         /\ At(load, Taken("ref")) \in Nat /\ At(load, Len(load)) \in Nat
         /\ At(load, Taken("ref")) <= At(load, Len(load))
         /\ out \in Seq(SentSymbol) /\ Len(out) \in Nat
         /\ buf["symbols"] \in Seq(Symbol) /\ Len(buf["symbols"]) \in Nat
         /\ Mapped \in Nat /\ Mapped = Len(out) + Len(buf["symbols"])
         /\ Len(load) * frame_size \in Nat /\ Mapped <= Len(load) * frame_size
         /\ BitsBefore(load, Mapped) \in Nat
         /\ BitsBefore(load, Mapped) + Len(buf["bits"]) = Muxed
<1>1. load \in Seq(Loads) /\ Len(load) \in Nat /\ DOMAIN buf = Streams
  BY FrameBitsType DEF IndInv, TypeOK
<1>2. ASSUME NEW s \in {"id", "ref", "count", "map", "pow"}
      PROVE  /\ buf[s] \in Seq(Nat) /\ Len(buf[s]) \in Nat
             /\ Taken(s) \in 0..Len(load) /\ Taken(s) + Len(buf[s]) = Len(load)
             /\ Taken(s) \in Nat
             /\ Segment(buf[s], FrameAt, Taken(s))
  <2>1. buf[s] \in Seq(Nat) /\ Taken(s) \in Nat /\ Segment(buf[s], FrameAt, Taken(s))
    BY DEF IndInv, TypeOK, FrameStreams
  <2>2. Len(buf[s]) \in Nat
    BY <2>1, LenProperties
  <2> DEFINE n == Len(load)
             q == Len(buf[s])
  <2>3. Taken(s) = n - q
    BY DEF Taken
  <2> HIDE DEF n, q
  <2>4. Taken(s) \in 0..n /\ Taken(s) + q = n
    BY <1>1, <2>1, <2>2, <2>3 DEF n, q
  <2> QED
    BY <2>1, <2>2, <2>4 DEF n, q
<1>3. /\ buf["ctrl"] \in Seq({0, 1}) /\ buf["idbits"] \in Seq(Bit)
      /\ buf["data"] \in Seq(Bit) /\ buf["bits"] \in Seq(Bit)
      /\ buf["symbols"] \in Seq(Symbol) /\ out \in Seq(SentSymbol)
  BY DEF IndInv, TypeOK, SymbolStream, Sent
<1>4. /\ Len(buf["ctrl"]) \in Nat /\ Len(buf["idbits"]) \in Nat
      /\ Len(buf["data"]) \in Nat /\ Len(buf["bits"]) \in Nat
      /\ Len(buf["symbols"]) \in Nat /\ Len(out) \in Nat
  BY <1>3, LenProperties
<1>5. Len(load) * frame_size \in Nat
  BY <1>1, Sizes
<1>6. /\ At(load, Taken("ref")) \in Nat /\ At(load, Len(load)) \in Nat
      /\ At(load, Taken("ref")) <= At(load, Len(load))
      /\ CtrlAt(load, Taken("count")) \in Nat /\ CtrlAt(load, Len(load)) \in Nat
      /\ CtrlAt(load, Taken("count")) <= CtrlAt(load, Len(load))
  <2>1. /\ Taken("ref") \in 0..Len(load) /\ Len(load) \in Taken("ref")..Len(load)
        /\ Taken("count") \in 0..Len(load) /\ Len(load) \in Taken("count")..Len(load)
    BY <1>1, <1>2
  <2> QED
    BY <1>1, <2>1, AtMonotonic, CtrlAtMonotonic
<1>7. Muxed \in Nat /\ Muxed + Len(buf["ctrl"]) = CtrlAt(load, Taken("count"))
      /\ Muxed + Len(buf["ctrl"]) <= CtrlAt(load, Len(load))
  <2>1. Muxed \in Nat
    BY DEF IndInv, CtrlItems
  <2> DEFINE e == CtrlAt(load, Taken("count"))
             k == Len(buf["ctrl"])
  <2>2. Muxed = e - k /\ e \in Nat /\ k \in Nat
    BY <1>4, <1>6 DEF Muxed
  <2> HIDE DEF e, k
  <2>3. Muxed + k = e
    BY <2>1, <2>2
  <2> QED
    BY <1>6, <2>1, <2>3 DEF e, k
<1>8. Inputs(load, 0, Muxed) \in Nat /\ Inputs(load, 1, Muxed) \in Nat
  BY <1>7, CountSucc DEF Inputs
<1>9. Mapped = Len(out) + Len(buf["symbols"]) /\ Mapped \in Nat
  BY <1>4 DEF Mapped
<1>10. Mapped <= Len(load) * frame_size
       /\ BitsBefore(load, Mapped) + Len(buf["bits"]) = Muxed
  BY DEF IndInv, BitmapHeld, AfterSymbols, BitStream
<1>11. BitsBefore(load, Mapped) \in Nat
  BY <1>1, <1>9, <1>10, BitsBeforeType
<1> QED
  BY <1>1, <1>2, <1>3, <1>4, <1>5, <1>6, <1>7, <1>8, <1>9, <1>10, <1>11

-----------------------------------------------------------------------------
(* The initial states.                                                     *)

LEMMA InitInv == Init => IndInv
<1> SUFFICES ASSUME Init PROVE IndInv
  OBVIOUS
<1> USE DEF Init
<1>1. /\ \A s \in Streams : buf[s] = << >>
      /\ DOMAIN buf = Streams
      /\ Len(load) = 0 /\ Len(<< >>) = 0
  BY EmptySeq
<1>2. \A S : << >> \in Seq(S)
  BY EmptySeq
<1>3. load \in Seq(Loads) /\ load = << >> /\ out = << >> /\ Len(out) = 0
  BY <1>2
<1>4. TypeOK
  <2>1. frame_size - 1 \in Nat /\ 0 \in 0..(frame_size - 1)
    BY Sizes
  <2>2. power \in [hold : Nat, counter : 0..(frame_size - 1)]
    BY <2>1
  <2>3. mapper \in [bitmap : Nat \cup {-1}, need_bits : Nat,
                    need_bitmap : {0, 1}, counter : 0..(frame_size - 1)]
    BY <2>1
  <2> QED
    BY <1>1, <1>2, <2>2, <2>3 DEF TypeOK, Streams
<1>5. \A s \in Streams : Taken(s) = 0
  BY <1>1 DEF Taken
<1>6. \A s \in Streams : \A g : Segment(buf[s], g, 0)
  BY <1>1 DEF Segment
<1>7. Muxed = 0
  <2>1. Len(buf["ctrl"]) = 0
    BY <1>1 DEF Streams
  <2>2. Taken("count") = 0
    BY <1>5 DEF Streams
  <2> HIDE DEF Init
  <2> QED
    BY <2>1, <2>2, CtrlAtNone DEF Muxed
<1>8. Mapped = 0
  <2>1. Len(buf["symbols"]) = 0
    BY <1>1 DEF Streams
  <2> HIDE DEF Init
  <2> QED
    BY <1>3, <2>1 DEF Mapped
<1>9. FrameStreams /\ CtrlItems
  BY <1>5, <1>6, <1>7 DEF FrameStreams, CtrlItems, Streams
<1>10. 0 \div frame_size = 0 /\ 0 % frame_size = 0 /\ 0 * dsubc = 0 /\ 0 * frame_size = 0
  <2> DEFINE F == frame_size
  <2>1. F \in Nat \ {0} /\ 0 \in 0..(F - 1) /\ F * 0 + 0 = 0 /\ dsubc \in Nat
    BY Sizes
  <2>2. (F * 0 + 0) \div F = 0 /\ (F * 0 + 0) % F = 0
    BY <2>1, DivModIs
  <2> QED
    BY <2>1, <2>2
<1>11. Inputs(load, 0, 0) = 0 /\ Inputs(load, 1, 0) = 0
  BY CountNone DEF Inputs
<1>12. IdStream /\ DataStream
  BY <1>1, <1>5, <1>6, <1>7, <1>10, <1>11, AtNone DEF IdStream, DataStream, Streams
<1>13. BitsBefore(load, 0) = 0
  BY <1>10, CtrlAtNone DEF BitsBefore
<1>14. BitStream
  BY <1>1, <1>6, <1>7, <1>8, <1>13 DEF BitStream, Streams
<1>15. BitmapHeld
  BY <1>1, <1>5, <1>8, <1>10 DEF BitmapHeld, AfterSymbols, Streams
<1>16. SymbolStream /\ Sent
  BY <1>1, <1>2, <1>3, <1>6 DEF SymbolStream, Sent, Streams, Segment
<1>17. PowerHeld
  BY <1>3, <1>5, <1>10 DEF PowerHeld, Streams
<1> QED
  BY <1>4, <1>9, <1>12, <1>14, <1>15, <1>16, <1>17 DEF IndInv

-----------------------------------------------------------------------------
(* A frame is sent.                                                        *)

LEMMA SendFrameInv ==
  ASSUME IndInv, NEW x \in Loads, SendFrame(x)
  PROVE  IndInv'
<1> DEFINE n == Len(load)
           m == load'
           e == CtrlAt(load, Len(load))
           five == {"id", "ref", "count", "map", "pow"}
<1>1. /\ UNCHANGED <<ref_bitcount, mux_bitcount, d_next_input, mapper, power, out>>
      /\ m = Append(load, x)
      /\ DOMAIN buf' = Streams
      /\ \A s \in five : buf'[s] = Append(buf[s], n + 1)
      /\ \A s \in {"ctrl", "idbits", "data", "bits", "symbols"} : buf'[s] = buf[s]
  BY DEF SendFrame, Streams
<1>2. load \in Seq(Loads) /\ n \in Nat
  BY Lengths
<1>3. /\ m \in Seq(Loads) /\ Len(m) = n + 1 /\ \A f \in 1..n : m[f] = load[f]
      /\ \A f \in 0..n : At(m, f) = At(load, f)
  BY <1>1, <1>2, Grow
<1>4. /\ \A f \in 0..n : CtrlAt(m, f) = CtrlAt(load, f)
      /\ e \in Nat /\ SameUpTo(m, load, e)
  BY <1>1, <1>2, GrowCtrl, GrowStreams
<1>5. ASSUME NEW c \in Nat, c <= n * frame_size
      PROVE  /\ BitsBefore(m, c) = BitsBefore(load, c)
             /\ c # 0 => SymbolAt(m)[c] = SymbolAt(load)[c] /\ SentAt(m)[c] = SentAt(load)[c]
  BY ZenonT(60), <1>1, <1>2, <1>5, GrowSymbols
<1> HIDE DEF m
<1>6. ASSUME NEW s \in five
      PROVE  /\ Taken(s)' = Taken(s)
             /\ buf'[s] \in Seq(Nat)
             /\ Segment(buf'[s], FrameAt, Taken(s))
  <2> DEFINE q == buf[s]
             t == Taken(s)
             y == n + 1
             z == Append(q, y)
  <2>1. q \in Seq(Nat) /\ Len(q) \in Nat /\ t \in Nat /\ t + Len(q) = n
        /\ Segment(q, FrameAt, t)
    BY Lengths
  <2>2. y \in Nat /\ y = FrameAt[t + Len(q) + 1]
    <3> HIDE DEF q, t
    <3> QED
      BY SMTT(30), <1>2, <2>1 DEF FrameAt
  <2>3. z \in Seq(Nat) /\ Len(z) = Len(q) + 1 /\ Segment(z, FrameAt, t)
    <3> HIDE DEF q, t, y
    <3> QED
      BY <2>1, <2>2, SegmentAppend
  <2>4. buf'[s] = z
    BY <1>1
  <2>5. Taken(s)' = (n + 1) - Len(z)
    BY <1>3, <2>4 DEF Taken, m
  <2>6. Taken(s)' = t
    <3> DEFINE h == Taken(s)'
               i == Len(z)
               j == Len(q)
    <3>1. h = (n + 1) - i /\ i = j + 1 /\ j \in Nat /\ t \in Nat /\ t + j = n
      BY <2>1, <2>3, <2>5
    <3> HIDE DEF h, i, j, t, n
    <3>2. h = t
      BY <3>1
    <3> QED
      BY <3>2 DEF h
  <2> QED
    BY <2>3, <2>4, <2>6
<1>7. /\ Taken("id")' = Taken("id") /\ Taken("ref")' = Taken("ref")
      /\ Taken("count")' = Taken("count") /\ Taken("map")' = Taken("map")
      /\ Taken("pow")' = Taken("pow")
  BY <1>6
<1>8. TypeOK'
  BY <1>1, <1>3, <1>6 DEF IndInv, TypeOK, m
<1>9. FrameStreams'
  <2>1. \A s \in five : Taken(s) \in Nat
    BY Lengths
  <2> QED
    BY <1>6, <2>1 DEF FrameStreams
<1>10. Muxed' = Muxed
  <2>1. Taken("count") \in 0..n
    BY Lengths
  <2>2. CtrlAt(m, Taken("count")) = CtrlAt(load, Taken("count"))
    BY <1>4, <2>1
  <2> QED
    BY <1>1, <1>7, <2>2 DEF Muxed, m
<1>11. Mapped' = Mapped
  BY <1>1 DEF Mapped
<1> DEFINE a == Muxed
           b == Mapped
<1>12. /\ a \in Nat /\ a + Len(buf["ctrl"]) <= e /\ Len(buf["ctrl"]) \in Nat /\ a \in 0..e
       /\ b \in Nat /\ b <= n * frame_size /\ n * frame_size \in Nat
       /\ BitsBefore(load, b) \in Nat /\ BitsBefore(load, b) + Len(buf["bits"]) = a
       /\ Len(buf["bits"]) \in Nat
  <2>1. /\ a \in Nat /\ a + Len(buf["ctrl"]) <= e /\ Len(buf["ctrl"]) \in Nat
        /\ b \in Nat /\ b <= n * frame_size /\ n * frame_size \in Nat
        /\ BitsBefore(load, b) \in Nat /\ BitsBefore(load, b) + Len(buf["bits"]) = a
        /\ Len(buf["bits"]) \in Nat
    BY Lengths
  <2> DEFINE k == Len(buf["ctrl"])
  <2>2. a \in 0..e
    <3>1. a \in Nat /\ k \in Nat /\ a + k <= e /\ e \in Nat
      BY <1>4, <2>1
    <3> HIDE DEF a, k, e
    <3> QED
      BY <3>1
  <2> QED
    BY <2>1, <2>2
<1>13. /\ Inputs(m, 0, a) = Inputs(load, 0, a) /\ Inputs(m, 1, a) = Inputs(load, 1, a)
  BY <1>4, <1>12 DEF SameUpTo
<1>14. CtrlItems'
  <2> DEFINE q == buf["ctrl"]
  <2>1. Segment(q, AllCtrl(load), a)
    BY DEF IndInv, CtrlItems
  <2>2. ASSUME NEW k \in 1..Len(q) PROVE AllCtrl(load)[a + k] = AllCtrl(m)[a + k]
    <3> DEFINE i == Len(q)
    <3>1. a + k \in 1..e
      <4>1. a \in Nat /\ i \in Nat /\ a + i <= e /\ e \in Nat /\ k \in 1..i
        BY <1>4, <1>12
      <4> HIDE DEF a, i, e
      <4> QED
        BY <4>1
    <3> QED
      BY <1>4, <3>1 DEF SameUpTo
  <2>3. Segment(q, AllCtrl(m), a)
    <3> HIDE DEF q, a
    <3> QED
      BY <2>1, <2>2, SegmentSame
  <2> QED
    BY <1>1, <1>10, <1>12, <2>3 DEF CtrlItems, m
<1>15. IdStream'
  BY <1>1, <1>7, <1>10, <1>13 DEF IndInv, IdStream, m
<1>16. DataStream'
  <2> DEFINE q == buf["data"]
             i == Inputs(load, 1, a)
             h == At(load, Taken("ref"))
             g == At(load, n)
             j == Len(q)
  <2>1. Segment(q, AllBits(load), i) /\ i + j = h /\ i \in Nat /\ j \in Nat /\ h \in Nat
        /\ g \in Nat /\ h <= g /\ Taken("ref") \in 0..n
    BY Lengths DEF IndInv, DataStream
  <2>2. ASSUME NEW k \in 1..Len(q) PROVE AllBits(load)[i + k] = AllBits(m)[i + k]
    <3>1. i + k \in 1..g
      <4>1. k \in 1..j
        OBVIOUS
      <4> HIDE DEF i, j, h, g
      <4> QED
        BY <2>1, <4>1
    <3> QED
      BY <1>4, <3>1 DEF SameUpTo
  <2>3. Segment(q, AllBits(m), i)
    <3> HIDE DEF q, i
    <3> QED
      BY <2>1, <2>2, SegmentSame
  <2>4. At(m, Taken("ref")) = h
    BY <1>3, <2>1
  <2> QED
    BY <1>1, <1>7, <1>10, <1>13, <2>1, <2>3, <2>4 DEF DataStream, m
<1>17. BitStream'
  <2> DEFINE q == buf["bits"]
             i == BitsBefore(load, b)
             j == Len(q)
  <2>1. Segment(q, MuxedAt(load), i) /\ i + j = a /\ i \in Nat /\ j \in Nat
    BY Lengths DEF IndInv, BitStream
  <2>2. ASSUME NEW k \in 1..Len(q) PROVE MuxedAt(load)[i + k] = MuxedAt(m)[i + k]
    <3>1. i + k \in 1..e
      <4>1. k \in 1..j /\ a \in 0..e /\ e \in Nat
        BY <1>4, <1>12
      <4> HIDE DEF i, j, a, e
      <4> QED
        BY <2>1, <4>1
    <3> QED
      BY <1>4, <3>1 DEF SameUpTo
  <2>3. Segment(q, MuxedAt(m), i)
    <3> HIDE DEF q, i
    <3> QED
      BY <2>1, <2>2, SegmentSame
  <2>4. BitsBefore(m, b) = i
    BY <1>5, <1>12
  <2> QED
    BY <1>1, <1>10, <1>11, <2>1, <2>3, <2>4 DEF BitStream, m
<1>18. BitmapHeld'
  <2> DEFINE t == Taken("map")
  <2>1. AfterSymbols(load, b, t, mapper) /\ t \in Nat /\ t \in 0..n
    BY Lengths DEF IndInv, BitmapHeld
  <2>2. b <= Len(m) * frame_size
    <3>1. Len(m) * frame_size = n * frame_size + frame_size /\ frame_size \in Nat
      BY <1>2, <1>3, Sizes
    <3> DEFINE v == n * frame_size
    <3> HIDE DEF b
    <3> QED
      BY <1>12, <3>1
  <2>3. mapper.counter \notin {0, 1} => t \in 1..n
    <3>1. b \div frame_size \in Nat
      <4> DEFINE F == frame_size
      <4>1. F \in Nat \ {0} /\ b \in Nat
        BY <1>12, Sizes
      <4> HIDE DEF F, b
      <4>2. b \div F \in Nat
        BY <4>1, DivMod
      <4> QED
        BY <4>2 DEF F
    <3> DEFINE g == b \div frame_size
    <3>2. mapper.counter \notin {0, 1} => t = g + 1
      BY <2>1 DEF AfterSymbols
    <3> HIDE DEF g, t
    <3> QED
      BY <1>2, <2>1, <3>1, <3>2 DEF g
  <2>4. mapper.counter \notin {0, 1} => m[t] = load[t]
    BY <1>3, <2>3
  <2>5. AfterSymbols(m, b, t, mapper)
    BY <2>1, <2>2, <2>4 DEF AfterSymbols
  <2> QED
    BY <1>1, <1>7, <1>11, <2>5 DEF BitmapHeld, m
<1>19. Len(out) \in Nat /\ Len(buf["symbols"]) \in Nat /\ b = Len(out) + Len(buf["symbols"])
  BY Lengths
<1>20. ASSUME NEW k \in Nat \ {0}, k <= b
       PROVE  SymbolAt(m)[k] = SymbolAt(load)[k] /\ SentAt(m)[k] = SentAt(load)[k]
  <2>1. k <= n * frame_size
    <3> DEFINE v == n * frame_size
    <3>1. v \in Nat /\ b <= v /\ b \in Nat
      BY <1>12
    <3> HIDE DEF b, v
    <3>2. k <= v
      BY <1>20, <3>1
    <3> QED
      BY <3>2 DEF v
  <2> QED
    BY <1>5, <2>1
<1>21. SymbolStream'
  <2> DEFINE q == buf["symbols"]
             i == Len(out)
  <2>1. q \in Seq(Symbol) /\ Segment(q, SymbolAt(load), i)
    BY DEF IndInv, SymbolStream
  <2>2. ASSUME NEW k \in 1..Len(q) PROVE SymbolAt(load)[i + k] = SymbolAt(m)[i + k]
    <3>1. i + k \in Nat \ {0} /\ i + k <= b
      <4> HIDE DEF b
      <4> QED
        BY <1>19
    <3> QED
      BY <1>20, <3>1
  <2>3. Segment(q, SymbolAt(m), i)
    <3> HIDE DEF q, i
    <3> QED
      BY <2>1, <2>2, SegmentSame
  <2> QED
    BY <1>1, <2>1, <2>3 DEF SymbolStream, m
<1>22. Sent'
  <2>1. out \in Seq(SentSymbol) /\ Segment(out, SentAt(load), 0)
    BY DEF IndInv, Sent
  <2>2. ASSUME NEW k \in 1..Len(out) PROVE SentAt(load)[0 + k] = SentAt(m)[0 + k]
    <3>1. 0 + k \in Nat \ {0} /\ 0 + k <= b
      <4> HIDE DEF b
      <4> QED
        BY <1>19
    <3> QED
      BY <1>20, <3>1
  <2>3. Segment(out, SentAt(m), 0)
    BY <2>1, <2>2, SegmentSame
  <2> QED
    BY <1>1, <2>1, <2>3 DEF Sent, m
<1>23. PowerHeld'
  BY <1>1, <1>7 DEF IndInv, PowerHeld
<1> QED
  BY <1>8, <1>9, <1>14, <1>15, <1>16, <1>17, <1>18, <1>21, <1>22, <1>23 DEF IndInv

-----------------------------------------------------------------------------
(* repetition_encoder_sb, reference_data_source_02_ib and tx_mux_ctrl.     *)

(* Items taken off a stream of the frames' numbers.                        *)
LEMMA DropFrames ==
  ASSUME NEW q \in Seq(Nat), NEW t \in Nat, Segment(q, FrameAt, t), NEW e \in Nat,
         t + Len(q) = e, NEW n \in 0..Len(q), NEW z, z = Drop(q, n)
  PROVE  /\ z \in Seq(Nat) /\ Segment(z, FrameAt, t + n)
         /\ e - Len(z) = t + n /\ t + n \in Nat /\ t + n <= e
         /\ \A k \in 1..n : q[k] = t + k /\ t + k \in 1..e
<1>1. Len(q) \in Nat
  BY LenProperties
<1>2. /\ SubSeq(q, n + 1, Len(q)) \in Seq(Nat)
      /\ Len(SubSeq(q, n + 1, Len(q))) = Len(q) - n
      /\ Segment(SubSeq(q, n + 1, Len(q)), FrameAt, t + n)
  <2>1. q \in Seq(Nat) /\ t \in Int /\ n \in 0..Len(q) /\ Segment(q, FrameAt, t)
    OBVIOUS
  <2> QED
    BY <2>1, SegmentDrop
<1>3. z \in Seq(Nat) /\ Len(z) = Len(q) - n /\ Segment(z, FrameAt, t + n)
  BY <1>2 DEF Drop
<1>4. e - Len(z) = t + n /\ t + n \in Nat /\ t + n <= e
  <2> DEFINE i == Len(z)
             j == Len(q)
  <2>1. i = j - n /\ j \in Nat /\ n \in 0..j /\ t + j = e
    BY <1>1, <1>3
  <2> HIDE DEF i, j
  <2>2. e - i = t + n /\ t + n \in Nat /\ t + n <= e
    BY <2>1
  <2> QED
    BY <2>2 DEF i
<1>5. ASSUME NEW k \in 1..n PROVE q[k] = t + k /\ t + k \in 1..e
  <2>1. k \in 1..Len(q) /\ t + k \in 1..e /\ t + k \in Nat
    <3> DEFINE j == Len(q)
    <3>1. j \in Nat /\ n \in 0..j /\ t + j = e
      BY <1>1
    <3> HIDE DEF j
    <3>2. k \in 1..j /\ t + k \in 1..e /\ t + k \in Nat
      BY <3>1
    <3> QED
      BY <3>2 DEF j
  <2>2. q[k] = FrameAt[t + k]
    BY <2>1 DEF Segment
  <2> QED
    BY <2>1, <2>2 DEF FrameAt
<1> QED
  BY <1>3, <1>4, <1>5

LEMMA EqualRuns ==
  ASSUME NEW counts, NEW runs \in Nat, NEW b, NEW n, n = EqualCount(counts, runs, b)
  PROVE  n \in 0..runs /\ \A j \in 1..n : counts[j] = b
<1> DEFINE T == {k \in 0..runs : \A j \in 1..k : counts[j] = b}
<1>1. T \in SUBSET Nat /\ 0 \in T /\ \A x \in T : x <= runs
  OBVIOUS
<1>2. n = Max(T)
  BY DEF EqualCount
<1> HIDE DEF T
<1>3. T # {}
  BY <1>1
<1>4. n \in T
  BY <1>1, <1>2, <1>3, Greatest
<1> QED
  BY <1>4 DEF T

LEMMA EncodedIds ==
  ASSUME NEW t \in Nat, NEW n \in Nat, NEW q, \A k \in 1..n : q[k] = t + k,
         NEW z, z = FlattenSeq([k \in 1..n |-> IdBits(q[k])])
  PROVE  /\ z \in Seq(Bit) /\ Len(z) = n * dsubc
         /\ Segment(z, IdAt, t * dsubc)
<1> DEFINE d == dsubc
           a == t * d
           u == [k \in 1..n |-> IdBits(q[k])]
<1>1. d \in Nat \ {0} /\ d \in Nat /\ a \in Nat
  BY Sizes
<1>2. ASSUME NEW k \in 0..(n - 1)
      PROVE  /\ u[k + 1] \in Seq(Bit) /\ Len(u[k + 1]) = d
             /\ Segment(u[k + 1], IdAt, a + k * d)
  <2> DEFINE f == t + k + 1
             y == IdBits(f)
  <2>1. u[k + 1] = y /\ f \in Nat /\ t + k \in Nat /\ f = (t + k) + 1
    <3>1. k + 1 \in 1..n /\ t + (k + 1) = f
      OBVIOUS
    <3> QED
      BY <3>1
  <2> HIDE DEF f, u
  <2>2. /\ y \in Seq(Bit) /\ Len(y) = d
        /\ \A o \in 1..d : y[o] = [kind |-> "id", frame |-> f, pos |-> o]
    <3> HIDE DEF a
    <3>1. d \in Nat /\ f \in Nat /\ y = [o \in 1..d |-> [kind |-> "id", frame |-> f, pos |-> o]]
      BY <1>1, <2>1 DEF IdBits
    <3> HIDE DEF d, y
    <3> QED
      BY <3>1 DEF Bit
  <2> HIDE DEF y
  <2>3. ASSUME NEW o \in 1..d PROVE y[o] = IdAt[(a + k * d) + o]
    <3> DEFINE g == t + k
               i == (a + k * d) + o
    <3>1. i = g * dsubc + o /\ g \in Nat /\ o \in 1..dsubc
      <4>1. g * d = a + k * d
        BY <1>1
      <4> QED
        BY <2>1, <4>1
    <3> HIDE DEF i, g
    <3>2. IdAt[i] = [kind |-> "id", frame |-> g + 1, pos |-> o]
      BY <3>1, IdBitAt
    <3> QED
      BY <2>1, <2>2, <3>2 DEF i, g
  <2> QED
    BY <2>1, <2>2, <2>3 DEF Segment
<1>3. u \in [1..n -> Seq(Bit)]
  <2> SUFFICES ASSUME NEW k \in 1..n PROVE u[k] \in Seq(Bit)
    OBVIOUS
  <2>1. k - 1 \in 0..(n - 1) /\ (k - 1) + 1 = k
    OBVIOUS
  <2> HIDE DEF u
  <2> QED
    BY <1>2, <2>1
<1>4. z = FlattenSeq(u)
  OBVIOUS
<1> HIDE DEF u, a, d
<1>5. PICK r : /\ r[0] = << >>
               /\ \A k \in 0..n : r[k] \in Seq(Bit)
               /\ \A k \in 0..(n - 1) : r[k + 1] = r[k] \o u[k + 1]
               /\ r[n] = FlattenSeq(u)
  BY <1>3, Flattening
<1> DEFINE T == {k \in 0..n : ~(Len(r[k]) = k * d /\ Segment(r[k], IdAt, a))}
<1>6. 0 \notin T
  <2>1. Len(<< >>) = 0 /\ 0 * d = 0
    BY <1>1, EmptySeq
  <2> QED
    BY <1>5, <2>1 DEF Segment
<1>7. ASSUME NEW k \in 0..(n - 1), k \notin T PROVE k + 1 \notin T
  <2>1. k \in 0..n /\ k + 1 \in 0..n
    OBVIOUS
  <2> DEFINE p == r[k]
             y == u[k + 1]
             w == k * d
  <2>2. /\ p \in Seq(Bit) /\ Len(p) = w /\ Segment(p, IdAt, a)
        /\ y \in Seq(Bit) /\ Len(y) = d /\ Segment(y, IdAt, a + w)
        /\ r[k + 1] = p \o y
    BY <1>2, <1>5, <1>7, <2>1
  <2>3. (k + 1) * d = w + d /\ w \in Nat /\ a \in Int
    BY <1>1
  <2> HIDE DEF p, y, w
  <2>4. Len(p \o y) = w + d /\ Segment(p \o y, IdAt, a)
    <3>1. Len(p \o y) = Len(p) + Len(y)
      BY <2>2, ConcatProperties
    <3>2. Segment(y, IdAt, a + Len(p))
      BY <2>2
    <3> QED
      BY <2>2, <2>3, <3>1, <3>2, SegmentConcat
  <2> QED
    BY <2>2, <2>3, <2>4
<1>8. T = {}
  <2>1. T \in SUBSET (0..n)
    OBVIOUS
  <2> HIDE DEF T
  <2> QED
    BY <1>6, <1>7, <2>1, NoFirst
<1>9. n \in 0..n
  OBVIOUS
<1> QED
  BY <1>4, <1>5, <1>8, <1>9 DEF a, d

LEMMA EncodeIdsInv ==
  ASSUME IndInv, NEW n \in Calls, EncodeIds(n)
  PROVE  IndInv'
<1> DEFINE q == buf["id"]
           p == buf["idbits"]
           t == Taken("id")
           z == FlattenSeq([k \in 1..n |-> IdBits(q[k])])
           y == Drop(q, n)
           a == Inputs(load, 0, Muxed)
<1>1. /\ UNCHANGED <<load, ref_bitcount, mux_bitcount, d_next_input, mapper, power, out>>
      /\ n <= Len(q)
      /\ buf' = [buf EXCEPT !["id"] = y, !["idbits"] = @ \o z]
  BY DEF EncodeIds
<1>2. DOMAIN buf = Streams
  BY Lengths
<1>3. /\ DOMAIN buf' = Streams /\ buf'["id"] = y /\ buf'["idbits"] = p \o z
      /\ \A s \in Streams \ {"id", "idbits"} : buf'[s] = buf[s]
  BY <1>1, <1>2 DEF Streams
<1>4. /\ q \in Seq(Nat) /\ Len(q) \in Nat /\ t \in Nat /\ Segment(q, FrameAt, t)
      /\ Len(load) \in Nat /\ t + Len(q) = Len(load)
      /\ p \in Seq(Bit) /\ Len(p) \in Nat /\ a \in Nat
      /\ a + Len(p) = t * dsubc /\ Segment(p, IdAt, a)
  BY Lengths DEF IndInv, IdStream
<1>5. n \in Nat /\ n \in 0..Len(q)
  <2>1. n \in Nat
    BY TxAssumption DEF Calls
  <2> QED
    BY <1>1, <1>4, <2>1
<1> HIDE DEF z
<1>6. /\ y \in Seq(Nat) /\ Segment(y, FrameAt, t + n)
      /\ Len(load) - Len(y) = t + n /\ t + n \in Nat
      /\ \A k \in 1..n : q[k] = t + k
  <2> HIDE DEF q, t
  <2> QED
    BY <1>4, <1>5, DropFrames
<1>7. /\ z \in Seq(Bit) /\ Len(z) = n * dsubc /\ Segment(z, IdAt, t * dsubc)
  <2> HIDE DEF q, t
  <2> QED
    BY ZenonT(60), <1>4, <1>5, <1>6, EncodedIds DEF z
<1>8. /\ p \o z \in Seq(Bit) /\ Segment(p \o z, IdAt, a)
      /\ a + Len(p \o z) = (t + n) * dsubc
  <2> DEFINE w == t * dsubc
             v == n * dsubc
  <2>1. (t + n) * dsubc = w + v /\ w \in Nat /\ v \in Nat
    <3> HIDE DEF t
    <3> QED
      BY <1>4, <1>5, Sizes
  <2> HIDE DEF p, a, w, v, t
  <2>2. /\ p \in Seq(Bit) /\ Len(p) \in Nat /\ a \in Nat /\ a \in Int
        /\ a + Len(p) = w /\ Segment(p, IdAt, a)
        /\ z \in Seq(Bit) /\ Len(z) = v /\ Segment(z, IdAt, a + Len(p))
    BY <1>4, <1>7 DEF w, v
  <2>3. p \o z \in Seq(Bit) /\ Len(p \o z) = Len(p) + Len(z)
    BY <2>2, ConcatProperties
  <2>4. Segment(p \o z, IdAt, a)
    BY <2>2, SegmentConcat
  <2>5. a + Len(p \o z) = w + v
    BY <2>1, <2>2, <2>3
  <2> QED
    BY <2>1, <2>3, <2>4, <2>5
<1>9. Taken("id")' = t + n
  <2> HIDE DEF y
  <2> QED
    BY <1>1, <1>3, <1>6 DEF Taken
<1>10. /\ \A s \in {"ref", "count", "map", "pow"} : buf'[s] = buf[s] /\ Taken(s)' = Taken(s)
       /\ Muxed' = Muxed /\ Mapped' = Mapped
  <2>1. \A s \in {"ref", "count", "map", "pow"} : buf'[s] = buf[s] /\ Taken(s)' = Taken(s)
    BY <1>1, <1>3 DEF Streams, Taken
  <2> QED
    BY <1>1, <1>3, <2>1 DEF Streams, Muxed, Mapped
<1> HIDE DEF q, p, t, y, a
<1>11. TypeOK'
  BY <1>1, <1>3, <1>6, <1>8 DEF IndInv, TypeOK, Streams
<1>12. FrameStreams'
  BY <1>3, <1>6, <1>9, <1>10 DEF IndInv, FrameStreams
<1>13. IdStream'
  BY <1>1, <1>3, <1>8, <1>9, <1>10 DEF IdStream, a
<1>14. CtrlItems' /\ DataStream' /\ BitStream' /\ BitmapHeld' /\ SymbolStream' /\ PowerHeld'
       /\ Sent'
  BY <1>1, <1>3, <1>10
     DEF IndInv, CtrlItems, DataStream, BitStream, BitmapHeld, SymbolStream, PowerHeld, Sent,
         Streams
<1> QED
  BY <1>11, <1>12, <1>13, <1>14 DEF IndInv

(* An item of a bit count that is there is that of a frame.                *)
LEMMA BitCountType ==
  ASSUME IndInv, NEW s \in {"ref", "count"}, buf[s] # << >>
  PROVE  BitCount(buf[s][1]) \in Nat
<1> DEFINE q == buf[s]
           t == Taken(s)
<1>1. /\ q \in Seq(Nat) /\ t \in Nat /\ Segment(q, FrameAt, t) /\ q # << >>
      /\ load \in Seq(Loads) /\ Len(load) \in Nat /\ t + Len(q) = Len(load)
  BY Lengths
<1>2. q[1] = FrameAt[t + 1] /\ Len(q) \in Nat \ {0}
  <2> HIDE DEF q, t
  <2> QED
    BY <1>1, SegmentTail
<1>3. q[1] \in 1..Len(load)
  <2> HIDE DEF q, t
  <2> QED
    BY <1>1, <1>2 DEF FrameAt
<1> HIDE DEF q
<1>4. load[q[1]] * (frame_size - 1) \in Nat
  BY <1>1, <1>3, FrameBitsType
<1> QED
  BY <1>4 DEF BitCount, q

LEMMA SetReferenceInv ==
  ASSUME IndInv, SetReference
  PROVE  IndInv'
<1>1. /\ UNCHANGED <<load, buf, mux_bitcount, d_next_input, mapper, power, out>>
      /\ ref_bitcount' = BitCount(buf["ref"][1]) /\ buf["ref"] # << >>
  BY DEF SetReference
<1>2. ref_bitcount' \in Nat
  BY <1>1, BitCountType
<1>3. TypeOK'
  BY <1>1, <1>2 DEF IndInv, TypeOK
<1>4. /\ \A s \in Streams : Taken(s)' = Taken(s)
      /\ Muxed' = Muxed /\ Mapped' = Mapped
  BY <1>1 DEF Taken, Muxed, Mapped
<1>5. /\ Taken("id")' = Taken("id") /\ Taken("ref")' = Taken("ref")
      /\ Taken("count")' = Taken("count") /\ Taken("map")' = Taken("map")
      /\ Taken("pow")' = Taken("pow")
  BY <1>4 DEF Streams
<1> QED
  BY <1>1, <1>3, <1>4, <1>5
     DEF IndInv, FrameStreams, CtrlItems, IdStream, DataStream, BitStream, BitmapHeld,
         SymbolStream, PowerHeld, Sent

LEMMA SetCtrlStreamInv ==
  ASSUME IndInv, SetCtrlStream
  PROVE  IndInv'
<1>1. /\ UNCHANGED <<load, buf, ref_bitcount, d_next_input, mapper, power, out>>
      /\ mux_bitcount' = BitCount(buf["count"][1]) /\ buf["count"] # << >>
  BY DEF SetCtrlStream
<1>2. mux_bitcount' \in Nat
  BY <1>1, BitCountType
<1>3. TypeOK'
  BY <1>1, <1>2 DEF IndInv, TypeOK
<1>4. /\ \A s \in Streams : Taken(s)' = Taken(s)
      /\ Muxed' = Muxed /\ Mapped' = Mapped
  BY <1>1 DEF Taken, Muxed, Mapped
<1>5. /\ Taken("id")' = Taken("id") /\ Taken("ref")' = Taken("ref")
      /\ Taken("count")' = Taken("count") /\ Taken("map")' = Taken("map")
      /\ Taken("pow")' = Taken("pow")
  BY <1>4 DEF Streams
<1> QED
  BY <1>1, <1>3, <1>4, <1>5
     DEF IndInv, FrameStreams, CtrlItems, IdStream, DataStream, BitStream, BitmapHeld,
         SymbolStream, PowerHeld, Sent

LEMMA ReferenceInv ==
  ASSUME IndInv, NEW runs \in Calls, Reference(runs)
  PROVE  IndInv'
<1> DEFINE q == buf["ref"]
           p == buf["data"]
           t == Taken("ref")
           e == Len(load)
           s == FrameBits(load)
           counts == [k \in 1..runs |-> BitCount(q[k])]
           n == EqualCount(counts, runs, ref_bitcount)
           u == [k \in 1..n |-> DataBits(q[k], ref_bitcount)]
           z == FlattenSeq(u)
           y == Drop(q, n)
           a == Inputs(load, 1, Muxed)
<1>1. /\ runs <= Len(q)
      /\ UNCHANGED <<load, ref_bitcount, mux_bitcount, d_next_input, mapper, power, out>>
      /\ buf' = [buf EXCEPT !["ref"] = y, !["data"] = @ \o z]
  BY DEF Reference
<1>2. DOMAIN buf = Streams
  BY Lengths
<1>3. /\ DOMAIN buf' = Streams /\ buf'["ref"] = y /\ buf'["data"] = p \o z
      /\ \A v \in Streams \ {"ref", "data"} : buf'[v] = buf[v]
  BY <1>1, <1>2 DEF Streams
<1>4. /\ q \in Seq(Nat) /\ Segment(q, FrameAt, t) /\ t \in Nat
      /\ load \in Seq(Loads) /\ e \in Nat /\ t + Len(q) = e /\ Len(q) \in Nat
      /\ p \in Seq(Bit) /\ Len(p) \in Nat /\ a \in Nat
      /\ Segment(p, AllBits(load), a) /\ a + Len(p) = At(load, t)
  BY Lengths DEF IndInv, DataStream
<1>5. runs \in Nat
  BY TxAssumption DEF Calls
<1>6. n \in 0..runs /\ \A j \in 1..n : counts[j] = ref_bitcount
  <2> HIDE DEF counts
  <2> QED
    BY <1>5, EqualRuns
<1>7. n \in 0..Len(q) /\ n \in Nat
  <2> HIDE DEF n, q
  <2> QED
    BY <1>1, <1>4, <1>5, <1>6
<1> HIDE DEF n
<1>8. /\ y \in Seq(Nat) /\ Segment(y, FrameAt, t + n)
      /\ e - Len(y) = t + n /\ t + n \in Nat /\ t + n <= e
      /\ \A k \in 1..n : q[k] = t + k /\ t + k \in 1..e
  <2> HIDE DEF q, t, e
  <2> QED
    BY <1>4, <1>7, DropFrames
<1>9. ASSUME NEW k \in 1..n PROVE u[k] = s[t + k]
  <2> DEFINE f == t + k
  <2>1. q[k] = f /\ f \in 1..Len(load) /\ k \in 1..runs
    <3>1. k \in 1..runs
      BY <1>5, <1>6
    <3> QED
      BY <1>8, <3>1
  <2> HIDE DEF f
  <2>2. ref_bitcount = load[f] * (frame_size - 1)
    <3>1. counts[k] = BitCount(q[k])
      BY <2>1
    <3> QED
      BY <1>6, <2>1, <3>1 DEF BitCount
  <2>3. s[f] = DataBits(f, load[f] * (frame_size - 1))
    BY <1>4, <2>1, FrameBitsType
  <2> QED
    BY <2>1, <2>2, <2>3 DEF f
<1>10. s \in [1..e -> Seq(DataBit)]
  BY <1>4, FrameBitsType
<1>11. u \in [1..n -> Seq(DataBit)] /\ Continue(u, s, t, n)
  <2>1. ASSUME NEW k \in 1..n PROVE u[k] \in Seq(DataBit)
    <3> HIDE DEF u, s, e, t
    <3> QED
      BY <1>8, <1>9, <1>10
  <2>2. u = [k \in 1..n |-> u[k]]
    OBVIOUS
  <2> HIDE DEF u, s, t
  <2> QED
    BY <1>9, <2>1, <2>2 DEF Continue
<1>12. z \in Seq(DataBit) /\ Follows(z, s, e, t, n)
  <2>1. z = FlattenSeq(u)
    OBVIOUS
  <2> HIDE DEF z, u, s, t, e
  <2>2. /\ e \in Nat /\ s \in [1..e -> Seq(DataBit)] /\ t \in Nat /\ n \in Nat
        /\ t + n <= e /\ u \in [1..n -> Seq(DataBit)] /\ Continue(u, s, t, n)
    BY <1>4, <1>7, <1>8, <1>10, <1>11
  <2> QED
    BY <2>1, <2>2, JoinedNext
<1> HIDE DEF z
<1>13. /\ At(load, t) \in Nat /\ At(load, t + n) = At(load, t) + Len(z)
       /\ \A k \in 1..Len(z) : z[k] = AllBits(load)[At(load, t) + k]
  BY <1>12 DEF At, AllBits, Follows
<1>14. z \in Seq(Bit)
  <2>1. DataBit \subseteq Bit
    BY DEF DataBit, Bit
  <2>2. z = [k \in 1..Len(z) |-> z[k]] /\ \A k \in 1..Len(z) : z[k] \in DataBit
    BY <1>12, ElementOfSeq
  <2>3. \A k \in 1..Len(z) : z[k] \in Bit
    BY <2>1, <2>2
  <2> QED
    BY <1>12, <2>2, <2>3, SequenceOf DEF Follows
<1>15. /\ p \o z \in Seq(Bit) /\ Segment(p \o z, AllBits(load), a)
       /\ a + Len(p \o z) = At(load, t + n)
  <2> DEFINE w == At(load, t)
             v == At(load, t + n)
  <2>1. Segment(z, AllBits(load), a + Len(p))
    BY <1>4, <1>13 DEF Segment
  <2> HIDE DEF p, a, w, v, t
  <2>2. /\ p \in Seq(Bit) /\ Len(p) \in Nat /\ a \in Nat /\ a \in Int
        /\ a + Len(p) = w /\ Segment(p, AllBits(load), a)
        /\ v = w + Len(z) /\ Len(z) \in Nat
    BY <1>4, <1>12, <1>13 DEF w, v, Follows
  <2>3. p \o z \in Seq(Bit) /\ Len(p \o z) = Len(p) + Len(z)
    BY <1>14, <2>2, ConcatProperties
  <2>4. Segment(p \o z, AllBits(load), a)
    BY <1>14, <2>1, <2>2, SegmentConcat
  <2>5. a + Len(p \o z) = v
    BY <2>2, <2>3
  <2> QED
    BY <2>3, <2>4, <2>5 DEF v
<1>16. Taken("ref")' = t + n
  <2> HIDE DEF y
  <2> QED
    BY <1>1, <1>3, <1>8 DEF Taken
<1>17. /\ \A v \in {"id", "count", "map", "pow"} : buf'[v] = buf[v] /\ Taken(v)' = Taken(v)
       /\ Muxed' = Muxed /\ Mapped' = Mapped
  <2>1. \A v \in {"id", "count", "map", "pow"} : buf'[v] = buf[v] /\ Taken(v)' = Taken(v)
    BY <1>1, <1>3 DEF Streams, Taken
  <2> QED
    BY <1>1, <1>3, <2>1 DEF Streams, Muxed, Mapped
<1> HIDE DEF q, p, t, y, a, e, s
<1>18. TypeOK'
  BY <1>1, <1>3, <1>8, <1>15 DEF IndInv, TypeOK, Streams
<1>19. FrameStreams'
  BY <1>3, <1>8, <1>16, <1>17 DEF IndInv, FrameStreams
<1>20. DataStream'
  BY <1>1, <1>3, <1>15, <1>16, <1>17 DEF DataStream, a
<1>21. CtrlItems' /\ IdStream' /\ BitStream' /\ BitmapHeld' /\ SymbolStream' /\ PowerHeld'
       /\ Sent'
  BY <1>1, <1>3, <1>17
     DEF IndInv, CtrlItems, IdStream, BitStream, BitmapHeld, SymbolStream, PowerHeld, Sent,
         Streams
<1> QED
  BY <1>18, <1>19, <1>20, <1>21 DEF IndInv

LEMMA MuxCtrlInv ==
  ASSUME IndInv, NEW runs \in Calls, MuxCtrl(runs)
  PROVE  IndInv'
<1> DEFINE q == buf["count"]
           p == buf["ctrl"]
           t == Taken("count")
           e == Len(load)
           s == FrameCtrl(load)
           counts == [k \in 1..runs |-> BitCount(q[k])]
           n == EqualCount(counts, runs, mux_bitcount)
           u == [k \in 1..n |-> CtrlStream(mux_bitcount)]
           z == FlattenSeq(u)
           y == Drop(q, n)
           a == Muxed
<1>1. /\ runs <= Len(q)
      /\ UNCHANGED <<load, ref_bitcount, mux_bitcount, d_next_input, mapper, power, out>>
      /\ buf' = [buf EXCEPT !["count"] = y, !["ctrl"] = @ \o z]
  BY DEF MuxCtrl
<1>2. DOMAIN buf = Streams
  BY Lengths
<1>3. /\ DOMAIN buf' = Streams /\ buf'["count"] = y /\ buf'["ctrl"] = p \o z
      /\ \A v \in Streams \ {"count", "ctrl"} : buf'[v] = buf[v]
  BY <1>1, <1>2 DEF Streams
<1>4. /\ q \in Seq(Nat) /\ Segment(q, FrameAt, t) /\ t \in Nat
      /\ load \in Seq(Loads) /\ e \in Nat /\ t + Len(q) = e /\ Len(q) \in Nat
      /\ p \in Seq({0, 1}) /\ Len(p) \in Nat /\ a \in Nat
      /\ Segment(p, AllCtrl(load), a) /\ a + Len(p) = CtrlAt(load, t)
  BY Lengths DEF IndInv, CtrlItems
<1>5. runs \in Nat
  BY TxAssumption DEF Calls
<1>6. n \in 0..runs /\ \A j \in 1..n : counts[j] = mux_bitcount
  <2> HIDE DEF counts
  <2> QED
    BY <1>5, EqualRuns
<1>7. n \in 0..Len(q) /\ n \in Nat
  <2> HIDE DEF n, q
  <2> QED
    BY <1>1, <1>4, <1>5, <1>6
<1> HIDE DEF n
<1>8. /\ y \in Seq(Nat) /\ Segment(y, FrameAt, t + n)
      /\ e - Len(y) = t + n /\ t + n \in Nat /\ t + n <= e
      /\ \A k \in 1..n : q[k] = t + k /\ t + k \in 1..e
  <2> HIDE DEF q, t, e
  <2> QED
    BY <1>4, <1>7, DropFrames
<1>9. ASSUME NEW k \in 1..n PROVE u[k] = s[t + k]
  <2> DEFINE f == t + k
  <2>1. q[k] = f /\ f \in 1..Len(load) /\ k \in 1..runs
    <3>1. k \in 1..runs
      BY <1>5, <1>6
    <3> QED
      BY <1>8, <3>1
  <2> HIDE DEF f
  <2>2. mux_bitcount = load[f] * (frame_size - 1)
    <3>1. counts[k] = BitCount(q[k])
      BY <2>1
    <3> QED
      BY <1>6, <2>1, <3>1 DEF BitCount
  <2>3. s[f] = CtrlStream(load[f] * (frame_size - 1))
    BY <1>4, <2>1, FrameCtrlType
  <2> QED
    BY <2>1, <2>2, <2>3 DEF f
<1>10. s \in [1..e -> Seq({0, 1})]
  BY <1>4, FrameCtrlType
<1>11. u \in [1..n -> Seq({0, 1})] /\ Continue(u, s, t, n)
  <2>1. ASSUME NEW k \in 1..n PROVE u[k] \in Seq({0, 1})
    <3> HIDE DEF u, s, e, t
    <3> QED
      BY <1>8, <1>9, <1>10
  <2>2. u = [k \in 1..n |-> u[k]]
    OBVIOUS
  <2> HIDE DEF u, s, t
  <2> QED
    BY <1>9, <2>1, <2>2 DEF Continue
<1>12. z \in Seq({0, 1}) /\ Follows(z, s, e, t, n)
  <2>1. z = FlattenSeq(u)
    OBVIOUS
  <2> HIDE DEF z, u, s, t, e
  <2>2. /\ e \in Nat /\ s \in [1..e -> Seq({0, 1})] /\ t \in Nat /\ n \in Nat
        /\ t + n <= e /\ u \in [1..n -> Seq({0, 1})] /\ Continue(u, s, t, n)
    BY <1>4, <1>7, <1>8, <1>10, <1>11
  <2> QED
    BY <2>1, <2>2, JoinedNext
<1> HIDE DEF z
<1>13. /\ CtrlAt(load, t) \in Nat /\ CtrlAt(load, t + n) = CtrlAt(load, t) + Len(z)
       /\ \A k \in 1..Len(z) : z[k] = AllCtrl(load)[CtrlAt(load, t) + k]
  BY <1>12 DEF CtrlAt, AllCtrl, Follows
<1>14. /\ p \o z \in Seq({0, 1}) /\ Segment(p \o z, AllCtrl(load), a)
       /\ CtrlAt(load, t + n) - Len(p \o z) = a
  <2> DEFINE w == CtrlAt(load, t)
             v == CtrlAt(load, t + n)
  <2>1. Segment(z, AllCtrl(load), a + Len(p))
    BY <1>4, <1>13 DEF Segment
  <2> HIDE DEF p, a, w, v, t
  <2>2. /\ p \in Seq({0, 1}) /\ Len(p) \in Nat /\ a \in Nat /\ a \in Int
        /\ a + Len(p) = w /\ Segment(p, AllCtrl(load), a)
        /\ v = w + Len(z) /\ Len(z) \in Nat
    BY <1>4, <1>12, <1>13 DEF w, v, Follows
  <2>3. p \o z \in Seq({0, 1}) /\ Len(p \o z) = Len(p) + Len(z)
    BY <1>12, <2>2, ConcatProperties
  <2>4. Segment(p \o z, AllCtrl(load), a)
    BY <1>12, <2>1, <2>2, SegmentConcat
  <2>5. v - Len(p \o z) = a
    BY <2>2, <2>3
  <2> QED
    BY <2>3, <2>4, <2>5 DEF v
<1>15. Taken("count")' = t + n
  <2> HIDE DEF y
  <2> QED
    BY <1>1, <1>3, <1>8 DEF Taken
<1>16. /\ \A v \in {"id", "ref", "map", "pow"} : buf'[v] = buf[v] /\ Taken(v)' = Taken(v)
       /\ Mapped' = Mapped
  BY <1>1, <1>3 DEF Streams, Taken, Mapped
<1>17. Muxed' = Muxed
  BY <1>1, <1>3, <1>14, <1>15 DEF Muxed
<1> HIDE DEF q, p, t, y, a, e, s
<1>18. TypeOK'
  BY <1>1, <1>3, <1>8, <1>14 DEF IndInv, TypeOK, Streams
<1>19. FrameStreams'
  BY <1>3, <1>8, <1>15, <1>16 DEF IndInv, FrameStreams
<1>20. CtrlItems'
  BY <1>1, <1>3, <1>4, <1>14, <1>17 DEF CtrlItems, a
<1>21. IdStream' /\ DataStream' /\ BitStream' /\ BitmapHeld' /\ SymbolStream' /\ PowerHeld'
       /\ Sent'
  BY <1>1, <1>3, <1>16, <1>17
     DEF IndInv, IdStream, DataStream, BitStream, BitmapHeld, SymbolStream, PowerHeld, Sent,
         Streams
<1> QED
  BY <1>18, <1>19, <1>20, <1>21 DEF IndInv

-----------------------------------------------------------------------------
(* stream_controlled_mux_b.                                                *)

(* What is selected of an input by the first of the control items in the   *)
(* buffer.                                                                 *)
LEMMA SelectedOf ==
  ASSUME IndInv, NEW v \in {0, 1}, NEW k \in 0..Len(buf["ctrl"])
  PROVE  /\ Selected(v, k) = CountOf(buf["ctrl"], v, k)
         /\ Selected(v, k) \in Nat
         /\ Inputs(load, v, Muxed + k) = Inputs(load, v, Muxed) + Selected(v, k)
         /\ Selected(v, 0) = 0
<1> DEFINE p == buf["ctrl"]
           a == Muxed
           x == AllCtrl(load)
<1>1. /\ Len(p) \in Nat /\ a \in Nat /\ Segment(p, x, a)
  BY Lengths DEF IndInv, CtrlItems
<1>2. \A j : Selected(v, j) = CountOf(p, v, j)
  BY DEF Selected, CountOf
<1> HIDE DEF p, a, x
<1>3. /\ CountOf(x, v, a + k) = CountOf(x, v, a) + CountOf(p, v, k)
      /\ CountOf(p, v, k) \in Nat
  <2>1. k \in 0..Len(p)
    BY DEF p
  <2>2. SegmentCounts(x, v, a, p, k)
    BY <1>1, <2>1, CountSegment
  <2> QED
    BY <2>2 DEF SegmentCounts
<1> QED
  BY <1>2, <1>3, CountNone DEF Inputs, p, a, x

LEMMA SelectedUpTo ==
  ASSUME IndInv, NEW v \in {0, 1}, NEW n \in 0..Len(buf["ctrl"]), NEW k \in 1..n,
         buf["ctrl"][k] = v
  PROVE  Selected(v, k) \in 1..Selected(v, n)
<1> DEFINE p == buf["ctrl"]
<1>1. Len(p) \in Nat
  BY Lengths
<1>2. n \in Nat /\ k \in 0..n /\ k # 0 /\ n \in 0..Len(p) /\ k \in 0..Len(p)
  BY <1>1
<1>3. /\ Selected(v, k) = CountOf(p, v, k) /\ Selected(v, n) = CountOf(p, v, n)
      /\ Selected(v, k) \in Nat /\ Selected(v, n) \in Nat
  BY <1>2, SelectedOf
<1>4. CountOf(p, v, k) <= CountOf(p, v, n) /\ CountOf(p, v, k) >= 1
  BY <1>2, CountMonotonic
<1> DEFINE i == Selected(v, k)
           j == Selected(v, n)
<1>5. i \in Nat /\ j \in Nat /\ i <= j /\ i >= 1
  BY <1>3, <1>4
<1> HIDE DEF i, j
<1>6. i \in 1..j
  BY <1>5
<1> QED
  BY <1>6 DEF i, j

LEMMA MuxInv ==
  ASSUME IndInv, NEW n \in Calls, Mux(n)
  PROVE  IndInv'
<1> DEFINE p == buf["ctrl"]
           ids == buf["idbits"]
           data == buf["data"]
           bits == buf["bits"]
           fits(k) == Selected(0, k) <= Len(ids) /\ Selected(1, k) <= Len(data)
           d == Max({k \in 0..n : fits(k)})
           item(k) == IF p[k] = 0 THEN ids[Selected(0, k)] ELSE data[Selected(1, k)]
           y == [k \in 1..d |-> item(k)]
           a == Muxed
           i == Inputs(load, 0, a)
           j == Inputs(load, 1, a)
           f == Selected(0, d)
           g == Selected(1, d)
<1>1. /\ n <= Len(p)
      /\ UNCHANGED <<load, ref_bitcount, mux_bitcount, mapper, power, out>>
      /\ buf' = [buf EXCEPT !["ctrl"] = Drop(@, d), !["idbits"] = Drop(@, f),
                            !["data"] = Drop(@, g), !["bits"] = @ \o y]
      /\ d_next_input' = IF d = n THEN 0 ELSE p[d + 1] + 1
  BY DEF Mux
<1>2. DOMAIN buf = Streams
  BY Lengths
<1>3. /\ DOMAIN buf' = Streams
      /\ buf'["ctrl"] = Drop(p, d) /\ buf'["idbits"] = Drop(ids, f)
      /\ buf'["data"] = Drop(data, g) /\ buf'["bits"] = bits \o y
      /\ \A s \in Streams \ {"ctrl", "idbits", "data", "bits"} : buf'[s] = buf[s]
  <2> HIDE DEF d, y, f, g
  <2> QED
    BY <1>1, <1>2 DEF Streams
<1>4. /\ p \in Seq({0, 1}) /\ Len(p) \in Nat /\ a \in Nat
      /\ Segment(p, AllCtrl(load), a) /\ a + Len(p) = CtrlAt(load, Taken("count"))
      /\ ids \in Seq(Bit) /\ Len(ids) \in Nat /\ Segment(ids, IdAt, i) /\ i \in Nat
      /\ i + Len(ids) = Taken("id") * dsubc
      /\ data \in Seq(Bit) /\ Len(data) \in Nat /\ Segment(data, AllBits(load), j)
      /\ j \in Nat /\ j + Len(data) = At(load, Taken("ref"))
      /\ At(load, Taken("ref")) \in Nat /\ CtrlAt(load, Taken("count")) \in Nat
  BY Lengths DEF IndInv, CtrlItems, IdStream, DataStream
<1>5. /\ bits \in Seq(Bit) /\ Len(bits) \in Nat
      /\ BitsBefore(load, Mapped) \in Nat
      /\ BitsBefore(load, Mapped) + Len(bits) = a
      /\ Segment(bits, MuxedAt(load), BitsBefore(load, Mapped))
  BY Lengths DEF IndInv, BitStream
<1>6. n \in Nat /\ n \in 0..Len(p)
  <2>1. n \in Nat
    BY TxAssumption DEF Calls
  <2> QED
    BY <1>1, <1>4, <2>1
<1>7. d \in 0..n /\ fits(d)
  <2> DEFINE T == {k \in 0..n : fits(k)}
  <2>1. 0 \in T
    <3>1. Selected(0, 0) = 0 /\ Selected(1, 0) = 0
      BY <1>6, SelectedOf
    <3>2. fits(0)
      BY <1>4, <3>1
    <3> QED
      BY <1>6, <3>2
  <2>2. T \in SUBSET Nat /\ \A k \in T : k <= n
    BY <1>6
  <2>3. d = Max(T)
    OBVIOUS
  <2> HIDE DEF T, d
  <2>4. d \in T
    BY <1>6, <2>1, <2>2, <2>3, Greatest
  <2> QED
    BY <2>4 DEF T
<1> HIDE DEF d
<1>8. d \in 0..Len(p) /\ d \in Nat /\ d <= n
  <2> HIDE DEF p
  <2> QED
    BY <1>1, <1>4, <1>6, <1>7
<1>9. /\ f \in Nat /\ g \in Nat /\ f <= Len(ids) /\ g <= Len(data)
      /\ Inputs(load, 0, a + d) = i + f /\ Inputs(load, 1, a + d) = j + g
  <2>1. f <= Len(ids) /\ g <= Len(data)
    BY <1>7
  <2>2. /\ Selected(0, d) \in Nat /\ Selected(1, d) \in Nat
        /\ Inputs(load, 0, Muxed + d) = Inputs(load, 0, Muxed) + Selected(0, d)
        /\ Inputs(load, 1, Muxed + d) = Inputs(load, 1, Muxed) + Selected(1, d)
    BY <1>8, SelectedOf
  <2> QED
    BY <2>1, <2>2
<1>10. ASSUME NEW k \in 1..d PROVE y[k] = MuxedAt(load)[a + k] /\ y[k] \in Bit
  <2>1. k \in 1..Len(p) /\ k \in 0..Len(p) /\ a + k \in Nat \ {0}
    <3> HIDE DEF p, a
    <3> QED
      BY <1>4, <1>8
  <2>2. p[k] = AllCtrl(load)[a + k] /\ p[k] \in {0, 1}
    BY <1>4, <2>1, ElementOfSeq DEF Segment
  <2>3. CASE p[k] = 0
    <3> DEFINE h == Selected(0, k)
    <3>1. h \in 1..f
      BY <1>8, <2>3, SelectedUpTo
    <3>2. Inputs(load, 0, a + k) = i + h
      BY <2>1, SelectedOf
    <3>3. y[k] = ids[h]
      BY <2>3
    <3>4. MuxedAt(load)[a + k] = IdAt[i + h]
      BY <2>1, <2>2, <2>3, <3>2 DEF MuxedAt
    <3> HIDE DEF h, y, f, ids, i
    <3>5. h \in 1..Len(ids)
      BY <1>4, <1>9, <3>1
    <3>6. ids[h] = IdAt[i + h] /\ ids[h] \in Bit
      BY <1>4, <3>5, ElementOfSeq DEF Segment
    <3> QED
      BY <3>3, <3>4, <3>6
  <2>4. CASE p[k] # 0
    <3> DEFINE h == Selected(1, k)
    <3>0. p[k] = 1
      BY <2>2, <2>4
    <3>1. h \in 1..g
      BY <1>8, <3>0, SelectedUpTo
    <3>2. Inputs(load, 1, a + k) = j + h
      BY <2>1, SelectedOf
    <3>3. y[k] = data[h]
      BY <2>4
    <3>4. MuxedAt(load)[a + k] = AllBits(load)[j + h]
      BY <2>1, <2>2, <2>4, <3>2 DEF MuxedAt
    <3> HIDE DEF h, y, g, data, j
    <3>5. h \in 1..Len(data)
      BY <1>4, <1>9, <3>1
    <3>6. data[h] = AllBits(load)[j + h] /\ data[h] \in Bit
      BY <1>4, <3>5, ElementOfSeq DEF Segment
    <3> QED
      BY <3>3, <3>4, <3>6
  <2> QED
    BY <2>3, <2>4
<1>11. y \in Seq(Bit) /\ Len(y) = d /\ Segment(y, MuxedAt(load), a)
  <2>1. y = [k \in 1..d |-> y[k]]
    OBVIOUS
  <2> HIDE DEF y
  <2>2. y \in Seq(Bit) /\ Len(y) = d
    BY <1>8, <1>10, <2>1, SequenceOf
  <2> QED
    BY <1>10, <2>2 DEF Segment
<1> HIDE DEF y
<1>12. /\ Drop(p, d) \in Seq({0, 1}) /\ Len(Drop(p, d)) = Len(p) - d
       /\ Segment(Drop(p, d), AllCtrl(load), a + d)
  <2> HIDE DEF p, a
  <2>1. p \in Seq({0, 1}) /\ a \in Int /\ Segment(p, AllCtrl(load), a) /\ d \in 0..Len(p)
    BY <1>4, <1>8
  <2> QED
    BY <2>1, SegmentDrop DEF Drop
<1>13. /\ Drop(ids, f) \in Seq(Bit) /\ Len(Drop(ids, f)) = Len(ids) - f
       /\ Segment(Drop(ids, f), IdAt, i + f)
  <2> HIDE DEF ids, i, f
  <2>1. ids \in Seq(Bit) /\ i \in Int /\ Segment(ids, IdAt, i) /\ f \in 0..Len(ids)
    BY <1>4, <1>9
  <2> QED
    BY <2>1, SegmentDrop DEF Drop
<1>14. /\ Drop(data, g) \in Seq(Bit) /\ Len(Drop(data, g)) = Len(data) - g
       /\ Segment(Drop(data, g), AllBits(load), j + g)
  <2> HIDE DEF data, j, g
  <2>1. data \in Seq(Bit) /\ j \in Int /\ Segment(data, AllBits(load), j) /\ g \in 0..Len(data)
    BY <1>4, <1>9
  <2> QED
    BY <2>1, SegmentDrop DEF Drop
<1>15. /\ bits \o y \in Seq(Bit)
       /\ BitsBefore(load, Mapped) + Len(bits \o y) = a + d
       /\ Segment(bits \o y, MuxedAt(load), BitsBefore(load, Mapped))
  <2> DEFINE w == BitsBefore(load, Mapped)
  <2> HIDE DEF w, bits, a
  <2>1. /\ bits \in Seq(Bit) /\ Len(bits) \in Nat /\ w \in Nat /\ w \in Int
        /\ w + Len(bits) = a /\ Segment(bits, MuxedAt(load), w)
        /\ Segment(y, MuxedAt(load), w + Len(bits))
    BY <1>5, <1>11 DEF w
  <2>2. bits \o y \in Seq(Bit) /\ Len(bits \o y) = Len(bits) + Len(y)
    BY <1>11, <2>1, ConcatProperties
  <2>3. Segment(bits \o y, MuxedAt(load), w)
    BY <1>11, <2>1, SegmentConcat
  <2>4. w + Len(bits \o y) = a + d
    BY <1>8, <1>11, <2>1, <2>2
  <2> QED
    BY <2>2, <2>3, <2>4 DEF w
<1>16. /\ \A s \in {"id", "ref", "count", "map", "pow"} : buf'[s] = buf[s]
       /\ \A s \in {"id", "ref", "count", "map", "pow"} : Taken(s)' = Taken(s)
       /\ Mapped' = Mapped
  BY <1>1, <1>3 DEF Streams, Taken, Mapped
<1>17. Muxed' = a + d
  <2> DEFINE w == CtrlAt(load, Taken("count"))
             m == Muxed'
  <2>1. m = w - (Len(p) - d)
    BY <1>1, <1>3, <1>12, <1>16 DEF Muxed
  <2> HIDE DEF m, w, a, p
  <2>2. w \in Nat /\ a + Len(p) = w /\ Len(p) \in Nat /\ a \in Nat
    BY <1>4 DEF w
  <2>3. m = a + d
    BY <1>8, <2>1, <2>2
  <2> QED
    BY <2>3 DEF m
<1>18. d_next_input' \in 0..2
  <2>1. CASE d = n
    BY <1>1, <2>1
  <2>2. CASE d # n
    <3>1. d + 1 \in 1..Len(p)
      <4> HIDE DEF p
      <4> QED
        BY <1>6, <1>7, <2>2
    <3>2. p[d + 1] \in {0, 1}
      BY <1>4, <3>1, ElementOfSeq
    <3> QED
      BY <1>1, <2>2, <3>2
  <2> QED
    BY <2>1, <2>2
<1>19. TypeOK'
  <2> HIDE DEF p, ids, data, bits, f, g
  <2> QED
    BY <1>1, <1>3, <1>12, <1>13, <1>14, <1>15, <1>16, <1>18 DEF IndInv, TypeOK
<1>20. FrameStreams'
  BY <1>16 DEF IndInv, FrameStreams
<1>21. CtrlItems'
  <2>1. a + d \in Nat
    BY <1>4, <1>8
  <2> QED
    BY <1>1, <1>3, <1>12, <1>17, <2>1 DEF CtrlItems
<1>22. IdStream'
  <2> DEFINE w == Taken("id") * dsubc
  <2>1. (i + f) + Len(Drop(ids, f)) = w
    <3> HIDE DEF w, i, f, ids
    <3>1. i + Len(ids) = w /\ i \in Nat /\ f \in Nat /\ Len(ids) \in Nat
      BY <1>4, <1>9 DEF w
    <3> QED
      BY <1>13, <3>1
  <2> QED
    BY <1>1, <1>3, <1>9, <1>13, <1>16, <1>17, <2>1 DEF IdStream
<1>23. DataStream'
  <2> DEFINE w == At(load, Taken("ref"))
  <2>1. (j + g) + Len(Drop(data, g)) = w
    <3> HIDE DEF w, j, g, data
    <3>1. j + Len(data) = w /\ j \in Nat /\ g \in Nat /\ Len(data) \in Nat
      BY <1>4, <1>9 DEF w
    <3> QED
      BY <1>14, <3>1
  <2> QED
    BY <1>1, <1>3, <1>9, <1>14, <1>16, <1>17, <2>1 DEF DataStream
<1>24. BitStream'
  BY <1>1, <1>3, <1>15, <1>16, <1>17 DEF BitStream
<1>25. BitmapHeld' /\ SymbolStream' /\ PowerHeld' /\ Sent'
  BY <1>1, <1>3, <1>16 DEF IndInv, BitmapHeld, SymbolStream, PowerHeld, Sent, Streams
<1> QED
  BY <1>19, <1>20, <1>21, <1>22, <1>23, <1>24, <1>25 DEF IndInv

-----------------------------------------------------------------------------
(* multiply_frame_fc.                                                      *)

(* The vectors taken are those of the frames whose symbols are scaled.     *)
LEMMA PowerVectors ==
  ASSUME NEW hold \in Nat, NEW counter \in 0..(frame_size - 1), NEW n \in Nat,
         NEW powers \in Seq(Nat), Segment(powers, FrameAt, hold),
         NEW c \in Nat, c = hold * frame_size - counter,
         NEW s, s.hold = hold, s.counter = counter,
         NEW p, p = PowerTaken(s, n, powers)
  PROVE  InStep(frame_size, p, hold, c, n, Len(powers))
<1> DEFINE F == frame_size
<1>1. p = Vectors(F, s, n, powers)
  BY DEF PowerTaken, Vectors
<1>2. F \in Nat \ {0} /\ counter \in 0..(F - 1) /\ c = hold * F - counter
  BY Sizes
<1> HIDE DEF F
<1>3. InStep(F, p, hold, c, n, Len(powers))
  BY <1>1, <1>2, VectorsTaken
<1> QED
  BY <1>3 DEF F

LEMMA PowerInv ==
  ASSUME IndInv, NEW n \in Calls, Power(n)
  PROVE  IndInv'
<1> DEFINE p == PowerTaken(power, n, buf["pow"])
           q == buf["symbols"]
           v == buf["pow"]
           y == [k \in 1..p.done |-> [map |-> q[k].map, bits |-> q[k].bits,
                                      power |-> p.used[k]]]
           t == Taken("pow")
           e == Len(load)
           i == Len(out)
<1>1. /\ UNCHANGED <<load, ref_bitcount, mux_bitcount, d_next_input, mapper>>
      /\ power' = p.next
      /\ out' = out \o y
      /\ n <= Len(q)
  BY DEF Power
<1>2. DOMAIN buf = Streams
  BY Lengths
<1>3. /\ DOMAIN buf' = Streams
      /\ buf'["symbols"] = Drop(q, p.done)
      /\ buf'["pow"] = Drop(v, p.taken)
      /\ \A s \in Streams \ {"symbols", "pow"} : buf'[s] = buf[s]
  BY <1>2 DEF Power, Streams
<1>4. n \in Nat
  BY TxAssumption DEF Calls
<1>5. /\ v \in Seq(Nat) /\ Len(v) \in Nat /\ Segment(v, FrameAt, t) /\ t \in Nat
      /\ e \in Nat /\ t + Len(v) = e
      /\ q \in Seq(Symbol) /\ Len(q) \in Nat /\ Segment(q, SymbolAt(load), i)
      /\ out \in Seq(SentSymbol) /\ i \in Nat /\ Segment(out, SentAt(load), 0)
  BY Lengths DEF IndInv, SymbolStream, Sent
<1>6. /\ power.hold = t /\ power.counter \in 0..(frame_size - 1)
      /\ i = t * frame_size - power.counter
  BY DEF IndInv, PowerHeld, TypeOK
<1>7. /\ p.done \in 0..n
      /\ p.taken \in 0..Len(v)
      /\ p.next.hold = t + p.taken
      /\ p.next.counter \in 0..(frame_size - 1)
      /\ i + p.done = (t + p.taken) * frame_size - p.next.counter
      /\ \A j \in 1..p.done : p.used[j] = FrameOf(i + j)
      /\ p.next = [hold |-> p.next.hold, counter |-> p.next.counter]
  <2> DEFINE c == power.counter
             x == PowerTaken(power, n, v)
  <2>1. c \in 0..(frame_size - 1) /\ i \in Nat /\ i = t * frame_size - c
    BY <1>5, <1>6
  <2>2. power.hold = t /\ power.counter = c /\ x = PowerTaken(power, n, v)
    BY <1>6
  <2> HIDE DEF c, i, t, v, x
  <2>3. v \in Seq(Nat) /\ Segment(v, FrameAt, t) /\ t \in Nat
    BY <1>5
  <2>4. InStep(frame_size, x, t, i, n, Len(v))
    BY <1>4, <2>1, <2>2, <2>3, PowerVectors
  <2> QED
    BY <2>4 DEF InStep, FrameOf, FrameNumber, c, i, t, v, x
<1> HIDE DEF p
<1> DEFINE d == p.done
           g == p.taken
<1>8. d \in 0..Len(q) /\ d \in Nat /\ g \in Nat /\ g \in 0..Len(v)
  <2> DEFINE j == Len(q)
             k == Len(v)
  <2>1. d \in 0..n /\ n <= j /\ j \in Nat /\ g \in 0..k /\ k \in Nat
    BY <1>1, <1>5, <1>7
  <2> HIDE DEF d, g, j, k
  <2>2. d \in 0..j /\ d \in Nat /\ g \in Nat
    BY <1>4, <2>1
  <2> QED
    BY <2>1, <2>2 DEF j, k
<1>9. /\ Drop(v, g) \in Seq(Nat) /\ Segment(Drop(v, g), FrameAt, t + g)
      /\ e - Len(Drop(v, g)) = t + g /\ t + g \in Nat
  <2> HIDE DEF v, g, t, e
  <2>1. /\ v \in Seq(Nat) /\ t \in Nat /\ e \in Nat /\ t + Len(v) = e
        /\ Segment(v, FrameAt, t) /\ g \in 0..Len(v)
    BY <1>5, <1>8
  <2> QED
    BY <2>1, DropFrames
<1>10. /\ Drop(q, d) \in Seq(Symbol) /\ Len(Drop(q, d)) = Len(q) - d
       /\ Segment(Drop(q, d), SymbolAt(load), i + d)
  <2> HIDE DEF q, d, i
  <2>1. q \in Seq(Symbol) /\ Segment(q, SymbolAt(load), i) /\ i \in Int /\ d \in 0..Len(q)
    BY <1>5, <1>8
  <2> QED
    BY <2>1, SegmentDrop DEF Drop
<1>11. y \in Seq(SentSymbol) /\ Len(y) = d /\ Segment(y, SentAt(load), i)
  <2>1. ASSUME NEW k \in 1..d PROVE y[k] = SentAt(load)[i + k] /\ y[k] \in SentSymbol
    <3> DEFINE m == i + k
    <3>1. k \in 1..Len(q) /\ m \in Nat \ {0}
      <4> HIDE DEF i, q, d
      <4> QED
        BY <1>5, <1>8
    <3>2. q[k] = SymbolAt(load)[m] /\ q[k] \in Symbol
      BY <1>5, <3>1, ElementOfSeq DEF Segment
    <3>3. y[k] = [map |-> q[k].map, bits |-> q[k].bits, power |-> FrameOf(m)]
      BY <1>7
    <3> HIDE DEF y, q, m
    <3>4. SentAt(load)[m] = [map |-> SymbolAt(load)[m].map, bits |-> SymbolAt(load)[m].bits,
                             power |-> FrameOf(m)]
      BY <3>1 DEF SentAt
    <3>5. FrameOf(m) \in Nat
      <4> DEFINE F == frame_size
                 b == m - 1
      <4>1. b \in Nat /\ F \in Nat \ {0}
        BY <3>1, Sizes
      <4>2. FrameOf(m) = (b \div F) + 1
        BY DEF FrameOf
      <4> HIDE DEF F, b
      <4>3. b \div F \in Nat
        BY <4>1, DivMod
      <4> QED
        BY <4>2, <4>3
    <3>6. q[k].map \in Nat /\ q[k].bits \in Seq(Bit)
      BY <3>2 DEF Symbol
    <3> QED
      BY <3>2, <3>3, <3>4, <3>5, <3>6 DEF SentSymbol, m
  <2>2. y = [k \in 1..d |-> y[k]]
    OBVIOUS
  <2> HIDE DEF y, d
  <2>3. Len(y) = d /\ y \in Seq(SentSymbol)
    BY <1>8, <2>1, <2>2, SequenceOf
  <2> QED
    BY <2>1, <2>3 DEF Segment
<1> HIDE DEF y
<1>12. /\ out \o y \in Seq(SentSymbol) /\ Len(out \o y) = i + d
       /\ Segment(out \o y, SentAt(load), 0)
  <2>1. out \o y \in Seq(SentSymbol) /\ Len(out \o y) = Len(out) + Len(y)
    BY <1>5, <1>11, ConcatProperties
  <2>2. Segment(y, SentAt(load), 0 + Len(out))
    BY <1>5, <1>11
  <2>3. Segment(out \o y, SentAt(load), 0)
    BY <1>5, <1>11, <2>2, SegmentConcat
  <2> QED
    BY <1>11, <2>1, <2>3
<1>13. Mapped' = Mapped
  <2> DEFINE j == Len(q)
             m == Mapped
             b == Mapped'
  <2>1. b = (i + d) + (j - d) /\ m = i + j /\ j \in Nat /\ i \in Nat
    BY <1>1, <1>3, <1>5, <1>10, <1>12 DEF Mapped
  <2> HIDE DEF b, m, i, d, j
  <2>2. b = m
    BY <1>8, <2>1
  <2> QED
    BY <2>2 DEF b, m
<1>14. Taken("pow")' = t + g
  BY <1>1, <1>3, <1>9 DEF Taken
<1>15. /\ \A s \in {"id", "ref", "count", "map"} : buf'[s] = buf[s]
       /\ \A s \in {"id", "ref", "count", "map"} : Taken(s)' = Taken(s)
       /\ Muxed' = Muxed
  <2>1. \A s \in {"id", "ref", "count", "map"} : buf'[s] = buf[s] /\ Taken(s)' = Taken(s)
    BY <1>1, <1>3 DEF Streams, Taken
  <2> QED
    BY <1>1, <1>3, <2>1 DEF Muxed, Streams
<1>16. power' = [hold |-> t + g, counter |-> power'.counter]
       /\ power'.counter \in 0..(frame_size - 1)
       /\ i + d = (t + g) * frame_size - power'.counter
  BY <1>1, <1>7
<1> HIDE DEF q, v, t, e, i, d, g
<1>17. TypeOK'
  <2>1. power' \in [hold : Nat, counter : 0..(frame_size - 1)]
    BY <1>9, <1>16
  <2> QED
    BY <1>1, <1>3, <1>9, <1>15, <2>1 DEF IndInv, TypeOK, Streams, d, g
<1>18. FrameStreams'
  BY <1>3, <1>9, <1>14, <1>15 DEF IndInv, FrameStreams, g
<1>19. SymbolStream' /\ Sent'
  BY <1>1, <1>3, <1>10, <1>12 DEF SymbolStream, Sent, d
<1>20. PowerHeld'
  BY <1>1, <1>12, <1>14, <1>16 DEF PowerHeld
<1>21. CtrlItems' /\ IdStream' /\ DataStream' /\ BitStream' /\ BitmapHeld'
  BY <1>1, <1>3, <1>13, <1>15
     DEF IndInv, CtrlItems, IdStream, DataStream, BitStream, BitmapHeld, Streams
<1> QED
  BY <1>17, <1>18, <1>19, <1>20, <1>21 DEF IndInv

LEMMA StutterInv ==
  ASSUME IndInv, UNCHANGED vars
  PROVE  IndInv'
BY DEF vars, IndInv, TypeOK, FrameStreams, CtrlItems, IdStream, DataStream, BitStream,
       BitmapHeld, SymbolStream, PowerHeld, Sent, Taken, Muxed, Mapped

-----------------------------------------------------------------------------
(* generic_mapper_bcv.                                                     *)

(* The locals of a call that began after d symbols and has at least e bit  *)
(* loadings left, after one of its turns.  The bitmap is copied back only  *)
(* when the call has fetched one.                                          *)
Mapping(e, d) ==
  {s \in MapLocals :
     LET c == d + Len(s.symbols)
         m == Len(load) - Len(s.maps)
     IN  /\ AfterSymbols(load, c, m, s)
         /\ m \in Nat /\ Segment(s.maps, FrameAt, m)
         /\ e <= Len(s.maps)
         /\ BitsBefore(load, c) + Len(s.bits) = Muxed
         /\ Segment(s.bits, MuxedAt(load), BitsBefore(load, c))
         /\ Segment(s.symbols, SymbolAt(load), d)
         /\ s.copy \/ s.counter \in {0, 1} \/ s.bitmap = mapper.bitmap}

(* The bits cut off for a symbol are its own.                              *)
LEMMA Cutting ==
  ASSUME NEW l \in Seq(Loads), NEW c \in Nat, c < Len(l) * frame_size,
         NEW q, NEW r, q = c \div frame_size, r = c % frame_size,
         NEW need, need = (IF r = 0 THEN dsubc ELSE l[q + 1]),
         NEW bits \in Seq(Bit), Segment(bits, MuxedAt(l), BitsBefore(l, c)),
         need <= Len(bits),
         NEW y, y = [map |-> IF r = 0 THEN 0 ELSE q + 1, bits |-> Take(bits, need)],
         NEW z, z = Drop(bits, need)
  PROVE  /\ y = SymbolAt(l)[c + 1] /\ y \in Symbol
         /\ z \in Seq(Bit) /\ Len(z) = Len(bits) - need /\ need \in Nat
         /\ BitsBefore(l, c + 1) = BitsBefore(l, c) + need
         /\ Segment(z, MuxedAt(l), BitsBefore(l, c + 1))
<1> DEFINE a == BitsBefore(l, c)
           g == q + 1
           t == SymbolOf(l, g, r)
<1>1. /\ SymbolAt(l)[c + 1] = t
      /\ HasBits(l, t, a, need)
  BY SymbolBits
<1>2. /\ l[g] \in Nat \ {0} /\ a \in Nat
      /\ BitsBefore(l, c + 1) = a + (IF r = 0 THEN dsubc ELSE l[g])
  BY SymbolStart
<1>3. need \in Nat /\ need \in 0..Len(bits) /\ BitsBefore(l, c + 1) = a + need
  <2>1. need \in Nat
    BY <1>2, Sizes
  <2>2. Len(bits) \in Nat
    BY LenProperties
  <2> HIDE DEF a
  <2> QED
    BY <1>2, <2>1, <2>2
<1>4. t.map = (IF r = 0 THEN 0 ELSE g)
  BY DEF SymbolOf
<1> HIDE DEF a, t, g
<1>5. t.bits = Take(bits, need)
  <2> DEFINE u == t.bits
             v == Take(bits, need)
  <2>1. u \in Seq(Bit) /\ Len(u) = need /\ \A b \in 1..need : u[b] = MuxedAt(l)[a + b]
    BY <1>1 DEF HasBits
  <2> HIDE DEF u
  <2>2. u = [b \in 1..need |-> u[b]]
    BY <2>1
  <2>3. \A b \in 1..need : b \in 1..Len(bits) /\ bits[b] = u[b]
    <3>1. ASSUME NEW b \in 1..need PROVE b \in 1..Len(bits)
      BY <1>3
    <3>2. \A b \in 1..Len(bits) : bits[b] = MuxedAt(l)[a + b]
      BY DEF Segment, a
    <3> QED
      BY <2>1, <3>1, <3>2
  <2>4. v = [b \in 1..need |-> bits[b]]
    <3>1. v = [b \in 1..(need - 1 + 1) |-> bits[1 + b - 1]]
      BY <1>3 DEF Take
    <3>2. need - 1 + 1 = need /\ \A b \in 1..need : 1 + b - 1 = b
      BY <1>3
    <3> QED
      BY <3>1, <3>2
  <2> HIDE DEF v
  <2>5. u = v
    BY <2>2, <2>3, <2>4
  <2> QED
    BY <2>5 DEF u, v
<1>6. y = t /\ y \in Symbol
  <2>1. t = [map |-> t.map, bits |-> t.bits] /\ t.map \in Nat /\ t.bits \in Seq(Bit)
    BY <1>1 DEF HasBits
  <2>2. y = [map |-> t.map, bits |-> t.bits]
    BY <1>4, <1>5 DEF g
  <2> QED
    BY <2>1, <2>2 DEF Symbol
<1>7. /\ z \in Seq(Bit) /\ Len(z) = Len(bits) - need
      /\ Segment(z, MuxedAt(l), a + need)
  <2>1. bits \in Seq(Bit) /\ Segment(bits, MuxedAt(l), a) /\ a \in Int
        /\ need \in 0..Len(bits)
    BY <1>2, <1>3 DEF a
  <2>2. z = SubSeq(bits, need + 1, Len(bits))
    BY DEF Drop
  <2>3. /\ SubSeq(bits, need + 1, Len(bits)) \in Seq(Bit)
        /\ Len(SubSeq(bits, need + 1, Len(bits))) = Len(bits) - need
        /\ Segment(SubSeq(bits, need + 1, Len(bits)), MuxedAt(l), a + need)
    BY ZenonT(60), <2>1, SegmentDrop
  <2> QED
    BY <2>2, <2>3
<1> QED
  BY <1>1, <1>3, <1>6, <1>7 DEF a

LEMMA MapTurn ==
  ASSUME load \in Seq(Loads), Muxed \in Nat, Muxed <= CtrlAt(load, Len(load)),
         NEW e \in Nat, NEW d \in Nat, NEW s \in Mapping(e + 1, d)
  PROVE  MapSymbol(s) \in Mapping(e, d)
<1> DEFINE F == frame_size
           n == Len(load)
           c == d + Len(s.symbols)
           m == n - Len(s.maps)
           q == c \div F
           r == c % F
           g == q + 1
           a == BitsBefore(load, c)
           t == MapSymbol(s)
           bitmap == NextBitmap(s)
           fetch == s.counter \in {0, 1}
           need == IF fetch THEN BitsOf(bitmap) ELSE s.need_bits
<1>1. F \in Nat \ {0} /\ F >= 2 /\ n \in Nat /\ dsubc \in Nat \ {0}
  BY Sizes, FrameBitsType
<1>2. /\ s \in MapLocals
      /\ c <= n * F /\ s.counter = r
      /\ IF s.counter \in {0, 1} THEN m = q
         ELSE m = q + 1 /\ s.bitmap = m /\ s.need_bits = load[m]
      /\ m \in Nat /\ Segment(s.maps, FrameAt, m)
      /\ e + 1 <= Len(s.maps)
      /\ a + Len(s.bits) = Muxed
      /\ Segment(s.bits, MuxedAt(load), a)
      /\ Segment(s.symbols, SymbolAt(load), d)
      /\ s.copy \/ s.counter \in {0, 1} \/ s.bitmap = mapper.bitmap
  BY DEF Mapping, AfterSymbols
<1>3. /\ s.bitmap \in Nat \cup {-1} /\ s.need_bits \in Nat /\ s.need_bitmap \in {0, 1}
      /\ s.counter \in Nat /\ s.bits \in Seq(Bit) /\ s.maps \in Seq(Nat)
      /\ s.symbols \in Seq(Symbol) /\ s.copy \in BOOLEAN /\ s.stopped \in BOOLEAN
      /\ Len(s.symbols) \in Nat /\ Len(s.maps) \in Nat /\ Len(s.bits) \in Nat
  BY <1>2, LenProperties DEF MapLocals
<1>4. c \in Nat /\ q \in Nat /\ r \in 0..(F - 1)
  <2>1. c \in Nat
    <3> DEFINE k == Len(s.symbols)
    <3>1. k \in Nat
      BY <1>3
    <3> HIDE DEF k
    <3> QED
      BY <3>1
  <2> HIDE DEF c
  <2> QED
    BY <1>1, <2>1, DivMod
<1>5. e <= Len(s.maps)
  <2> DEFINE k == Len(s.maps)
  <2>1. k \in Nat /\ e + 1 <= k
    BY <1>2, <1>3
  <2> HIDE DEF k
  <2> QED
    BY <2>1 DEF k
<1>6. CASE s.stopped
  <2>1. t = s
    BY <1>6 DEF MapSymbol
  <2> QED
    BY <1>2, <1>5, <2>1 DEF Mapping, AfterSymbols
<1>7. CASE ~s.stopped
  <2>1. /\ Tail(s.maps) \in Seq(Nat) /\ Len(Tail(s.maps)) = Len(s.maps) - 1
        /\ Segment(Tail(s.maps), FrameAt, m + 1)
        /\ Head(s.maps) = m + 1 /\ m + 1 \in 1..n
    <3> DEFINE z == s.maps
               k == Len(z)
    <3>1. z \in Seq(Nat) /\ m \in Nat /\ Segment(z, FrameAt, m) /\ m = n - k /\ k \in Nat
          /\ e + 1 <= k
      BY <1>2, <1>3
    <3>2. k # 0 /\ m + 1 \in 1..n
      <4> HIDE DEF m, n, z, k
      <4> QED
        BY <1>1, <3>1
    <3>3. z # << >>
      BY <3>2, EmptySeq
    <3> HIDE DEF z, m
    <3>4. /\ Head(z) = FrameAt[m + 1]
          /\ Tail(z) \in Seq(Nat) /\ Len(Tail(z)) = Len(z) - 1
          /\ Segment(Tail(z), FrameAt, m + 1)
      BY <3>1, <3>3, SegmentTail
    <3>5. Head(z) = m + 1
      BY <3>1, <3>4 DEF FrameAt
    <3> QED
      BY <3>2, <3>4, <3>5 DEF z, m
  <2>2. /\ bitmap = (IF r = 0 THEN 0 ELSE g)
        /\ need = (IF r = 0 THEN dsubc ELSE load[g])
        /\ r # 0 => g \in 1..n
        /\ g \in Nat /\ g # 0
    <3>1. g \in Nat /\ g # 0 /\ g # -1
      <4> HIDE DEF q
      <4> QED
        BY <1>4
    <3>2. CASE r = 0
      <4>1. bitmap = 0 /\ fetch
        BY <1>2, <3>2 DEF NextBitmap
      <4> HIDE DEF bitmap, fetch, g, r
      <4> QED
        BY <3>1, <3>2, <4>1 DEF BitsOf
    <3>3. CASE r = 1
      <4>1. bitmap = g /\ fetch /\ g \in 1..n
        <5>1. bitmap = Head(s.maps) /\ fetch
          BY <1>2, <3>3 DEF NextBitmap
        <5>2. m = q
          BY <1>2, <3>3
        <5> HIDE DEF m, bitmap, fetch
        <5> QED
          BY <2>1, <5>1, <5>2
      <4> HIDE DEF bitmap, fetch, g, r
      <4> QED
        BY <3>1, <3>3, <4>1 DEF BitsOf
    <3>4. CASE r \notin {0, 1}
      <4>1. bitmap = s.bitmap /\ ~fetch /\ s.bitmap = m /\ m = g /\ s.need_bits = load[m]
        BY <1>2, <3>4 DEF NextBitmap
      <4>2. g \in 1..n
        <5> DEFINE k == Len(s.maps)
        <5>1. m = n - k /\ k \in Nat
          BY <1>3
        <5> HIDE DEF m, k, n, g
        <5> QED
          BY <1>1, <3>1, <4>1, <5>1
      <4> HIDE DEF bitmap, fetch, g, r
      <4> QED
        BY <3>1, <3>4, <4>1, <4>2
    <3> HIDE DEF g, r, bitmap, need
    <3> QED
      BY <3>1, <3>2, <3>3, <3>4
  <2>3. need \in Nat /\ need # 0 /\ bitmap \in Nat
    <3>1. ASSUME r # 0 PROVE load[g] \in Nat \ {0}
      <4> HIDE DEF g, r, n
      <4>1. g \in 1..n
        BY <2>2, <3>1
      <4> QED
        BY <4>1, FrameBitsType DEF n
    <3> HIDE DEF need, bitmap, g, r
    <3> QED
      BY <1>1, <2>2, <3>1
  <2>4. CASE Len(s.bits) < need
    <3> DEFINE nb == IF fetch THEN 1 ELSE s.need_bitmap
               u == [s EXCEPT !.stopped = TRUE, !.bitmap = bitmap, !.need_bits = need,
                              !.need_bitmap = nb]
    <3>1. t = u
      BY <1>7, <2>4 DEF MapSymbol
    <3>2. nb \in {0, 1}
      BY <1>3
    <3>3. fetch \/ (bitmap = s.bitmap /\ need = s.need_bits)
      BY DEF NextBitmap
    <3> HIDE DEF t, bitmap, need, nb
    <3>4. /\ u \in MapLocals /\ u.symbols = s.symbols /\ u.maps = s.maps
          /\ u.counter = s.counter /\ u.bitmap = bitmap /\ u.need_bits = need
          /\ u.bits = s.bits /\ u.copy = s.copy
      BY <1>2, <2>3, <3>2 DEF MapLocals
    <3> HIDE DEF u
    <3>5. AfterSymbols(load, c, m, u)
      BY <1>2, <3>3, <3>4 DEF AfterSymbols
    <3>6. u.copy \/ u.counter \in {0, 1} \/ u.bitmap = mapper.bitmap
      BY <1>2, <3>3, <3>4
    <3> QED
      BY <1>2, <1>5, <3>1, <3>4, <3>5, <3>6 DEF Mapping, t
  <2>5. CASE ~(Len(s.bits) < need)
    <3> DEFINE x == [map |-> bitmap, bits |-> Take(s.bits, need)]
               mm == IF s.counter = 1 THEN Tail(s.maps) ELSE s.maps
               k == n - Len(mm)
               counter == NextCounter(s.counter)
               bits == Drop(s.bits, need)
               symbols == Append(s.symbols, x)
               nb == IF fetch THEN 0 ELSE s.need_bitmap
               copy == s.copy \/ fetch
               u == [s EXCEPT !.bitmap = bitmap, !.need_bits = need, !.need_bitmap = nb,
                              !.copy = copy, !.maps = mm, !.counter = counter,
                              !.bits = bits, !.symbols = symbols]
    <3>1. t = u
      BY <1>7, <2>5 DEF MapSymbol
    <3>2. c < n * F
      <4> DEFINE w == n * F
      <4>1. w \in Nat /\ c <= w
        BY <1>1, <1>2
      <4>2. ASSUME c = w PROVE FALSE
        <5>1. w = F * n + 0 /\ 0 \in 0..(F - 1)
          BY <1>1
        <5>2. q = n /\ r = 0
          <6>1. (F * n + 0) \div F = n /\ (F * n + 0) % F = 0
            BY <1>1, <5>1, DivModIs
          <6>2. c = F * n + 0
            BY <4>2, <5>1
          <6> QED
            BY <6>1, <6>2
        <5>3. a = CtrlAt(load, n) + 0
          BY <5>2 DEF BitsBefore
        <5>4. CtrlAt(load, n) \in Nat
          BY AllCtrlType
        <5> DEFINE b == Len(s.bits)
                   h == CtrlAt(load, n)
        <5>5. a + b = Muxed /\ b \in Nat /\ Muxed <= h /\ h \in Nat /\ a = h + 0 /\ ~(b < need)
          BY <1>2, <1>3, <2>5, <5>3, <5>4
        <5> HIDE DEF a, b, h, need
        <5> QED
          BY <2>3, <5>5
      <4> HIDE DEF w, c
      <4>3. c < w
        BY <1>4, <4>1, <4>2
      <4> QED
        BY <4>3 DEF w
    <3>3. /\ x = SymbolAt(load)[c + 1] /\ x \in Symbol
          /\ bits \in Seq(Bit) /\ Len(bits) = Len(s.bits) - need
          /\ BitsBefore(load, c + 1) = a + need
          /\ Segment(bits, MuxedAt(load), BitsBefore(load, c + 1))
      <4> DEFINE v == s.bits
      <4>1. x = [map |-> IF r = 0 THEN 0 ELSE q + 1, bits |-> Take(v, need)]
        BY <2>2
      <4>2. need = (IF r = 0 THEN dsubc ELSE load[q + 1])
        BY <2>2
      <4>3. need <= Len(v)
        <5> DEFINE b == Len(s.bits)
        <5>1. b \in Nat /\ ~(b < need)
          BY <1>3, <2>5
        <5> HIDE DEF b, need
        <5> QED
          BY <2>3, <5>1 DEF b
      <4>4. /\ load \in Seq(Loads) /\ c \in Nat /\ c < Len(load) * frame_size
            /\ q = c \div frame_size /\ r = c % frame_size
            /\ v \in Seq(Bit) /\ Segment(v, MuxedAt(load), BitsBefore(load, c))
            /\ bits = Drop(v, need)
        BY <1>2, <1>3, <1>4, <3>2
      <4> HIDE DEF x, v, need, q, r, c, bits
      <4>5. /\ x = SymbolAt(load)[c + 1] /\ x \in Symbol
            /\ bits \in Seq(Bit) /\ Len(bits) = Len(v) - need
            /\ BitsBefore(load, c + 1) = BitsBefore(load, c) + need
            /\ Segment(bits, MuxedAt(load), BitsBefore(load, c + 1))
        BY SMTT(30), <4>1, <4>2, <4>3, <4>4, Cutting
      <4> QED
        BY <4>5 DEF v
    <3>4. BitsBefore(load, c + 1) + Len(bits) = Muxed
      <4> DEFINE b == Len(s.bits)
                 h == BitsBefore(load, c + 1)
                 k2 == Len(bits)
      <4>1. a \in Nat
        BY <1>2, <1>4, BitsBeforeType
      <4>2. a + b = Muxed /\ b \in Nat /\ h = a + need /\ k2 = b - need
        BY <1>2, <1>3, <3>3
      <4> HIDE DEF a, b, h, k2, need
      <4>3. h + k2 = Muxed
        BY <2>3, <4>1, <4>2
      <4> QED
        BY <4>3 DEF h, k2
    <3>5. /\ symbols \in Seq(Symbol) /\ Len(symbols) = Len(s.symbols) + 1
          /\ Segment(symbols, SymbolAt(load), d)
      <4> DEFINE v == s.symbols
                 b == Len(v)
      <4>1. c + 1 = d + b + 1
        <5>1. c = d + b /\ b \in Nat
          BY <1>3
        <5> HIDE DEF c, b
        <5> QED
          BY <5>1
      <4>2. /\ v \in Seq(Symbol) /\ x \in Symbol /\ d \in Int
            /\ Segment(v, SymbolAt(load), d) /\ x = SymbolAt(load)[d + Len(v) + 1]
        BY <1>2, <1>3, <3>3, <4>1
      <4> HIDE DEF v, x
      <4>3. /\ Append(v, x) \in Seq(Symbol) /\ Len(Append(v, x)) = Len(v) + 1
            /\ Segment(Append(v, x), SymbolAt(load), d)
        BY <4>2, SegmentAppend
      <4> QED
        BY <4>3 DEF v
    <3>6. d + Len(symbols) = c + 1
      <4> DEFINE b == Len(s.symbols)
      <4>1. d + Len(symbols) = d + (b + 1) /\ c = d + b /\ b \in Nat
        BY <1>3, <3>5
      <4> HIDE DEF c, b, symbols
      <4> QED
        BY <4>1
    <3>7. /\ mm \in Seq(Nat) /\ k \in Nat /\ Segment(mm, FrameAt, k)
          /\ k = (IF r = 1 THEN m + 1 ELSE m)
          /\ e <= Len(mm)
      <4>1. CASE r = 1
        <5> DEFINE z == s.maps
                   v == Len(z)
        <5>1. mm = Tail(z) /\ Len(mm) = v - 1 /\ m = n - v /\ v \in Nat /\ m \in Nat
              /\ e + 1 <= v
          BY <1>2, <1>3, <2>1, <4>1
        <5>2. k = m + 1 /\ e <= Len(mm) /\ k \in Nat
          <6>1. k = n - Len(mm)
            OBVIOUS
          <6> HIDE DEF k, m, v, n, mm
          <6> QED
            BY <1>1, <5>1, <6>1
        <5> HIDE DEF k, m, mm, r
        <5> QED
          BY <2>1, <4>1, <5>1, <5>2
      <4>2. CASE r # 1
        <5>1. mm = s.maps
          BY <1>2, <4>2
        <5> QED
          BY <1>2, <1>3, <1>5, <4>2, <5>1
      <4> QED
        BY <4>1, <4>2
    <3>8. counter = (c + 1) % F /\ counter \in Nat
          /\ IF r = F - 1 THEN (c + 1) \div F = q + 1 /\ (c + 1) % F = 0
             ELSE (c + 1) \div F = q /\ (c + 1) % F = r + 1
      <4>1. counter = (r + 1) % F
        BY <1>2 DEF NextCounter
      <4>2. c \in Nat /\ F \in Nat \ {0}
        BY <1>1, <1>4
      <4>3. IF c % F = F - 1
            THEN (c + 1) \div F = (c \div F) + 1 /\ (c + 1) % F = 0
            ELSE (c + 1) \div F = c \div F /\ (c + 1) % F = (c % F) + 1
        BY <4>2, DivModSucc
      <4> HIDE DEF c, F, counter
      <4>4. ((c % F) + 1) % F = (c + 1) % F
        BY <4>2, ModSucc
      <4>5. (c + 1) % F \in Nat
        <5>1. c + 1 \in Nat
          BY <4>2
        <5>2. (c + 1) % F \in 0..(F - 1)
          BY <4>2, <5>1, DivMod
        <5> QED
          BY <4>2, <5>2
      <4> QED
        BY <4>1, <4>3, <4>4, <4>5
    <3>9. c + 1 <= n * F
      <4> DEFINE w == n * F
      <4>1. w \in Nat /\ c < w
        BY <1>1, <3>2
      <4> HIDE DEF w, c
      <4>2. c + 1 <= w
        BY <1>4, <4>1
      <4> QED
        BY <4>2 DEF w
    <3>10. /\ nb \in {0, 1} /\ copy \in BOOLEAN
           /\ copy \/ bitmap = mapper.bitmap
      <4>1. nb \in {0, 1} /\ copy \in BOOLEAN
        BY <1>3
      <4>2. ASSUME ~copy PROVE bitmap = mapper.bitmap
        BY <1>2, <4>2 DEF NextBitmap
      <4> QED
        BY <4>1, <4>2
    <3>11. IF (c + 1) % F \in {0, 1} THEN k = (c + 1) \div F
           ELSE k = ((c + 1) \div F) + 1 /\ bitmap = k /\ need = load[k]
      <4> DEFINE Q == (c + 1) \div F
                 R == (c + 1) % F
      <4>1. IF r = F - 1 THEN Q = q + 1 /\ R = 0 ELSE Q = q /\ R = r + 1
        BY <3>8
      <4>2. IF r \in {0, 1} THEN m = q ELSE m = q + 1
        BY <1>2
      <4> HIDE DEF Q, R, q, r, bitmap, need, k, m
      <4>3. CASE r = F - 1
        <5>1. r # 0 /\ R = 0 /\ Q = q + 1
          BY <1>1, <4>1, <4>3
        <5>2. k = q + 1
          BY <3>7, <4>2, <5>1
        <5> QED
          BY <5>1, <5>2 DEF Q, R
      <4>4. CASE r # F - 1 /\ r = 0
        <5>1. R = 1 /\ Q = q /\ k = q
          BY <3>7, <4>1, <4>2, <4>4
        <5> QED
          BY <5>1 DEF Q, R
      <4>5. CASE r # F - 1 /\ r # 0
        <5>1. R \notin {0, 1} /\ Q = q
          BY <1>4, <4>1, <4>5
        <5>2. k = q + 1
          BY <3>7, <4>2, <4>5
        <5>3. bitmap = q + 1 /\ need = load[q + 1]
          BY <2>2, <4>5
        <5> QED
          BY <5>1, <5>2, <5>3 DEF Q, R
      <4> QED
        BY <4>3, <4>4, <4>5
    <3> HIDE DEF t, bitmap, need, nb, copy, mm, counter, bits, symbols, fetch
    <3>12. /\ u \in MapLocals /\ u.symbols = symbols /\ u.maps = mm
           /\ u.counter = counter /\ u.bitmap = bitmap /\ u.need_bits = need
           /\ u.bits = bits /\ u.copy = copy
      BY <1>2, <2>3, <3>3, <3>5, <3>7, <3>8, <3>10 DEF MapLocals
    <3> HIDE DEF u
    <3>13. AfterSymbols(load, c + 1, k, u)
      <4> HIDE DEF c, k
      <4> QED
        BY <3>8, <3>9, <3>11, <3>12 DEF AfterSymbols
    <3> HIDE DEF c, k
    <3>14. u \in Mapping(e, d)
      <4>1. d + Len(u.symbols) = c + 1 /\ Len(load) - Len(u.maps) = k
        BY <3>6, <3>12 DEF k
      <4>2. u.copy \/ u.counter \in {0, 1} \/ u.bitmap = mapper.bitmap
        BY <3>10, <3>12
      <4> QED
        BY <3>3, <3>4, <3>5, <3>7, <3>12, <3>13, <4>1, <4>2 DEF Mapping
    <3> QED
      BY <3>1, <3>14 DEF t
  <2> QED
    BY <2>4, <2>5
<1> QED
  BY <1>6, <1>7

LEMMA MapperInv ==
  ASSUME IndInv, NEW n \in Calls, Mapper(n)
  PROVE  IndInv'
<1> DEFINE d == Mapped
           q == buf["symbols"]
           s == MapCall(n)
           c == d + Len(s.symbols)
           m == Len(load) - Len(s.maps)
           N == Min({n, Len(buf["map"])})
<1>1. /\ UNCHANGED <<load, ref_bitcount, mux_bitcount, d_next_input, power, out>>
      /\ mapper' = [bitmap |-> IF s.copy THEN s.bitmap ELSE mapper.bitmap,
                    need_bits |-> s.need_bits, need_bitmap |-> s.need_bitmap,
                    counter |-> s.counter]
      /\ buf' = [buf EXCEPT !["bits"] = s.bits, !["map"] = s.maps,
                            !["symbols"] = @ \o s.symbols]
  <2> HIDE DEF s
  <2> QED
    BY DEF Mapper, s
<1>2. DOMAIN buf = Streams
  BY Lengths
<1> HIDE DEF s
<1>3. /\ DOMAIN buf' = Streams
      /\ buf'["bits"] = s.bits
      /\ buf'["map"] = s.maps
      /\ buf'["symbols"] = q \o s.symbols
      /\ \A t \in Streams \ {"bits", "map", "symbols"} : buf'[t] = buf[t]
  BY <1>1, <1>2 DEF Streams
<1>4. /\ load \in Seq(Loads) /\ Len(load) \in Nat
      /\ Muxed \in Nat /\ Muxed <= CtrlAt(load, Len(load))
      /\ d \in Nat /\ d = Len(out) + Len(q) /\ Len(out) \in Nat /\ Len(q) \in Nat
      /\ q \in Seq(Symbol) /\ Segment(q, SymbolAt(load), Len(out))
  <2>1. /\ load \in Seq(Loads) /\ Len(load) \in Nat /\ Muxed \in Nat
        /\ Len(buf["ctrl"]) \in Nat /\ CtrlAt(load, Len(load)) \in Nat
        /\ Muxed + Len(buf["ctrl"]) <= CtrlAt(load, Len(load))
        /\ Mapped \in Nat /\ Mapped = Len(out) + Len(buf["symbols"])
        /\ Len(out) \in Nat /\ Len(q) \in Nat /\ q \in Seq(Symbol)
    BY Lengths
  <2>2. Muxed <= CtrlAt(load, Len(load))
    <3> DEFINE a == Muxed
               b == Len(buf["ctrl"])
               h == CtrlAt(load, Len(load))
    <3>1. a \in Nat /\ b \in Nat /\ h \in Nat /\ a + b <= h
      BY <2>1
    <3> HIDE DEF a, b, h
    <3>2. a <= h
      BY <3>1
    <3> QED
      BY <3>2 DEF a, h
  <2>3. Segment(q, SymbolAt(load), Len(out))
    BY DEF IndInv, SymbolStream
  <2> QED
    BY <2>1, <2>2, <2>3
<1>5. N \in Nat /\ N <= Len(buf["map"])
  <2> DEFINE k == Len(buf["map"])
  <2>1. k \in Nat
    BY Lengths
  <2>2. n \in Nat
    BY TxAssumption DEF Calls
  <2>3. N = Min({n, k})
    OBVIOUS
  <2> HIDE DEF k, N
  <2>4. N = (IF n <= k THEN n ELSE k)
    BY <2>1, <2>2, <2>3, MinOfTwo
  <2>5. N \in Nat /\ N <= k
    BY <2>1, <2>2, <2>4
  <2> QED
    BY <2>5 DEF k
<1>6. s \in Mapping(0, d)
  <2> DEFINE turn == [t \in MapLocals |-> MapSymbol(t)]
             locals == [bitmap |-> mapper.bitmap, need_bits |-> mapper.need_bits,
                        need_bitmap |-> mapper.need_bitmap, counter |-> mapper.counter,
                        bits |-> buf["bits"], maps |-> buf["map"], symbols |-> << >>,
                        copy |-> FALSE, stopped |-> FALSE]
             I == [k \in 0..N |-> Mapping(N - k, d)]
  <2>1. s = Turns(turn, locals, N)
    BY DEF MapCall, s
  <2>2. locals \in Mapping(N, d)
    <3>1. /\ mapper.bitmap \in Nat \cup {-1} /\ mapper.need_bits \in Nat
          /\ mapper.need_bitmap \in {0, 1} /\ mapper.counter \in Nat
      BY Sizes DEF IndInv, TypeOK
    <3>2. /\ buf["map"] \in Seq(Nat) /\ buf["bits"] \in Seq(Bit)
          /\ << >> \in Seq(Symbol) /\ Len(<< >>) = 0
      BY EmptySeq, Lengths
    <3>3. locals \in MapLocals
      BY <3>1, <3>2 DEF MapLocals
    <3>4. d + Len(locals.symbols) = d /\ Len(load) - Len(locals.maps) = Taken("map")
      <4>1. d + 0 = d
        <5> HIDE DEF d
        <5> QED
          BY <1>4
      <4> QED
        BY <3>2, <4>1 DEF Taken
    <3>5. AfterSymbols(load, d, Taken("map"), locals)
      BY DEF IndInv, BitmapHeld, AfterSymbols
    <3>6. /\ Taken("map") \in Nat /\ Segment(locals.maps, FrameAt, Taken("map"))
          /\ BitsBefore(load, d) + Len(locals.bits) = Muxed
          /\ Segment(locals.bits, MuxedAt(load), BitsBefore(load, d))
      BY DEF IndInv, FrameStreams, BitStream
    <3>7. Segment(locals.symbols, SymbolAt(load), d)
      BY <3>2 DEF Segment
    <3>8. N <= Len(locals.maps) /\ locals.bitmap = mapper.bitmap
      BY <1>5
    <3> HIDE DEF locals, N
    <3> QED
      BY <3>3, <3>4, <3>5, <3>6, <3>7, <3>8 DEF Mapping
  <2> HIDE DEF locals, N
  <2>3. \A k \in 0..(N - 1) : \A t \in I[k] : turn[t] \in I[k + 1]
    <3>1. SUFFICES ASSUME NEW k \in 0..(N - 1), NEW t \in I[k]
                   PROVE  turn[t] \in I[k + 1]
      OBVIOUS
    <3> DEFINE e == N - (k + 1)
    <3>2. k \in 0..N /\ k + 1 \in 0..N /\ e \in Nat /\ N - k = e + 1
      BY <1>5
    <3>3. I[k] = Mapping(e + 1, d) /\ I[k + 1] = Mapping(e, d)
      BY <3>2
    <3> HIDE DEF I, e
    <3>4. t \in Mapping(e + 1, d)
      BY <3>3
    <3>5. turn[t] = MapSymbol(t)
      BY <3>4 DEF Mapping
    <3> HIDE DEF turn, d
    <3>6. MapSymbol(t) \in Mapping(e, d)
      BY <1>4, <3>2, <3>4, MapTurn
    <3> QED
      BY <3>3, <3>5, <3>6
  <2>4. 0 \in 0..N /\ N \in 0..N /\ N - 0 = N /\ N - N = 0
    BY <1>5
  <2>5. I[0] = Mapping(N, d) /\ I[N] = Mapping(0, d)
    BY <2>4
  <2> HIDE DEF I, turn
  <2>6. Turns(turn, locals, N) \in I[N]
    BY <1>5, <2>2, <2>3, <2>5, LoopStages
  <2> QED
    BY <2>1, <2>5, <2>6
<1>7. /\ s \in MapLocals
      /\ AfterSymbols(load, c, m, s)
      /\ m \in Nat /\ Segment(s.maps, FrameAt, m)
      /\ BitsBefore(load, c) + Len(s.bits) = Muxed
      /\ Segment(s.bits, MuxedAt(load), BitsBefore(load, c))
      /\ Segment(s.symbols, SymbolAt(load), d)
      /\ s.copy \/ s.counter \in {0, 1} \/ s.bitmap = mapper.bitmap
  BY <1>6 DEF Mapping
<1>8. /\ s.bitmap \in Nat \cup {-1} /\ s.need_bits \in Nat /\ s.need_bitmap \in {0, 1}
      /\ s.bits \in Seq(Bit) /\ s.maps \in Seq(Nat) /\ s.symbols \in Seq(Symbol)
      /\ s.copy \in BOOLEAN /\ Len(s.symbols) \in Nat
  BY <1>7, LenProperties DEF MapLocals
<1>9. /\ q \o s.symbols \in Seq(Symbol)
      /\ Len(out) + Len(q \o s.symbols) = c
      /\ Segment(q \o s.symbols, SymbolAt(load), Len(out))
  <2> DEFINE z == s.symbols
             i == Len(out)
             a == Len(q)
             b == Len(z)
  <2>1. z \in Seq(Symbol) /\ q \in Seq(Symbol) /\ Segment(q, SymbolAt(load), i)
        /\ i \in Int /\ Segment(z, SymbolAt(load), i + Len(q))
    BY <1>4, <1>7, <1>8
  <2> HIDE DEF z, q, i
  <2>2. q \o z \in Seq(Symbol) /\ Len(q \o z) = a + b
    BY <2>1, ConcatProperties
  <2>3. Segment(q \o z, SymbolAt(load), i)
    BY <2>1, SegmentConcat
  <2>4. i + (a + b) = c
    <3>1. c = d + b /\ d = i + a /\ i \in Nat /\ a \in Nat /\ b \in Nat
      BY <1>4, <1>8 DEF z, i, q
    <3> HIDE DEF a, b, d, c
    <3> QED
      BY <3>1
  <2> QED
    BY <2>2, <2>3, <2>4 DEF z, i
<1>10. /\ \A t \in {"id", "ref", "count", "pow"} : buf'[t] = buf[t]
       /\ \A t \in {"id", "ref", "count", "pow"} : Taken(t)' = Taken(t)
       /\ Muxed' = Muxed
  <2>1. \A t \in {"id", "ref", "count", "pow"} : buf'[t] = buf[t] /\ Taken(t)' = Taken(t)
    BY <1>1, <1>3 DEF Taken, Streams
  <2> QED
    BY <1>1, <1>3, <2>1 DEF Muxed, Streams
<1>11. Mapped' = c /\ Taken("map")' = m
  BY <1>1, <1>3, <1>9 DEF Mapped, Taken
<1>12. s.counter \in 0..(frame_size - 1)
  <2>1. s.counter = c % frame_size /\ frame_size \in Nat \ {0}
    BY <1>7, Sizes DEF AfterSymbols
  <2>2. c \in Nat
    <3> DEFINE b == Len(s.symbols)
    <3>1. b \in Nat /\ d \in Nat
      BY <1>4, <1>8
    <3> HIDE DEF b, d
    <3> QED
      BY <3>1
  <2> HIDE DEF c
  <2> QED
    BY <2>1, <2>2, DivMod
<1>13. AfterSymbols(load, c, m, mapper')
  <2>1. /\ mapper'.counter = s.counter /\ mapper'.need_bits = s.need_bits
        /\ s.counter \in {0, 1} \/ mapper'.bitmap = s.bitmap
    BY <1>1, <1>7
  <2> HIDE DEF c, m
  <2> QED
    BY <1>7, <2>1 DEF AfterSymbols
<1> HIDE DEF c, m, q, d, N
<1>14. TypeOK'
  <2>1. mapper' \in [bitmap : Nat \cup {-1}, need_bits : Nat,
                     need_bitmap : {0, 1}, counter : 0..(frame_size - 1)]
    <3>1. mapper.bitmap \in Nat \cup {-1}
      BY DEF IndInv, TypeOK
    <3> QED
      BY <1>1, <1>8, <1>12, <3>1
  <2> QED
    BY <1>1, <1>3, <1>8, <2>1 DEF IndInv, TypeOK, Streams
<1>15. FrameStreams'
  BY <1>3, <1>7, <1>10, <1>11 DEF IndInv, FrameStreams
<1>16. BitStream'
  BY <1>1, <1>3, <1>7, <1>10, <1>11 DEF BitStream
<1>17. BitmapHeld'
  BY <1>1, <1>11, <1>13 DEF BitmapHeld
<1>18. SymbolStream'
  BY <1>1, <1>3, <1>9 DEF SymbolStream, q
<1>19. CtrlItems' /\ IdStream' /\ DataStream' /\ PowerHeld' /\ Sent'
  BY <1>1, <1>3, <1>10
     DEF IndInv, CtrlItems, IdStream, DataStream, PowerHeld, Sent, Streams
<1> QED
  BY <1>14, <1>15, <1>16, <1>17, <1>18, <1>19 DEF IndInv

-----------------------------------------------------------------------------
(* The theorems.                                                           *)

(* The streams carry the bits, control items and symbols of the frames in  *)
(* the order of their numbers, and every block's counters point at the     *)
(* place its streams have reached, however the blocks are called.          *)
THEOREM Numbering == Spec => []IndInv
<1>1. ASSUME IndInv, [Next]_vars PROVE IndInv'
  <2>1. CASE UNCHANGED vars
    BY <1>1, <2>1, StutterInv
  <2>2. ASSUME NEW l \in Loads, SendFrame(l) PROVE IndInv'
    BY <1>1, <2>2, SendFrameInv
  <2>3. CASE Blocks
    <3>1. CASE IdEncoder
      BY <1>1, <3>1, EncodeIdsInv DEF IdEncoder
    <3>2. CASE ReferenceSource
      BY <1>1, <3>2, SetReferenceInv, ReferenceInv DEF ReferenceSource
    <3>3. CASE Control
      BY <1>1, <3>3, SetCtrlStreamInv, MuxCtrlInv DEF Control
    <3>4. CASE Multiplexer
      BY <1>1, <3>4, MuxInv DEF Multiplexer
    <3>5. CASE Modulator
      BY <1>1, <3>5, MapperInv DEF Modulator
    <3>6. CASE PowerAllocator
      BY <1>1, <3>6, PowerInv DEF PowerAllocator
    <3> QED
      BY <2>3, <3>1, <3>2, <3>3, <3>4, <3>5, <3>6 DEF Blocks
  <2> QED
    BY <1>1, <2>1, <2>2, <2>3 DEF Next
<1> QED
  BY <1>1, InitInv, PTL DEF Spec

(* The streams and the locals of the blocks keep their types, the counters *)
(* of the mapper and of the power allocator their range.                   *)
THEOREM FramingTypes == Spec => []TypeOK
<1>1. IndInv => TypeOK
  BY DEF IndInv
<1> QED
  BY <1>1, Numbering, PTL

LEMMA SentExpected == IndInv => SymbolsFramed
<1> SUFFICES ASSUME IndInv, NEW k \in 1..Len(out)
             PROVE  out[k] = Expected(k - 1)
  BY DEF SymbolsFramed
<1>1. k \in Nat \ {0} /\ Len(out) \in Nat /\ 0 + k = k
  <2>1. Len(out) \in Nat
    BY Lengths
  <2> QED
    BY <2>1
<1>2. out[k] = SentAt(load)[k]
  <2>1. out[k] = SentAt(load)[0 + k]
    BY DEF IndInv, Sent, Segment
  <2> QED
    BY <1>1, <2>1
<1> DEFINE f == ((k - 1) \div frame_size) + 1
           j == (k - 1) % frame_size
<1>3. SymbolAt(load)[k] = SymbolOf(load, f, j)
  BY <1>1 DEF SymbolAt, FrameOf
<1>4. SentAt(load)[k] = [map |-> SymbolAt(load)[k].map, bits |-> SymbolAt(load)[k].bits,
                         power |-> f]
  BY <1>1 DEF SentAt, FrameOf
<1>5. Expected(k - 1)
        = [map   |-> IF j = 0 THEN 0 ELSE f,
           power |-> f,
           bits  |-> IF j = 0 THEN IdBits(f)
                     ELSE SubSeq(DataBits(f, BitCount(f)), (j - 1) * load[f] + 1,
                                 j * load[f])]
  BY DEF Expected
<1> HIDE DEF f, j
<1> QED
  BY <1>2, <1>3, <1>4, <1>5 DEF SymbolOf, BitCount

(* Every symbol sent carries the bits of its own frame, mapped with this   *)
(* frame's bit loading and scaled with its power, whatever chunks the      *)
(* scheduler calls the blocks with.                                        *)
THEOREM Framed == Spec => []SymbolsFramed
BY Numbering, SentExpected, PTL
=============================================================================
